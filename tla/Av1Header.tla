------------------------------ MODULE Av1Header ------------------------------
(***************************************************************************)
(* Where refresh_frame_flags comes from.  VA-API does not carry the field, *)
(* so the driver looks for it in the bitstream: it reads every frame OBU   *)
(* of the span as an uncompressed header and adopts the flags of the first *)
(* one that agrees with the picture parameters.  The sequence header is    *)
(* not available, so whether the screen-content bits are there is guessed. *)
(*                                                                         *)
(* A header is a sequence of bits, since the question is whether a guess   *)
(* that is off by a bit can agree by accident.                             *)
(***************************************************************************)
EXTENDS Integers, SequencesExt

CONSTANTS
  OrderHintBits,  \* order_hint_bits_minus_1 + 1
  RefreshBits     \* NUM_REF_FRAMES, 8 in AV1

Key == 0
Inter == 1
IntraOnly == 2
Switch == 3

NoPrimary == 7       \* PRIMARY_REF_NONE
AllRefreshed == 2^RefreshBits - 1

BitsOf(v, n) == [i \in 1 .. n |-> (v \div 2^(n - i)) % 2]
Optional(present, bits) == IF present THEN bits ELSE <<>>

(* ------------------------- the encoder (external) ---------------------- *)

(* The uncompressed header up to refresh_frame_flags, as the encoder of    *)
(* the stream wrote it; "seq" says which optional bits the sequence has.   *)
Header(f, seq) ==
  LET intra == f.type \in {Key, IntraOnly}
      forced == f.type = Switch \/ (f.type = Key /\ f.show = 1)
  IN <<0>> \o BitsOf(f.type, 2) \o <<f.show>>
     \o Optional(f.show = 0, <<0>>)
     \o Optional(~forced, <<f.resilient>>)
     \o <<0>>
     \o Optional(seq.screenContent, <<f.screenContent>>)
     \o Optional(seq.integerMv /\ f.screenContent = 1, <<f.integerMv>>)
     \o Optional(f.type # Switch, <<f.sizeOverride>>)
     \o BitsOf(f.orderHint, OrderHintBits)
     \o Optional(~intra /\ f.resilient = 0, BitsOf(f.primary, 3))
     \o Optional(~forced, BitsOf(f.refresh, RefreshBits))
     \o <<0, 1, 0, 1>>

(* ------------------------------ the driver ----------------------------- *)

(* av1_br_f: the value of n bits from position p on; 0 beyond the end.     *)
Read(bits, p, n) ==
  LET bit(i) == IF i <= Len(bits) THEN bits[i] ELSE 0
  IN FoldLeft(LAMBDA v, i : 2 * v + bit(i), 0, [k \in 1 .. n |-> p + k - 1])

(* The types for which the parser takes error_resilient_mode as given and  *)
(* reads no frame_size_override_flag.                                      *)
ResilientTypes == {IntraOnly}

AllRefreshes(type, show) == type = 2 \/ (type = Key /\ show = 1)

(* One reading of a header, with or without the screen-content bits: what  *)
(* the picture parameters can be compared with, and the flags.             *)
Reading(bits, withScreenContent) ==
  LET type == Read(bits, 2, 2)
      show == Read(bits, 4, 1)
      pResilient == IF show = 1 THEN 5 ELSE 6
      given == type \in ResilientTypes \/ (type = Key /\ show = 1)
      resilient == IF given THEN 1 ELSE Read(bits, pResilient, 1)
      pCdf == IF given THEN pResilient ELSE pResilient + 1
      pScreen == pCdf + 1
      screen == IF withScreenContent THEN Read(bits, pScreen, 1) ELSE 0
      pSize == IF ~withScreenContent THEN pScreen ELSE pScreen + 1 + screen
      pHint == IF type \in ResilientTypes THEN pSize ELSE pSize + 1
      pPrimary == pHint + OrderHintBits
      hasPrimary == resilient = 0 /\ type = Inter
      pRefresh == IF hasPrimary THEN pPrimary + 3 ELSE pPrimary
      end == IF AllRefreshes(type, show) THEN pRefresh ELSE pRefresh + RefreshBits
  IN [fits |-> end - 1 <= Len(bits),
      type |-> type, show |-> show, screenContent |-> screen,
      orderHint |-> Read(bits, pHint, OrderHintBits),
      primary |-> IF hasPrimary THEN Read(bits, pPrimary, 3) ELSE NoPrimary,
      refresh |-> IF AllRefreshes(type, show) THEN AllRefreshed
                  ELSE Read(bits, pRefresh, RefreshBits)]

(* mutant: show_frame is not compared *)
AgreesUnshown(r, va, withScreenContent) ==
  /\ r.fits /\ r.type = va.type
  /\ r.orderHint = va.orderHint /\ r.primary = va.primary
  /\ withScreenContent => r.screenContent = va.screenContent

(* What has to agree with the picture parameters of libva.                 *)
Agrees(r, va, withScreenContent) ==
  /\ r.fits
  /\ r.type = va.type /\ r.show = va.show
  /\ r.orderHint = va.orderHint /\ r.primary = va.primary
  /\ withScreenContent => r.screenContent = va.screenContent

NotFound == -1

(* av1_parse_hdr_refresh on the frame OBUs of a span: the first agreeing   *)
(* reading, without the optional bits before with them.                    *)
ParsedRefresh(obus, va) ==
  LET agreeing == {c \in (1 .. Len(obus)) \X {0, 1} :
                     Agrees(Reading(obus[c[1]], c[2] = 1), va, c[2] = 1)}
  IN IF agreeing = {} THEN NotFound
     ELSE LET first == CHOOSE c \in agreeing :
                         \A d \in agreeing : 2 * c[1] + c[2] <= 2 * d[1] + d[2]
          IN Reading(obus[first[1]], first[2] = 1).refresh
=============================================================================
