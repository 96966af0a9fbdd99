--------------------------- MODULE PictureBuffers ---------------------------
(***************************************************************************)
(* The parameter and slice buffers of a picture.  vaRenderPicture stores   *)
(* bare pointers in the context's pending_buffers; vaEndPicture hands the  *)
(* array to a translator.  Nothing ties a pointer to the life of its       *)
(* buffer, so what the translator reads depends on the order in which the  *)
(* client's threads create, render and destroy.  Every entry point holds   *)
(* g_v4l2sl_lock and is one action.                                        *)
(*                                                                         *)
(* IDs come from counters that only grow, so a buffer or context ID is     *)
(* used once.  What a buffer contains is left out.                         *)
(***************************************************************************)
EXTENDS Integers, Sequences, FiniteSets

CONSTANTS
  Contexts, Buffers,
  MaxPending,   \* length of pending_buffers (256)
  MaxRender,    \* buffers in one vaRenderPicture
  EarlyDestroy, \* clients destroy a buffer between render and vaEndPicture
  LateDestroy,  \* clients destroy a context before its buffers
  Orphan, Unborn, Freed, Lost

ASSUME BuffersAssumption ==
  /\ MaxPending \in Nat \ {0} /\ MaxRender \in Nat \ {0}
  /\ EarlyDestroy \in BOOLEAN /\ LateDestroy \in BOOLEAN
  /\ Cardinality({Orphan, Unborn, Freed, Lost}) = 4
  /\ {Orphan, Unborn, Freed, Lost} \cap Contexts = {}

VARIABLES
  up,       \* the driver data exists
  fresh,    \* context IDs not given out yet
  live,     \* driver_data->contexts
  list,     \* list[b]: the list a buffer is on: a context's, the orphans';
            \* or Unborn, Freed, or Lost: on none, and never freed
  current,  \* the contexts with a current_surface
  pending,  \* pending[c]: pending_buffers[0 .. num_pending_buffers - 1]
  asked,    \* not in the code: what the client rendered since vaBeginPicture
  givenUp,  \* not in the code: the contexts whose picture the client dropped
            \* after a failed vaRenderPicture
  decoded   \* not in the code: the last picture translated

vars == <<up, fresh, live, list, current, pending, asked, givenUp, decoded>>

Renders == UNION {[1 .. n -> Buffers] : n \in 1 .. MaxRender}
NoPicture == [got |-> <<>>, asked |-> <<>>, dead |-> {}]

Init ==
  /\ up = TRUE /\ fresh = Contexts /\ live = {}
  /\ list = [b \in Buffers |-> Unborn]
  /\ current = {} /\ pending = [c \in Contexts |-> <<>>]
  /\ asked = [c \in Contexts |-> <<>>] /\ givenUp = {} /\ decoded = NoPicture

-----------------------------------------------------------------------------
CreateContext(c) ==
  /\ up /\ c \in fresh
  /\ fresh' = fresh \ {c} /\ live' = live \cup {c}
  /\ UNCHANGED <<up, list, current, pending, asked, givenUp, decoded>>

(* The context's record goes, and with it the head of its buffer list.     *)
Dropped(c) == [b \in Buffers |-> IF list[b] = c THEN Lost ELSE list[b]]

DestroyContext(c) ==
  /\ up /\ c \in live
  /\ LateDestroy \/ \A b \in Buffers : list[b] # c
  /\ live' = live \ {c} /\ current' = current \ {c}
  /\ list' = Dropped(c)
  /\ pending' = [pending EXCEPT ![c] = <<>>]
  /\ asked' = [asked EXCEPT ![c] = <<>>] /\ givenUp' = givenUp \ {c}
  /\ UNCHANGED <<up, fresh, decoded>>

(* vaCreateBuffer: a buffer for no known context is an orphan.             *)
CreateBuffer(b, c) ==
  /\ up /\ list[b] = Unborn
  /\ list' = [list EXCEPT ![b] = IF c \in live THEN c ELSE Orphan]
  /\ UNCHANGED <<up, fresh, live, current, pending, asked, givenUp, decoded>>

(* The pictures that the client has begun and means to end, and that use   *)
(* the buffer.                                                             *)
Using(b) ==
  {c \in current \ givenUp : \E i \in DOMAIN asked[c] : asked[c][i] = b}

(* vaDestroyBuffer: pending_buffers is not searched.                       *)
DestroyBuffer(b) ==
  /\ up /\ list[b] \in live \cup {Orphan}
  /\ EarlyDestroy \/ Using(b) = {}
  /\ list' = [list EXCEPT ![b] = Freed]
  /\ UNCHANGED <<up, fresh, live, current, pending, asked, givenUp, decoded>>

-----------------------------------------------------------------------------
(* mutant: the array is emptied by vaEndPicture alone *)
BeginKeeps(c) == pending[c]

(* What vaBeginPicture leaves of the previous picture's buffers.           *)
Emptied(c) == <<>>

BeginPicture(c) ==
  /\ up /\ c \in live
  /\ current' = current \cup {c}
  /\ pending' = [pending EXCEPT ![c] = Emptied(c)]
  /\ asked' = [asked EXCEPT ![c] = <<>>] /\ givenUp' = givenUp \ {c}
  /\ UNCHANGED <<up, fresh, live, list, decoded>>

(* vaDestroySurfaces of the surface the picture was begun on.              *)
TargetDestroyed(c) ==
  /\ up /\ c \in current
  /\ current' = current \ {c}
  /\ UNCHANGED <<up, fresh, live, list, pending, asked, givenUp, decoded>>

(* The first i of the buffers are the context's own, and there is room.    *)
Accepts(c, bs, i) ==
  \A j \in 1 .. i : list[bs[j]] = c /\ Len(pending[c]) + j <= MaxPending

(***************************************************************************)
(* vaRenderPicture stops at the first buffer that is not the context's or  *)
(* does not fit; the ones before it stay pending, and so does the current  *)
(* surface.  The client gives the picture up when the call fails.          *)
(***************************************************************************)
RenderPicture(c, bs) ==
  /\ up /\ c \in live \ givenUp
  /\ \A j \in DOMAIN bs : list[bs[j]] \in live \cup {Orphan}
  /\ \E i \in 0 .. Len(bs) :
       /\ Accepts(c, bs, i)
       /\ \A k \in i + 1 .. Len(bs) : ~Accepts(c, bs, k)
       /\ pending' = [pending EXCEPT ![c] = @ \o SubSeq(bs, 1, i)]
       /\ IF i = Len(bs)
          THEN asked' = [asked EXCEPT ![c] = @ \o bs] /\ UNCHANGED givenUp
          ELSE givenUp' = givenUp \cup {c} /\ UNCHANGED asked
  /\ UNCHANGED <<up, fresh, live, list, current, decoded>>

(* The translators read every pending buffer.  Without a current surface   *)
(* vaEndPicture returns an error and leaves the array as it is.            *)
EndPicture(c) ==
  /\ up /\ c \in current \ givenUp
  /\ decoded' = [got |-> pending[c], asked |-> asked[c],
                 dead |-> {pending[c][i] : i \in {j \in DOMAIN pending[c] :
                                                   list[pending[c][j]] # c}}]
  /\ current' = current \ {c}
  /\ pending' = [pending EXCEPT ![c] = <<>>]
  /\ asked' = [asked EXCEPT ![c] = <<>>]
  /\ UNCHANGED <<up, fresh, live, list, givenUp>>

(* mutant: only the contexts' lists are walked *)
ReclaimedListed == [b \in Buffers |-> IF list[b] \in live THEN Freed ELSE list[b]]

(* What vaTerminate frees: the contexts' buffers and the orphans.          *)
Reclaimed ==
  [b \in Buffers |-> IF list[b] \in live \cup {Orphan} THEN Freed ELSE list[b]]

Terminate ==
  /\ up
  /\ up' = FALSE
  /\ list' = Reclaimed
  /\ live' = {} /\ current' = {} /\ givenUp' = {}
  /\ pending' = [c \in Contexts |-> <<>>] /\ asked' = [c \in Contexts |-> <<>>]
  /\ UNCHANGED <<fresh, decoded>>

Next ==
  \/ \E c \in Contexts :
       \/ CreateContext(c) \/ DestroyContext(c)
       \/ BeginPicture(c) \/ TargetDestroyed(c) \/ EndPicture(c)
       \/ \E bs \in Renders : RenderPicture(c, bs)
  \/ \E b \in Buffers, c \in Contexts : CreateBuffer(b, c)
  \/ \E b \in Buffers : DestroyBuffer(b)
  \/ Terminate

Spec == Init /\ [][Next]_vars

-----------------------------------------------------------------------------
(* A translator is given exactly the buffers the client rendered since its *)
(* vaBeginPicture, in that order, and all of them exist: nothing is left   *)
(* from a picture that was abandoned, and nothing points at freed memory.  *)
TranslatesWhatWasRendered ==
  decoded.got = decoded.asked /\ decoded.dead = {}

(* After vaTerminate every buffer has been freed.                          *)
AllReclaimed == ~up => \A b \in Buffers : list[b] \in {Unborn, Freed}

=============================================================================
