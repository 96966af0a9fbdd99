------------------------ MODULE PictureBuffersProofs ------------------------
(***************************************************************************)
(* What a translator is given and what vaTerminate leaves, for any number  *)
(* of contexts and buffers and any lengths: PictureBuffers'                *)
(* TranslatesWhatWasRendered for clients that keep a picture's buffers     *)
(* until they end it, and AllReclaimed for clients that destroy a          *)
(* context's buffers before the context.                                   *)
(***************************************************************************)
EXTENDS PictureBuffers, SequenceTheorems, TLAPS

(* Every list is that of a live context, or no context's.                  *)
ListsOK ==
  /\ up \in BOOLEAN /\ live \subseteq Contexts /\ fresh \subseteq Contexts
  /\ list \in [Buffers -> live \cup {Orphan, Unborn, Freed, Lost}]

PicturesOK ==
  /\ current \subseteq live
  /\ pending \in [Contexts -> Seq(Buffers)]
  /\ asked \in [Contexts -> Seq(Buffers)]

(* In a picture that the client still means to end, pending_buffers is     *)
(* what the client rendered, and all of it is on the context's list.       *)
PictureWhole(c) ==
  /\ pending[c] = asked[c]
  /\ \A i \in DOMAIN asked[c] : list[asked[c][i]] = c

PicturesWhole == \A c \in current \ givenUp : PictureWhole(c)

IInv == ListsOK /\ PicturesOK

-----------------------------------------------------------------------------
(* What the operators return.                                              *)

LEMMA NoContext ==
  /\ Orphan \notin Contexts /\ Unborn \notin Contexts
  /\ Freed \notin Contexts /\ Lost \notin Contexts
BY BuffersAssumption

LEMMA RendersAreSeqs ==
  ASSUME NEW bs \in Renders
  PROVE  bs \in Seq(Buffers)
<1>1. PICK n \in 1 .. MaxRender : bs \in [1 .. n -> Buffers]
  BY DEF Renders
<1> QED
  BY <1>1, BuffersAssumption, IsASeq

LEMMA PrefixIsSeq ==
  ASSUME NEW bs \in Seq(Buffers), NEW i \in 0 .. Len(bs)
  PROVE  SubSeq(bs, 1, i) \in Seq(Buffers)
<1>1. \A j \in 1 .. i : bs[j] \in Buffers
  BY ElementOfSeq
<1> QED
  BY <1>1, SubSeqProperties

(* Every element of a concatenation is an element of one part.             *)
LEMMA ElementOfConcat ==
  ASSUME NEW s \in Seq(Buffers), NEW t \in Seq(Buffers), NEW i \in DOMAIN (s \o t)
  PROVE  \/ \E j \in DOMAIN s : (s \o t)[i] = s[j]
         \/ \E j \in DOMAIN t : (s \o t)[i] = t[j]
<1>1. /\ DOMAIN s = 1 .. Len(s) /\ DOMAIN t = 1 .. Len(t)
      /\ DOMAIN (s \o t) = 1 .. Len(s) + Len(t)
      /\ Len(s) \in Nat /\ Len(t) \in Nat
  BY ConcatProperties, LenProperties
<1>2. (s \o t)[i] = IF i <= Len(s) THEN s[i] ELSE t[i - Len(s)]
  BY <1>1, ConcatProperties
<1>3. CASE i <= Len(s)
  BY <1>1, <1>2, <1>3
<1>4. CASE ~(i <= Len(s))
  <2>1. i - Len(s) \in DOMAIN t
    BY <1>1, <1>4
  <2> QED
    BY <1>2, <1>4, <2>1
<1> QED
  BY <1>3, <1>4

-----------------------------------------------------------------------------
(* Types.                                                                  *)

LEMMA TypesInit == Init => IInv
<1> SUFFICES ASSUME Init PROVE IInv
  OBVIOUS
<1>1. <<>> \in Seq(Buffers)
  BY EmptySeq
<1> QED
  BY <1>1 DEF Init, IInv, ListsOK, PicturesOK

LEMMA ContextTypes ==
  ASSUME IInv, NEW c \in Contexts, CreateContext(c) \/ DestroyContext(c)
  PROVE  IInv'
<1>1. <<>> \in Seq(Buffers)
  BY EmptySeq
<1>2. CASE CreateContext(c)
  BY <1>2 DEF IInv, ListsOK, PicturesOK, CreateContext
<1>3. CASE DestroyContext(c)
  BY <1>1, <1>3 DEF IInv, ListsOK, PicturesOK, DestroyContext, Dropped
<1> QED
  BY <1>2, <1>3

LEMMA BufferTypes ==
  ASSUME IInv, NEW b \in Buffers,
         (\E c \in Contexts : CreateBuffer(b, c)) \/ DestroyBuffer(b)
  PROVE  IInv'
BY DEF IInv, ListsOK, PicturesOK, CreateBuffer, DestroyBuffer

LEMMA PictureTypes ==
  ASSUME IInv, NEW c \in Contexts,
         BeginPicture(c) \/ TargetDestroyed(c) \/ EndPicture(c)
  PROVE  IInv'
<1>1. <<>> \in Seq(Buffers)
  BY EmptySeq
<1> QED
  BY <1>1 DEF IInv, ListsOK, PicturesOK, BeginPicture, Emptied, TargetDestroyed, EndPicture

(* vaRenderPicture takes a prefix of its buffers; all of them if it        *)
(* succeeds.                                                               *)
LEMMA RenderEffect ==
  ASSUME IInv, NEW c \in Contexts, NEW bs \in Renders, RenderPicture(c, bs)
  PROVE  /\ UNCHANGED <<up, fresh, live, list, current, decoded>>
         /\ \E s \in Seq(Buffers) : pending' = [pending EXCEPT ![c] = @ \o s]
         /\ \/ UNCHANGED asked /\ givenUp' = givenUp \cup {c}
            \/ /\ pending' = [pending EXCEPT ![c] = @ \o bs]
               /\ asked' = [asked EXCEPT ![c] = @ \o bs]
               /\ \A j \in DOMAIN bs : list[bs[j]] = c
               /\ UNCHANGED givenUp
<1>1. bs \in Seq(Buffers)
  BY RendersAreSeqs
<1>2. PICK i \in 0 .. Len(bs) :
        /\ Accepts(c, bs, i)
        /\ pending' = [pending EXCEPT ![c] = @ \o SubSeq(bs, 1, i)]
        /\ IF i = Len(bs)
           THEN asked' = [asked EXCEPT ![c] = @ \o bs] /\ UNCHANGED givenUp
           ELSE givenUp' = givenUp \cup {c} /\ UNCHANGED asked
  BY DEF RenderPicture
<1>3. SubSeq(bs, 1, i) \in Seq(Buffers)
  BY <1>1, PrefixIsSeq
<1>4. CASE i = Len(bs)
  <2>1. SubSeq(bs, 1, i) = bs
    BY <1>1, <1>4, SubSeqFull
  <2>2. \A j \in DOMAIN bs : list[bs[j]] = c
    BY <1>1, <1>2, <1>4, LenProperties DEF Accepts
  <2> QED
    BY <1>2, <1>3, <1>4, <2>1, <2>2 DEF RenderPicture
<1> QED
  BY <1>2, <1>3, <1>4 DEF RenderPicture

LEMMA RenderTypes ==
  ASSUME IInv, NEW c \in Contexts, NEW bs \in Renders, RenderPicture(c, bs)
  PROVE  IInv'
<1>1. /\ pending[c] \in Seq(Buffers) /\ asked[c] \in Seq(Buffers) /\ bs \in Seq(Buffers)
  BY RendersAreSeqs DEF IInv, PicturesOK
<1>2. \A s \in Seq(Buffers) : pending[c] \o s \in Seq(Buffers) /\ asked[c] \o s \in Seq(Buffers)
  BY <1>1, ConcatProperties
<1>3. PICK s \in Seq(Buffers) : pending' = [pending EXCEPT ![c] = @ \o s]
  BY RenderEffect
<1>4. asked' \in {asked, [asked EXCEPT ![c] = @ \o bs]}
  BY RenderEffect
<1>5. pending' \in [Contexts -> Seq(Buffers)] /\ asked' \in [Contexts -> Seq(Buffers)]
  BY <1>1, <1>2, <1>3, <1>4 DEF IInv, PicturesOK
<1> QED
  BY <1>5, RenderEffect DEF IInv, ListsOK, PicturesOK

LEMMA TypesStep ==
  ASSUME IInv, [Next]_vars
  PROVE  IInv'
<1>1. CASE UNCHANGED vars
  BY <1>1 DEF IInv, ListsOK, PicturesOK, vars
<1>2. CASE Terminate
  <2>1. <<>> \in Seq(Buffers)
    BY EmptySeq
  <2> QED
    BY <1>2, <2>1 DEF IInv, ListsOK, PicturesOK, Terminate, Reclaimed
<1>3. CASE \E c \in Contexts : CreateContext(c) \/ DestroyContext(c)
  BY <1>3, ContextTypes
<1>4. CASE \E c \in Contexts : BeginPicture(c) \/ TargetDestroyed(c) \/ EndPicture(c)
  BY <1>4, PictureTypes
<1>5. CASE \E c \in Contexts : \E bs \in Renders : RenderPicture(c, bs)
  BY <1>5, RenderTypes
<1>6. CASE \E b \in Buffers : (\E c \in Contexts : CreateBuffer(b, c)) \/ DestroyBuffer(b)
  BY <1>6, BufferTypes
<1> QED
  BY <1>1, <1>2, <1>3, <1>4, <1>5, <1>6 DEF Next

-----------------------------------------------------------------------------
(* Pictures.                                                               *)

(* A picture that no step touches stays whole: its buffers keep their      *)
(* list.                                                                   *)
LEMMA WholeStays ==
  ASSUME PicturesWhole, NEW d \in current \ givenUp,
         pending'[d] = pending[d], asked'[d] = asked[d],
         \A i \in DOMAIN asked[d] : list'[asked[d][i]] = list[asked[d][i]]
  PROVE  PictureWhole(d)'
BY DEF PicturesWhole, PictureWhole

LEMMA ContextsKeepWhole ==
  ASSUME IInv, PicturesWhole, NEW c \in Contexts, CreateContext(c) \/ DestroyContext(c)
  PROVE  PicturesWhole'
<1> SUFFICES ASSUME NEW d \in (current \ givenUp)' PROVE PictureWhole(d)'
  BY DEF PicturesWhole
<1>1. d \in current \ givenUp /\ d \in Contexts /\ (DestroyContext(c) => d # c)
  BY DEF CreateContext, DestroyContext, IInv, ListsOK, PicturesOK
<1>2. \A i \in DOMAIN asked[d] : asked[d][i] \in Buffers /\ list[asked[d][i]] = d
  <2>1. asked[d] \in Seq(Buffers)
    BY <1>1 DEF IInv, PicturesOK
  <2> QED
    BY <1>1, <2>1, LenProperties, ElementOfSeq DEF PicturesWhole, PictureWhole
<1>3. /\ pending'[d] = pending[d] /\ asked'[d] = asked[d]
      /\ \A i \in DOMAIN asked[d] : list'[asked[d][i]] = list[asked[d][i]]
  BY <1>1, <1>2 DEF CreateContext, DestroyContext, Dropped, IInv, PicturesOK
<1> QED
  BY <1>1, <1>3, WholeStays

(* A new buffer was on no list; one that is destroyed is in no picture.    *)
LEMMA BuffersKeepWhole ==
  ASSUME ~EarlyDestroy, IInv, PicturesWhole, NEW b \in Buffers,
         (\E c \in Contexts : CreateBuffer(b, c)) \/ DestroyBuffer(b)
  PROVE  PicturesWhole'
<1> SUFFICES ASSUME NEW d \in (current \ givenUp)' PROVE PictureWhole(d)'
  BY DEF PicturesWhole
<1>1. d \in current \ givenUp /\ d \in Contexts
  BY DEF CreateBuffer, DestroyBuffer, IInv, ListsOK, PicturesOK
<1>2. \A i \in DOMAIN asked[d] : list[asked[d][i]] = d
  BY <1>1 DEF PicturesWhole, PictureWhole
<1>3. \A i \in DOMAIN asked[d] : asked[d][i] # b
  <2>1. CASE \E c \in Contexts : CreateBuffer(b, c)
    BY <1>1, <1>2, <2>1, NoContext DEF CreateBuffer
  <2>2. CASE DestroyBuffer(b)
    BY <1>1, <2>2 DEF DestroyBuffer, Using
  <2> QED
    BY <2>1, <2>2
<1>4. \A i \in DOMAIN asked[d] : asked[d][i] \in Buffers
  BY <1>1, LenProperties, ElementOfSeq DEF IInv, PicturesOK
<1>5. /\ pending'[d] = pending[d] /\ asked'[d] = asked[d]
      /\ \A i \in DOMAIN asked[d] : list'[asked[d][i]] = list[asked[d][i]]
  BY <1>3, <1>4 DEF CreateBuffer, DestroyBuffer, IInv, ListsOK
<1> QED
  BY <1>1, <1>5, WholeStays

LEMMA PicturesKeepWhole ==
  ASSUME IInv, PicturesWhole, NEW c \in Contexts,
         BeginPicture(c) \/ TargetDestroyed(c) \/ EndPicture(c)
  PROVE  PicturesWhole'
<1> SUFFICES ASSUME NEW d \in (current \ givenUp)' PROVE PictureWhole(d)'
  BY DEF PicturesWhole
<1>1. CASE d = c
  <2>1. BeginPicture(c)
    BY <1>1 DEF TargetDestroyed, EndPicture
  <2>2. pending'[c] = <<>> /\ asked'[c] = <<>>
    BY <2>1 DEF BeginPicture, Emptied, IInv, PicturesOK
  <2> QED
    BY <1>1, <2>2 DEF PictureWhole
<1>2. CASE d # c
  <2>1. d \in current \ givenUp /\ UNCHANGED list
    BY <1>2 DEF BeginPicture, TargetDestroyed, EndPicture
  <2>2. pending'[d] = pending[d] /\ asked'[d] = asked[d]
    BY <1>2, <2>1 DEF BeginPicture, TargetDestroyed, EndPicture, IInv, ListsOK, PicturesOK
  <2> QED
    BY <2>1, <2>2, WholeStays
<1> QED
  BY <1>1, <1>2

(* What was rendered is appended to both, or the picture is given up.      *)
LEMMA RenderKeepsWhole ==
  ASSUME IInv, PicturesWhole, NEW c \in Contexts, NEW bs \in Renders,
         RenderPicture(c, bs)
  PROVE  PicturesWhole'
<1> SUFFICES ASSUME NEW d \in (current \ givenUp)' PROVE PictureWhole(d)'
  BY DEF PicturesWhole
<1>1. d \in current \ givenUp /\ d \in Contexts /\ list' = list
  BY RenderEffect DEF IInv, ListsOK, PicturesOK
<1>2. CASE d # c
  <2>1. pending'[d] = pending[d] /\ asked'[d] = asked[d]
    BY <1>1, <1>2, RenderEffect DEF IInv, PicturesOK
  <2> QED
    BY <1>1, <2>1, WholeStays
<1>3. CASE d = c
  <2>1. /\ pending' = [pending EXCEPT ![c] = @ \o bs]
        /\ asked' = [asked EXCEPT ![c] = @ \o bs]
        /\ \A j \in DOMAIN bs : list[bs[j]] = c
    BY <1>3, RenderEffect
  <2>2. /\ pending'[c] = pending[c] \o bs /\ asked'[c] = asked[c] \o bs
        /\ pending[c] = asked[c] /\ asked[c] \in Seq(Buffers) /\ bs \in Seq(Buffers)
        /\ \A j \in DOMAIN asked[c] : list[asked[c][j]] = c
    BY <1>1, <1>3, <2>1, RendersAreSeqs DEF IInv, PicturesOK, PicturesWhole, PictureWhole
  <2>3. \A i \in DOMAIN asked'[c] : list[asked'[c][i]] = c
    BY <2>1, <2>2, ElementOfConcat
  <2> QED
    BY <1>1, <1>3, <2>2, <2>3 DEF PictureWhole
<1> QED
  BY <1>2, <1>3

LEMMA WholeStep ==
  ASSUME ~EarlyDestroy, IInv, PicturesWhole, [Next]_vars
  PROVE  PicturesWhole'
<1>1. CASE UNCHANGED vars
  BY <1>1 DEF PicturesWhole, PictureWhole, vars
<1>2. CASE Terminate
  BY <1>2 DEF Terminate, PicturesWhole
<1>3. CASE \E c \in Contexts : CreateContext(c) \/ DestroyContext(c)
  BY <1>3, ContextsKeepWhole
<1>4. CASE \E c \in Contexts : BeginPicture(c) \/ TargetDestroyed(c) \/ EndPicture(c)
  BY <1>4, PicturesKeepWhole
<1>5. CASE \E c \in Contexts : \E bs \in Renders : RenderPicture(c, bs)
  BY <1>5, RenderKeepsWhole
<1>6. CASE \E b \in Buffers : (\E c \in Contexts : CreateBuffer(b, c)) \/ DestroyBuffer(b)
  BY <1>6, BuffersKeepWhole
<1> QED
  BY <1>1, <1>2, <1>3, <1>4, <1>5, <1>6 DEF Next

(* Only vaEndPicture gives a translator a picture, and it is whole.        *)
LEMMA TranslatedWhole ==
  ASSUME PicturesWhole, TranslatesWhatWasRendered, [Next]_vars
  PROVE  TranslatesWhatWasRendered'
<1>1. CASE UNCHANGED decoded
  BY <1>1 DEF TranslatesWhatWasRendered
<1>2. ASSUME NEW c \in Contexts, EndPicture(c)
      PROVE  TranslatesWhatWasRendered'
  <2>1. PictureWhole(c)
    BY <1>2 DEF EndPicture, PicturesWhole
  <2> QED
    BY <1>2, <2>1 DEF EndPicture, PictureWhole, TranslatesWhatWasRendered
<1> QED
  BY <1>1, <1>2 DEF Next, vars, CreateContext, DestroyContext, BeginPicture, TargetDestroyed,
     RenderPicture, CreateBuffer, DestroyBuffer, Terminate

-----------------------------------------------------------------------------
(* The theorems.                                                           *)

(* Every buffer is on the list of a live context, or on none.              *)
THEOREM ListsConsistent == Spec => []IInv
<1>1. Init => IInv
  BY TypesInit
<1>2. IInv /\ [Next]_vars => IInv'
  BY TypesStep
<1> QED
  BY <1>1, <1>2, PTL DEF Spec

(* If clients keep the buffers of a picture until they end it, every       *)
(* translator is given exactly what the client rendered since its          *)
(* vaBeginPicture, and only existing buffers, whatever pictures were       *)
(* abandoned before (pending_buffers, v4l2sl_render_picture).              *)
THEOREM PicturesTranslated ==
  ASSUME ~EarlyDestroy
  PROVE  Spec => []TranslatesWhatWasRendered
<1>1. Init => PicturesWhole /\ TranslatesWhatWasRendered
  BY DEF Init, PicturesWhole, TranslatesWhatWasRendered, NoPicture
<1>2. IInv /\ PicturesWhole /\ TranslatesWhatWasRendered /\ [Next]_vars
        => (PicturesWhole /\ TranslatesWhatWasRendered)'
  BY WholeStep, TranslatedWhole
<1> QED
  BY <1>1, <1>2, ListsConsistent, PTL DEF Spec

(* If clients destroy a context's buffers before the context, vaTerminate  *)
(* frees every buffer: those of the contexts and the orphans.              *)
THEOREM BuffersReclaimed ==
  ASSUME ~LateDestroy
  PROVE  Spec => []AllReclaimed
<1> DEFINE NoneLost == \A b \in Buffers : list[b] \in live \cup {Orphan, Unborn, Freed}
           RInv == NoneLost /\ AllReclaimed
<1>1. Init => RInv
  BY DEF Init, AllReclaimed
<1>2. IInv /\ RInv /\ [Next]_vars => RInv'
  <2> SUFFICES ASSUME IInv, RInv, [Next]_vars PROVE RInv'
    OBVIOUS
  <2>1. CASE UNCHANGED vars
    BY <2>1 DEF AllReclaimed, vars
  <2>2. CASE Terminate
    BY <2>2 DEF Terminate, Reclaimed, AllReclaimed
  <2>3. CASE ~UNCHANGED vars /\ ~Terminate
    <3>1. up /\ up' = up
      BY <2>3 DEF Next, CreateContext, DestroyContext, BeginPicture, TargetDestroyed,
         EndPicture, RenderPicture, CreateBuffer, DestroyBuffer
    <3>2. NoneLost'
      <4>1. CASE \E c \in Contexts : DestroyContext(c)
        BY <4>1 DEF DestroyContext, Dropped
      <4>2. CASE \/ \E b \in Buffers, c \in Contexts : CreateBuffer(b, c)
                 \/ \E b \in Buffers : DestroyBuffer(b)
        BY <4>2 DEF CreateBuffer, DestroyBuffer, IInv, ListsOK
      <4>3. CASE \E c \in Contexts : CreateContext(c)
        BY <4>3 DEF CreateContext
      <4>4. CASE live' = live /\ list' = list
        BY <4>4
      <4> QED
        BY <2>3, <4>1, <4>2, <4>3, <4>4 DEF Next, BeginPicture, TargetDestroyed, EndPicture,
           RenderPicture
    <3> QED
      BY <3>1, <3>2 DEF AllReclaimed
  <2> QED
    BY <2>1, <2>2, <2>3
<1> QED
  BY <1>1, <1>2, ListsConsistent, PTL DEF Spec

=============================================================================
