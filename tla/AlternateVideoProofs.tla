------------------------ MODULE AlternateVideoProofs ------------------------
(***************************************************************************)
(* For every length of video, depth, delay and reach of prediction, and    *)
(* wherever the encoder fails: the pictures the decoder predicts from stay *)
(* its own, each picture shown is the first of its batch, and what comes   *)
(* out is one picture for each one that went in.                           *)
(*                                                                         *)
(* The first needs BufferInv only.  The others need to know what counter   *)
(* and held picture are between two pictures: VideoInv.                    *)
(***************************************************************************)
EXTENDS AlternateVideo, InductionProofs

\* What the pipeline may be given: buffers of which every damaged one lies at
\* or behind a failure.
Sound(buffers) ==
  \A k \in DOMAIN buffers :
    buffers[k] # k => \E f \in failed : f =< k

\* Failures are of pictures given out, and those are in the buffers: it is
\* why a failure found for one picture is one before every later picture.
BufferInv ==
  /\ pictures \in Seq(Nat)
  /\ held \in Nat
  /\ shown \in Nat
  /\ shown =< Len(pictures)
  /\ failed \subseteq 1..shown
  /\ Unharmed

-----------------------------------------------------------------------------

(* What the decoder predicts is sound when its buffers are: a damaged picture
   is predicted from one that was damaged before it (av_read_frame and
   avcodec_decode_video2, as VideoDecoder::run calls them). *)
LEMMA PredictedSound ==
  ASSUME BufferInv
  PROVE  /\ Append(pictures, Predicted) \in Seq(Nat)
         /\ Len(Append(pictures, Predicted)) = Len(pictures) + 1
         /\ Sound(Append(pictures, Predicted))
<1> DEFINE n == Len(pictures)
           buffers == Append(pictures, Predicted)
<1>1. n \in Nat /\ DOMAIN pictures = 1..n
  BY DEF BufferInv
<1>2. Predicted \in Nat
  BY <1>1 DEF Predicted, Damaged
<1>3. /\ buffers \in Seq(Nat) /\ Len(buffers) = n + 1
      /\ DOMAIN buffers = 1..(n + 1)
      /\ \A k \in 1..n : buffers[k] = pictures[k]
      /\ buffers[n + 1] = Predicted
  BY <1>1, <1>2 DEF BufferInv
<1>4. ASSUME NEW k \in DOMAIN buffers, buffers[k] # k
      PROVE  \E f \in failed : f =< k
  <2>1. CASE k \in 1..n
    BY <2>1, <1>1, <1>3, <1>4 DEF BufferInv, Unharmed
  <2>2. CASE k = n + 1
    <3>1. Predicted # n + 1
      BY <2>2, <1>3, <1>4
    <3>2. PICK r \in 1..n : pictures[r] # r
      BY <3>1, <1>1 DEF Predicted
    <3>3. PICK f \in failed : f =< r
      BY <3>2, <1>1 DEF BufferInv, Unharmed
    <3>4. f =< k
      BY <3>3, <2>2, <1>1 DEF BufferInv
    <3> QED BY <3>4
  <2> QED BY <2>1, <2>2, <1>1, <1>3
<1> QED BY <1>3, <1>4 DEF Sound

(* newFrame() gives sound buffers back: restored they are what they were, and
   a picture left painted is one the encoder failed at. *)
LEMMA NewFrameSound ==
  ASSUME BufferInv,
         NEW buffers \in Seq(Nat),
         Sound(buffers),
         shown < Len(buffers),
         NewFrame(buffers)
  PROVE  BufferInv'
<1> DEFINE f == shown + 1
           image == Kept(buffers[f])
<1>1. /\ f \in Nat /\ f \in 1..Len(buffers)
      /\ DOMAIN buffers = 1..Len(buffers) /\ Len(buffers) \in Nat
  BY DEF BufferInv
<1>2. image \in Nat
  BY <1>1 DEF Kept, BufferInv
<1>3. /\ Painted(buffers, f, image) \in Seq(Nat)
      /\ Len(Painted(buffers, f, image)) = Len(buffers)
      /\ DOMAIN Painted(buffers, f, image) = 1..Len(buffers)
      /\ \A k \in 1..Len(buffers) :
           k # f => Painted(buffers, f, image)[k] = buffers[k]
  BY <1>1, <1>2 DEF Painted
<1>4. Restored(Painted(buffers, f, image), f, buffers[f]) = buffers
  <2> DEFINE back == Restored(Painted(buffers, f, image), f, buffers[f])
  <2>1. buffers = [k \in 1..Len(buffers) |-> buffers[k]]
    BY <1>1
  <2>2. back = [k \in 1..Len(buffers) |-> back[k]]
    BY <1>1 DEF Painted, Restored
  <2>3. \A k \in 1..Len(buffers) : back[k] = buffers[k]
    BY <1>1 DEF Painted, Restored
  <2> QED BY <2>1, <2>2, <2>3, Zenon
<1>5. shown' = f /\ held' = image
  BY DEF NewFrame
<1>6. CASE /\ pictures' = Restored(Painted(buffers, f, image), f, buffers[f])
           /\ UNCHANGED failed
  <2>1. pictures' = buffers /\ failed' = failed
    BY <1>4, <1>6
  <2>2. failed' \subseteq 1..shown'
    BY <2>1, <1>5, <1>1 DEF BufferInv
  <2>3. Unharmed'
    BY <2>1 DEF Sound, Unharmed
  <2> QED BY <2>1, <2>2, <2>3, <1>1, <1>2, <1>5 DEF BufferInv
<1>7. CASE /\ failed' = failed \cup {f}
           /\ pictures' = Painted(buffers, f, image)
  <2>1. failed' \subseteq 1..shown'
    BY <1>5, <1>7, <1>1 DEF BufferInv
  <2>2. ASSUME NEW k \in DOMAIN pictures', pictures'[k] # k
        PROVE  \E g \in failed' : g =< k
    <3>1. k \in 1..Len(buffers)
      BY <2>2, <1>3, <1>7
    <3>2. CASE k = f
      <4>1. f \in failed' /\ f =< k
        BY <3>2, <1>1, <1>7
      <4> QED BY <4>1
    <3>3. CASE k # f
      <4>1. buffers[k] # k
        BY <3>1, <3>3, <2>2, <1>3, <1>7
      <4>2. \E g \in failed : g =< k
        BY <4>1, <3>1, <1>1 DEF Sound
      <4> QED BY <4>2, <1>7
    <3> QED BY <3>2, <3>3
  <2>3. Unharmed'
    BY <2>2 DEF Unharmed
  <2> QED BY <2>1, <2>3, <1>1, <1>2, <1>3, <1>5, <1>7 DEF BufferInv
<1> QED BY <1>6, <1>7 DEF NewFrame

-----------------------------------------------------------------------------

(* The decoder's buffers, the pictures given out and the failures of the
   encoder stay in step over the whole task. *)
THEOREM BuffersCorrect == Spec => []BufferInv
<1>1. Init => BufferInv
  BY DEF Init, BufferInv, Unharmed, Damaged
<1>2. ASSUME BufferInv, [Next]_vars
      PROVE  BufferInv'
  <2>1. CASE DecodePacket
    <3> DEFINE buffers == Append(pictures, Predicted)
    <3>1. /\ buffers \in Seq(Nat) /\ Len(buffers) = Len(pictures) + 1
          /\ Sound(buffers)
      BY <1>2, PredictedSound
    <3> HIDE DEF buffers
    <3>2. shown < Len(buffers)
      BY <1>2, <3>1 DEF BufferInv
    <3>3. CASE NewFrame(buffers)
      BY <1>2, <3>1, <3>2, <3>3, NewFrameSound
    <3>4. CASE pictures' = buffers /\ UNCHANGED <<shown, pipeline, encoder>>
      <4>1. UNCHANGED <<shown, held, failed>>
        BY <3>4 DEF pipeline, encoder
      <4>2. shown =< Len(buffers)
        BY <1>2, <3>1 DEF BufferInv
      <4> QED BY <1>2, <3>1, <3>4, <4>1, <4>2
              DEF BufferInv, Unharmed, Sound
    <3> QED BY <2>1, <3>3, <3>4 DEF DecodePacket, buffers
  <2>2. CASE DrainDecoder
    <3>1. Sound(pictures)
      BY <1>2 DEF BufferInv, Unharmed, Sound
    <3>2. pictures \in Seq(Nat) /\ shown < Len(pictures)
      BY <1>2, <2>2 DEF BufferInv, DrainDecoder
    <3>3. NewFrame(pictures)
      BY <2>2 DEF DrainDecoder
    <3> QED BY <1>2, <3>1, <3>2, <3>3, NewFrameSound
  <2>3. CASE UNCHANGED <<pictures, held, shown, failed>>
    BY <1>2, <2>3 DEF BufferInv, Unharmed
  <2>4. CASE ReadPackets \/ DecodeError \/ EndOfSource \/ VideoComplete
               \/ DrainError
    BY <2>3, <2>4 DEF ReadPackets, DecodeError, EndOfSource, VideoComplete,
       DrainError, decoder, pipeline, encoder
  <2>5. CASE DrainEncoder \/ Drained \/ EncoderError \/ Write \/ Delete
    BY <2>3, <2>5 DEF DrainEncoder, Drained, EncoderError, Write, Delete,
       decoder, pipeline, encoder
  <2>6. CASE UNCHANGED vars
    BY <2>3, <2>6 DEF vars, decoder, pipeline, encoder
  <2> QED BY <1>2, <2>1, <2>2, <2>4, <2>5, <2>6 DEF Next
<1> QED BY <1>1, <1>2, PTL DEF Spec

(* Whatever the encoder was shown, a picture the decoder predicts from is its
   own unless an encoding failed at it or before it. *)
THEOREM BuffersRestored == Spec => []Unharmed
<1>1. BufferInv => Unharmed
  BY DEF BufferInv
<1> QED BY <1>1, BuffersCorrect, PTL


-----------------------------------------------------------------------------
(* Where the images are *)

MuxType == {TablePacket} \cup {VideoPacket(x) : x \in ImageType}
VideoPackets == {VideoPacket(x) : x \in ImageType}
ImagesOf(s) == [i \in DOMAIN s |-> s[i].image]
FramesOf(s) == [i \in DOMAIN s |-> s[i].frame]

(* The packets kept by write() are those with an image in them. *)
LEMMA TakenIs ==
  ASSUME NEW m \in Seq(MuxType)
  PROVE  /\ Taken(m) = ImagesOf(Only(m, VideoPackets))
         /\ Only(m, VideoPackets) \in Seq(VideoPackets)
<1> DEFINE S == {p \in ToSet(m) : p.pid = 256}
           v == Only(m, VideoPackets)
<1>1. \A p \in MuxType : p.pid = 256 <=> p \in VideoPackets
  BY DEF MuxType, VideoPackets, TablePacket, VideoPacket
<1>2. ToSet(m) \subseteq MuxType
  BY DEF ToSet
<1>3. ToSet(m) \cap S = ToSet(m) \cap VideoPackets
  BY <1>1, <1>2
<1> HIDE DEF S
<1>4. Only(m, S) = v
  BY <1>3, OnlySame, Zenon
<1>5. v \in Seq(MuxType) /\ ToSet(v) = ToSet(m) \cap VideoPackets
  BY OnlyInSeq, OnlyElements
<1>6. v \in Seq(VideoPackets)
  <2> HIDE DEF v
  <2>1. \A i \in 1..Len(v) : v[i] \in VideoPackets
    BY <1>5 DEF ToSet
  <2> QED BY <1>5, <2>1
<1> QED BY <1>4, <1>6 DEF Taken, ImagesOf, S

LEMMA ImagesOfIs ==
  ASSUME NEW s \in Seq(VideoPackets)
  PROVE  /\ ImagesOf(s) \in Seq(ImageType)
         /\ Len(ImagesOf(s)) = Len(s)
         /\ \A i \in 1..Len(s) : ImagesOf(s)[i] = s[i].image
<1>1. \A p \in VideoPackets : p.image \in ImageType
  BY DEF VideoPackets, VideoPacket
<1>2. DOMAIN s = 1..Len(s) /\ Len(s) \in Nat
      /\ \A i \in 1..Len(s) : s[i] \in VideoPackets
  OBVIOUS
<1>3. ImagesOf(s) = [i \in 1..Len(s) |-> s[i].image]
  BY <1>2 DEF ImagesOf
<1>4. \A i \in 1..Len(s) : s[i].image \in ImageType
  BY <1>1, <1>2
<1>5. [i \in 1..Len(s) |-> s[i].image] \in Seq(ImageType)
  BY <1>2, <1>4
<1> QED BY <1>2, <1>3, <1>5

LEMMA ImagesOfConcat ==
  ASSUME NEW s \in Seq(VideoPackets), NEW t \in Seq(VideoPackets)
  PROVE  ImagesOf(s \o t) = ImagesOf(s) \o ImagesOf(t)
<1> DEFINE u == s \o t
           a == ImagesOf(s)
           b == ImagesOf(t)
           c == ImagesOf(u)
           X == ImageType
<1>1. /\ u \in Seq(VideoPackets) /\ Len(u) = Len(s) + Len(t)
      /\ \A i \in 1..(Len(s) + Len(t)) :
           u[i] = IF i =< Len(s) THEN s[i] ELSE t[i - Len(s)]
  OBVIOUS
<1>2. Len(s) \in Nat /\ Len(t) \in Nat
  OBVIOUS
<1> HIDE DEF u
<1>3. /\ c \in Seq(X) /\ Len(c) = Len(u)
      /\ \A i \in 1..Len(u) : c[i] = u[i].image
  BY <1>1, ImagesOfIs
<1>4. /\ a \in Seq(X) /\ Len(a) = Len(s)
      /\ \A i \in 1..Len(s) : a[i] = s[i].image
      /\ b \in Seq(X) /\ Len(b) = Len(t)
      /\ \A i \in 1..Len(t) : b[i] = t[i].image
  BY ImagesOfIs
<1>5. /\ Len(c) = Len(s) + Len(t)
      /\ \A i \in 1..Len(s) : c[i] = a[i]
      /\ \A i \in 1..Len(t) : c[Len(s) + i] = b[i]
  <2>1. \A i \in 1..Len(s) : i \in 1..Len(u) /\ u[i] = s[i]
    BY <1>1, <1>2
  <2>2. ASSUME NEW i \in 1..Len(t)
        PROVE  Len(s) + i \in 1..Len(u) /\ u[Len(s) + i] = t[i]
    <3>1. /\ Len(s) + i \in 1..(Len(s) + Len(t)) /\ ~ Len(s) + i =< Len(s)
          /\ (Len(s) + i) - Len(s) = i
      BY <1>2
    <3>2. ~ Len(s) + i =< Len(s) => u[Len(s) + i] = t[(Len(s) + i) - Len(s)]
      BY <1>1, <3>1, Zenon
    <3>3. Len(u) = Len(s) + Len(t)
      BY <1>1
    <3> QED BY <3>1, <3>2, <3>3
  <2> HIDE DEF a, b, c
  <2>3. Len(c) = Len(s) + Len(t)
    BY <1>1, <1>3
  <2>4. ASSUME NEW i \in 1..Len(s) PROVE c[i] = a[i]
    <3>1. c[i] = u[i].image /\ u[i] = s[i]
      BY <1>3, <2>1
    <3>2. a[i] = s[i].image
      BY <1>4
    <3> QED BY <3>1, <3>2
  <2>5. ASSUME NEW i \in 1..Len(t) PROVE c[Len(s) + i] = b[i]
    <3>1. c[Len(s) + i] = u[Len(s) + i].image /\ u[Len(s) + i] = t[i]
      BY <1>3, <2>2
    <3>2. b[i] = t[i].image
      BY <1>4
    <3> QED BY <3>1, <3>2
  <2> QED BY <2>3, <2>4, <2>5
<1> HIDE DEF a, b, c, X
<1>6. a \o b = c
  <2>1. /\ a \in Seq(X) /\ b \in Seq(X) /\ c \in Seq(X)
        /\ Len(c) = Len(a) + Len(b)
        /\ \A i \in 1..Len(a) : c[i] = a[i]
        /\ \A i \in 1..Len(b) : c[Len(a) + i] = b[i]
    BY <1>3, <1>4, <1>5
  <2> QED BY <2>1, ConcatIs, Zenon
<1> QED BY <1>6 DEF a, b, c, u

(* write() in two goes takes what it takes in one. *)
LEMMA TakenOfConcat ==
  ASSUME NEW m \in Seq(MuxType), NEW n \in Seq(MuxType)
  PROVE  /\ Taken(m \o n) = Taken(m) \o Taken(n)
         /\ Taken(m) \in Seq(ImageType)
<1> DEFINE s == Only(m, VideoPackets)
           t == Only(n, VideoPackets)
           u == m \o n
<1>1. s \in Seq(VideoPackets) /\ t \in Seq(VideoPackets)
  BY TakenIs
<1>2. u \in Seq(MuxType)
  BY ConcatInSeq, Zenon
<1>3. Taken(u) = ImagesOf(Only(u, VideoPackets))
  <2> HIDE DEF u
  <2> QED BY <1>2, TakenIs
<1>4. Only(u, VideoPackets) = s \o t
  BY OnlyOfConcat
<1>5. Taken(m) = ImagesOf(s) /\ Taken(n) = ImagesOf(t)
  BY TakenIs
<1> HIDE DEF u, s, t
<1>6. ImagesOf(s \o t) = ImagesOf(s) \o ImagesOf(t)
  BY <1>1, ImagesOfConcat
<1>7. ImagesOf(s) \in Seq(ImageType)
  BY <1>1, ImagesOfIs
<1>8. Taken(u) = Taken(m) \o Taken(n)
  BY <1>3, <1>4, <1>5, <1>6
<1> QED BY <1>5, <1>7, <1>8 DEF u

(* One packet more in the muxer. *)
LEMMA TakenOfAppend ==
  ASSUME NEW m \in Seq(MuxType), NEW x \in ImageType
  PROVE  /\ Taken(Append(m, TablePacket)) = Taken(m)
         /\ Taken(Append(m, VideoPacket(x))) = Append(Taken(m), x)
         /\ Append(m, TablePacket) \in Seq(MuxType)
         /\ Append(m, VideoPacket(x)) \in Seq(MuxType)
<1> DEFINE s == Only(m, VideoPackets)
           p == VideoPacket(x)
<1>1. p \in VideoPackets /\ p \in MuxType /\ p.image = x
  BY DEF VideoPackets, MuxType, VideoPacket
<1>2. TablePacket \notin VideoPackets /\ TablePacket \in MuxType
  BY DEF VideoPackets, VideoPacket, TablePacket, MuxType
<1> HIDE DEF p
<1>3. /\ Append(m, TablePacket) \in Seq(MuxType)
      /\ Append(m, p) \in Seq(MuxType)
  BY <1>1, <1>2
<1>4. s \in Seq(VideoPackets) /\ Taken(m) = ImagesOf(s)
  BY TakenIs
<1>5. Only(Append(m, TablePacket), VideoPackets) = s
  BY <1>2, OnlyOfAppend
<1>6. Only(Append(m, p), VideoPackets) = Append(s, p)
  BY <1>1, OnlyOfAppend
<1> HIDE DEF s
<1>7. Taken(Append(m, TablePacket)) = ImagesOf(s)
  BY <1>3, <1>5, TakenIs
<1>8. Taken(Append(m, p)) = ImagesOf(Append(s, p))
  BY <1>3, <1>6, TakenIs
<1>9. ImagesOf(Append(s, p)) = Append(ImagesOf(s), x)
  <2> DEFINE t == Append(s, p)
             a == ImagesOf(s)
             b == ImagesOf(t)
             c == Append(a, x)
             X == ImageType
  <2>1. /\ t \in Seq(VideoPackets) /\ Len(t) = Len(s) + 1 /\ Len(s) \in Nat
        /\ t[Len(s) + 1] = p /\ \A i \in 1..Len(s) : t[i] = s[i]
    BY <1>1, <1>4
  <2> HIDE DEF t
  <2>2. /\ b \in Seq(X) /\ Len(b) = Len(t)
        /\ \A i \in 1..Len(t) : b[i] = t[i].image
    BY <2>1, ImagesOfIs
  <2>3. /\ a \in Seq(X) /\ Len(a) = Len(s)
        /\ \A i \in 1..Len(s) : a[i] = s[i].image
    BY <1>4, ImagesOfIs
  <2>4. x \in X
    OBVIOUS
  <2> HIDE DEF a, b, X
  <2>5. /\ c \in Seq(X) /\ Len(c) = Len(s) + 1 /\ c[Len(s) + 1] = x
        /\ \A i \in 1..Len(s) : c[i] = a[i]
    BY <2>1, <2>3, <2>4
  <2> HIDE DEF c
  <2>6. \A i \in 1..(Len(s) + 1) : b[i] = c[i]
    <3> TAKE i \in 1..(Len(s) + 1)
    <3>1. CASE i \in 1..Len(s)
      BY <2>1, <2>2, <2>3, <2>5, <3>1
    <3>2. CASE i = Len(s) + 1
      BY <1>1, <2>1, <2>2, <2>5, <3>2
    <3> QED BY <2>1, <3>1, <3>2
  <2>7. b = c
    BY <2>1, <2>2, <2>5, <2>6
  <2> QED BY <2>7 DEF a, b, c, t
<1> QED BY <1>3, <1>4, <1>7, <1>8, <1>9 DEF p

LEMMA TakenOfNothing == Taken(<<>>) = <<>>
<1> DEFINE e == <<>>
<1>1. e \in Seq(MuxType) /\ e \in Seq(VideoPackets) /\ Len(e) = 0
  OBVIOUS
<1>2. Only(e, VideoPackets) = e
  BY OnlyOfEmpty
<1> HIDE DEF e
<1>3. Taken(e) = ImagesOf(e)
  BY <1>1, <1>2, TakenIs
<1> DEFINE r == ImagesOf(e)
<1>4. r \in Seq(ImageType) /\ Len(r) = 0
  BY <1>1, ImagesOfIs
<1> HIDE DEF r
<1>5. r = <<>>
  BY <1>4
<1> QED BY <1>3, <1>5 DEF e, r

-----------------------------------------------------------------------------
(* The batches *)

Frames(s) == [i \in DOMAIN s |-> s[i].frame]

\* The first picture of the batch of a picture.
BatchStart(f) == ((f - 1) \div Period) * Period + 1

\* The counter is how far the pictures given out are into a batch.
CounterKnown ==
  /\ depth \in 0..(CounterMod - 1)
  /\ \E q \in Nat : shown = q * Period + counter

\* The held picture is the first of the batch of the last picture given out.
HeldKnown ==
  shown > 0 /\ (\A f \in failed : f >= BatchStart(shown))
    => held = BatchStart(shown)

\* What follows the decoder starts when it has given out all of the video, and
\* what follows the encoder when that holds nothing, unless one of them failed.
ShownAll ==
  /\ pc = "drain" /\ ~decoderFailed => Len(pictures) = source
  /\ pc \in {"finish", "trailer", "done"} /\ ~decoderFailed => shown = source
  /\ pc \in {"trailer", "done"} /\ ~drainFailed => coding = <<>>

VideoInv ==
  /\ TypeOK /\ BufferInv /\ Batched /\ OneForOne
  /\ CounterKnown /\ HeldKnown /\ ShownAll

LEMMA PeriodIs ==
  ASSUME depth \in 0..(CounterMod - 1)
  PROVE  /\ Period \in Nat \ {0}
         /\ \A c \in 0..(Period - 1) :
              Counted(c) = IF c + 1 = Period THEN 0 ELSE c + 1
<1>1. CounterMod \in Nat \ {0}
  BY AlternateVideoAssumption
<1>2. Period \in 1..CounterMod
  BY <1>1 DEF Period
<1>3. ASSUME NEW c \in 0..(Period - 1)
      PROVE  Counted(c) = IF c + 1 = Period THEN 0 ELSE c + 1
  <2>1. c + 1 \in 1..CounterMod
    BY <1>1, <1>2
  <2>2. CASE c + 1 = CounterMod
    <3>1. (c + 1) % CounterMod = 0
      BY <1>1, <2>2
    <3>2. c + 1 = Period
      BY <1>1, <1>2, <2>2
    <3> QED BY <3>1, <3>2 DEF Counted
  <2>3. CASE c + 1 < CounterMod
    <3>1. (c + 1) % CounterMod = c + 1
      BY <1>1, <2>1, <2>3
    <3> QED BY <1>1, <1>2, <2>3, <3>1 DEF Counted, Period
  <2> QED BY <1>1, <2>1, <2>2, <2>3
<1> QED BY <1>1, <1>2, <1>3

LEMMA BatchStartIs ==
  ASSUME NEW q \in Nat, Period \in Nat \ {0}, NEW c \in 0..(Period - 1)
  PROVE  BatchStart(q * Period + c + 1) = q * Period + 1
<1> DEFINE x == q * Period
<1>1. x \in Nat
  BY ProductIsNat
<1>2. (x + c) \div Period = q
  BY DivWhole
<1>3. (x + c + 1) - 1 = x + c
  BY <1>1
<1>4. BatchStart(x + c + 1) = (((x + c + 1) - 1) \div Period) * Period + 1
  BY DEF BatchStart
<1> HIDE DEF x
<1>5. BatchStart(x + c + 1) = q * Period + 1
  BY <1>2, <1>3, <1>4
<1> QED BY <1>5 DEF x

(* One call of newFrame(): the counter and the held picture go on to the next
   picture, in its batch or in a new one (ImagePipeline::process). *)
LEMMA NextInBatch ==
  ASSUME VideoInv,
         NEW buffers \in Seq(Pictures \cup {Damaged}),
         Sound(buffers),
         shown < Len(buffers),
         NewFrame(buffers)
  PROVE  /\ counter' \in 0..(Period - 1)
         /\ CounterKnown'
         /\ HeldKnown'
<1> DEFINE f == shown + 1
<1>1. /\ shown \in Nat /\ depth \in 0..(CounterMod - 1)
      /\ counter \in 0..(Period - 1) /\ failed \subseteq 1..shown
  BY DEF VideoInv, TypeOK, BufferInv, CounterKnown
<1>2. PICK q \in Nat : shown = q * Period + counter
  BY DEF VideoInv, CounterKnown
<1>3. /\ shown' = f /\ held' = Kept(buffers[f]) /\ counter' = Counted(counter)
      /\ depth' = depth /\ failed \subseteq failed'
  BY DEF NewFrame
<1>4. Period' = Period
  BY <1>3 DEF Period
<1>5. /\ Period \in Nat \ {0}
      /\ Counted(counter) = IF counter + 1 = Period THEN 0 ELSE counter + 1
  BY <1>1, PeriodIs
<1>6. q * Period \in Nat /\ (q + 1) * Period = q * Period + Period
  BY <1>5, ProductIsNat
<1>7. counter' \in 0..(Period - 1)
  BY <1>1, <1>3, <1>5
<1>8. \E r \in Nat : shown' = r * Period + counter'
  <2> DEFINE x == q * Period
             y == (q + 1) * Period
  <2>1. /\ x \in Nat /\ y = x + Period /\ shown = x + counter
        /\ q + 1 \in Nat /\ counter \in Nat
    BY <1>1, <1>2, <1>5, <1>6
  <2> HIDE DEF x, y
  <2>2. CASE counter + 1 = Period
    <3>1. shown' = y + counter'
      BY <1>3, <1>5, <2>1, <2>2
    <3> QED BY <2>1, <3>1 DEF y
  <2>3. CASE counter + 1 # Period
    <3>1. shown' = x + counter'
      BY <1>3, <1>5, <2>1, <2>3
    <3> QED BY <3>1 DEF x
  <2> QED BY <2>2, <2>3
<1>9. CounterKnown'
  BY <1>1, <1>3, <1>4, <1>8 DEF CounterKnown
<1>10. BatchStart(f) = q * Period + 1
  <2>1. BatchStart(q * Period + counter + 1) = q * Period + 1
    BY <1>1, <1>5, BatchStartIs
  <2> QED BY <1>2, <2>1
<1>11. ASSUME \A g \in failed : g >= BatchStart(f)
       PROVE  held' = BatchStart(f)
  <2> DEFINE x == q * Period
  <2>1. x \in Nat /\ shown = x + counter /\ BatchStart(f) = x + 1
    BY <1>2, <1>6, <1>10
  <2>2. CASE counter = 0
    <3>1. held' = buffers[f] /\ f = x + 1
      <4> HIDE DEF x
      <4> QED BY <1>1, <1>3, <2>1, <2>2 DEF Kept
    <3>2. f \in DOMAIN buffers
      BY <1>1
    <3>3. ASSUME buffers[f] # f PROVE FALSE
      <4>1. PICK g \in failed : g =< f
        BY <3>2, <3>3 DEF Sound
      <4>2. g =< shown /\ g >= f /\ g \in Nat
        BY <1>1, <1>11, <2>1, <3>1, <4>1
      <4> QED BY <1>1, <4>2
    <3> QED BY <2>1, <3>1, <3>3
  <2>3. CASE counter # 0
    <3>1. BatchStart(shown) = x + 1
      <4>1. BatchStart(q * Period + (counter - 1) + 1) = q * Period + 1
        <5>1. counter - 1 \in 0..(Period - 1)
          BY <1>1, <1>5, <2>3
        <5> QED BY <1>5, <5>1, BatchStartIs
      <4>2. x + (counter - 1) + 1 = shown
        <5> HIDE DEF x
        <5> QED BY <1>1, <1>5, <2>1
      <4> QED BY <4>1, <4>2
    <3>2. held' = held /\ shown > 0
      <4> HIDE DEF x
      <4> QED BY <1>1, <1>3, <1>5, <2>1, <2>3 DEF Kept
    <3>3. held = BatchStart(shown)
      BY <1>11, <2>1, <3>1, <3>2 DEF VideoInv, HeldKnown
    <3> QED BY <2>1, <3>1, <3>2, <3>3
  <2> QED BY <2>2, <2>3
<1>12. HeldKnown'
  <2>1. BatchStart(shown)' = BatchStart(f)
    BY <1>3, <1>4 DEF BatchStart
  <2> QED BY <1>3, <1>11, <2>1 DEF HeldKnown
<1> QED BY <1>7, <1>9, <1>12

-----------------------------------------------------------------------------
(* From the muxer to the TS *)

LEMMA FramesIs ==
  ASSUME NEW s \in Seq(ImageType)
  PROVE  /\ Frames(s) \in Seq(Pictures) /\ Len(Frames(s)) = Len(s)
         /\ \A i \in 1..Len(s) : Frames(s)[i] = s[i].frame
<1>1. DOMAIN s = 1..Len(s) /\ Len(s) \in Nat
      /\ \A i \in 1..Len(s) : s[i].frame \in Pictures
  <2>1. \A x \in ImageType : x.frame \in Pictures
    BY DEF ImageType
  <2>2. \A i \in 1..Len(s) : s[i] \in ImageType
    OBVIOUS
  <2> QED BY <2>1, <2>2
<1>2. Frames(s) = [i \in 1..Len(s) |-> s[i].frame]
  BY <1>1 DEF Frames
<1>3. [i \in 1..Len(s) |-> s[i].frame] \in Seq(Pictures)
  BY <1>1
<1> QED BY <1>1, <1>2, <1>3

LEMMA FramesOfAppend ==
  ASSUME NEW s \in Seq(ImageType), NEW x \in ImageType
  PROVE  Frames(Append(s, x)) = Append(Frames(s), x.frame)
<1> DEFINE t == Append(s, x)
           a == Frames(s)
           b == Frames(t)
           c == Append(a, x.frame)
           X == Pictures
<1>1. /\ t \in Seq(ImageType) /\ Len(t) = Len(s) + 1 /\ Len(s) \in Nat
      /\ t[Len(s) + 1] = x /\ \A i \in 1..Len(s) : t[i] = s[i]
  OBVIOUS
<1> HIDE DEF t
<1>2. /\ b \in Seq(X) /\ Len(b) = Len(t)
      /\ \A i \in 1..Len(t) : b[i] = t[i].frame
  BY <1>1, FramesIs
<1>3. /\ a \in Seq(X) /\ Len(a) = Len(s)
      /\ \A i \in 1..Len(s) : a[i] = s[i].frame
  BY FramesIs
<1>4. x.frame \in X
  BY DEF ImageType
<1> HIDE DEF a, b, X
<1>5. /\ c \in Seq(X) /\ Len(c) = Len(s) + 1 /\ c[Len(s) + 1] = x.frame
      /\ \A i \in 1..Len(s) : c[i] = a[i]
  BY <1>1, <1>3, <1>4
<1> HIDE DEF c
<1>6. \A i \in 1..(Len(s) + 1) : b[i] = c[i]
  <2> TAKE i \in 1..(Len(s) + 1)
  <2>1. CASE i \in 1..Len(s)
    BY <1>1, <1>2, <1>3, <1>5, <2>1
  <2>2. CASE i = Len(s) + 1
    BY <1>1, <1>2, <1>5, <2>2
  <2> QED BY <1>1, <2>1, <2>2
<1>7. b = c
  BY <1>1, <1>2, <1>5, <1>6
<1> QED BY <1>7 DEF a, b, c, t

\* What was made of the pictures, with q for what the encoder holds back.
Made(q) == (alternate \o Taken(muxed)) \o q

LEMMA ImagesIsMade == Images = Made(coding)
BY DEF Images, Made

LEMMA MadeInSeq ==
  ASSUME alternate \in Seq(ImageType), muxed \in Seq(MuxType),
         NEW q \in Seq(ImageType)
  PROVE  Made(q) \in Seq(ImageType)
<1> DEFINE t == Taken(muxed)
           u == alternate \o t
<1>1. t \in Seq(ImageType)
  BY TakenOfConcat
<1> HIDE DEF t
<1>2. u \in Seq(ImageType)
  BY <1>1, ConcatInSeq, Zenon
<1> HIDE DEF u
<1>3. u \o q \in Seq(ImageType)
  BY <1>2, ConcatInSeq, Zenon
<1> QED BY <1>3 DEF Made, u, t

(* An image that goes from the encoder to the muxer is the next one. *)
LEMMA MuxKeepsImages ==
  ASSUME alternate \in Seq(ImageType), muxed \in Seq(MuxType),
         NEW q \in Seq(ImageType), q # <<>>, Mux(Head(q)),
         coding' = Tail(q), alternate' = alternate
  PROVE  Images' = Made(q) /\ muxed' \in Seq(MuxType)
<1> DEFINE h == Head(q)
           r == Tail(q)
           t == Taken(muxed)
           u == alternate \o t
           g == <<h>>
<1>1. h \in ImageType /\ r \in Seq(ImageType)
  OBVIOUS
<1>2. t \in Seq(ImageType)
  BY TakenOfConcat
<1>3. Taken(muxed') = Append(t, h) /\ muxed' \in Seq(MuxType)
  <2> HIDE DEF h
  <2>1. CASE muxed' = Append(muxed, VideoPacket(h))
    BY <1>1, <2>1, TakenOfAppend
  <2>2. CASE muxed' = muxed \o <<TablePacket, VideoPacket(h)>>
    <3> DEFINE m == Append(muxed, TablePacket)
    <3>1. m \in Seq(MuxType) /\ Taken(m) = t
      BY <1>1, TakenOfAppend
    <3>2. Append(m, VideoPacket(h)) = muxed \o <<TablePacket, VideoPacket(h)>>
      <4> DEFINE x == TablePacket
                 y == VideoPacket(h)
                 X == MuxType
      <4>1. x \in X /\ y \in X /\ muxed \in Seq(X)
        BY <1>1 DEF MuxType
      <4> HIDE DEF x, y, X
      <4>2. Append(Append(muxed, x), y) = muxed \o <<x, y>>
        BY <4>1
      <4> QED BY <4>2 DEF x, y
    <3> HIDE DEF m
    <3>3. /\ Taken(Append(m, VideoPacket(h))) = Append(t, h)
          /\ Append(m, VideoPacket(h)) \in Seq(MuxType)
      BY <1>1, <3>1, TakenOfAppend
    <3> QED BY <2>2, <3>2, <3>3
  <2> QED BY <2>1, <2>2 DEF Mux, h
<1>4. q = g \o r
  <2> HIDE DEF h, r
  <2> QED BY DEF h, r
<1> HIDE DEF t, h, r
<1>5. u \in Seq(ImageType) /\ g \in Seq(ImageType)
  BY <1>1, <1>2, ConcatInSeq
<1>6. alternate \o Append(t, h) = Append(u, h) /\ Append(u, h) = u \o g
  <2>1. alternate \o Append(t, h) = Append(u, h)
    BY <1>1, <1>2, ConcatAppend, SMTT(30)
  <2>2. Append(u, h) = u \o g
    <3> HIDE DEF u
    <3> QED BY <1>1, <1>5 DEF g
  <2> QED BY <2>1, <2>2
<1>7. Images' = (alternate \o Append(t, h)) \o r
  BY <1>3 DEF Images, r
<1> HIDE DEF u, g
<1>8. (u \o g) \o r = u \o (g \o r)
  <2>1. Associate(u, g, r)
    BY <1>1, <1>5, ConcatAssoc
  <2> QED BY <2>1 DEF Associate
<1>9. Images' = u \o q
  BY <1>4, <1>6, <1>7, <1>8
<1> QED BY <1>3, <1>9 DEF Made, u, t

(* newFrame() makes one image more, the next one, or one failure. *)
LEMMA NewFrameImages ==
  ASSUME VideoInv,
         NEW buffers \in Seq(Pictures \cup {Damaged}),
         shown < Len(buffers), Len(buffers) =< MaxPictures,
         NewFrame(buffers)
  PROVE  /\ shown' = shown + 1 /\ shown + 1 \in Pictures
         /\ held' \in Pictures \cup {Damaged}
         /\ pictures' \in Seq(Pictures \cup {Damaged})
         /\ Len(pictures') = Len(buffers)
         /\ coding' \in Seq(ImageType) /\ Len(coding') =< EncoderDelay
         /\ muxed' \in Seq(MuxType)
         /\ alternate' = alternate /\ depth' = depth
         /\ failed' \subseteq Pictures
         /\ \/ /\ failed' = failed
               /\ Images' = Append(Images, Image(shown + 1, held'))
            \/ /\ failed' = failed \cup {shown + 1}
               /\ Images' = Images
<1> DEFINE f == shown + 1
           image == Kept(buffers[f])
           x == Image(f, image)
           q == Append(coding, x)
           X == Pictures \cup {Damaged}
<1>1. /\ shown \in Nat /\ coding \in Seq(ImageType)
      /\ Len(coding) =< EncoderDelay /\ muxed \in Seq(MuxType)
      /\ alternate \in Seq(ImageType) /\ failed \subseteq Pictures
      /\ held \in X /\ MaxPictures \in Nat /\ EncoderDelay \in Nat
  BY AlternateVideoAssumption DEF VideoInv, TypeOK, BufferInv, MuxType
<1>2. f \in Pictures /\ f \in 1..Len(buffers) /\ buffers[f] \in X
  BY <1>1 DEF Pictures
<1>3. image \in X
  BY <1>1, <1>2 DEF Kept
<1>4. x \in ImageType
  BY <1>2, <1>3 DEF ImageType, Image
<1>5. /\ shown' = f /\ held' = image /\ alternate' = alternate
      /\ depth' = depth
  BY DEF NewFrame
<1>6. /\ Painted(buffers, f, image) \in Seq(X)
      /\ Len(Painted(buffers, f, image)) = Len(buffers)
  <2> HIDE DEF image, X, f
  <2> QED BY <1>2, <1>3, ExceptIs DEF Painted, X
<1>7. /\ Restored(Painted(buffers, f, image), f, buffers[f]) \in Seq(X)
      /\ Len(Restored(Painted(buffers, f, image), f, buffers[f]))
           = Len(buffers)
  <2> DEFINE p == Painted(buffers, f, image)
  <2> HIDE DEF p, X
  <2> QED BY <1>2, <1>6 DEF p, Restored
<1> HIDE DEF x
<1>8. q \in Seq(ImageType) /\ q # <<>> /\ Len(q) = Len(coding) + 1
  BY <1>1, <1>4, AppendIs, Zenon
<1>9. Made(q) = Append(Images, x)
  <2> DEFINE u == alternate \o Taken(muxed)
  <2>1. u \in Seq(ImageType)
    <3> DEFINE t == Taken(muxed)
    <3>1. t \in Seq(ImageType)
      BY <1>1, TakenOfConcat
    <3> HIDE DEF t
    <3>2. alternate \o t \in Seq(ImageType)
      BY <1>1, <3>1, ConcatInSeq, Zenon
    <3> QED BY <3>2 DEF t
  <2>2. Made(q) = u \o Append(coding, x) /\ Images = u \o coding
    BY DEF Made, Images
  <2> HIDE DEF u, q
  <2>3. u \o Append(coding, x) = Append(u \o coding, x)
    <3>1. coding \in Seq(ImageType)
      BY <1>1
    <3> QED BY <1>4, <2>1, <3>1, ConcatAppend, SMTT(30)
  <2> QED BY <2>2, <2>3
<1>10. CASE EncodeImage(x) /\ UNCHANGED failed
  <2>1. /\ coding' \in Seq(ImageType) /\ Len(coding') =< EncoderDelay
        /\ muxed' \in Seq(MuxType) /\ Images' = Made(q)
    <3>1. CASE Len(q) =< EncoderDelay /\ coding' = q /\ UNCHANGED muxed
      <4>1. Images' = (alternate \o Taken(muxed)) \o q
        BY <1>5, <3>1 DEF Images
      <4> QED BY <1>1, <1>8, <3>1, <4>1 DEF Made
    <3>2. CASE coding' = Tail(q) /\ Mux(Head(q))
      <4> HIDE DEF q
      <4>1. Images' = Made(q) /\ muxed' \in Seq(MuxType)
        BY <1>1, <1>5, <1>8, <3>2, MuxKeepsImages
      <4>2. Tail(q) \in Seq(ImageType) /\ Len(Tail(q)) = Len(q) - 1
        BY <1>8
      <4>3. Len(Tail(q)) =< EncoderDelay
        BY <1>1, <1>8, <4>2
      <4> QED BY <3>2, <4>1, <4>2, <4>3
    <3> QED BY <1>10, <3>1, <3>2 DEF EncodeImage
  <2>2. pictures' = Restored(Painted(buffers, f, image), f, buffers[f])
        \/ pictures' = Painted(buffers, f, image)
    BY DEF NewFrame
  <2> QED BY <1>1, <1>2, <1>3, <1>5, <1>6, <1>7, <1>9, <1>10, <2>1, <2>2 DEF x
<1>11. CASE /\ failed' = failed \cup {f}
            /\ pictures' = Painted(buffers, f, image)
            /\ UNCHANGED <<coding, muxed>>
  <2>1. Images' = Images
    BY <1>5, <1>11 DEF Images
  <2> QED BY <1>1, <1>2, <1>3, <1>5, <1>6, <1>11, <2>1
<1> QED BY <1>10, <1>11 DEF NewFrame, x

-----------------------------------------------------------------------------
(* The invariant of the task *)

FramesInOrder == Frames(Images) = Only([f \in 1..shown |-> f], Pictures \ failed)

LEMMA OneForOneIs ==
  OneForOne <=> /\ FramesInOrder
                /\ pc = "done" => /\ muxed = <<>>
                                  /\ decoderFailed \/ shown = source
                                  /\ drainFailed \/ coding = <<>>
BY DEF OneForOne, FramesInOrder, Frames

LEMMA ImagesInSeq == VideoInv => Images \in Seq(ImageType)
<1> SUFFICES ASSUME VideoInv PROVE Images \in Seq(ImageType)  OBVIOUS
<1>1. /\ alternate \in Seq(ImageType) /\ muxed \in Seq(MuxType)
      /\ coding \in Seq(ImageType)
  BY DEF VideoInv, TypeOK, MuxType
<1> QED BY <1>1, ImagesIsMade, MadeInSeq

(* What stays true while no picture is given out and no image is lost. *)
LEMMA ImagesKept ==
  ASSUME VideoInv, Images' = Images,
         UNCHANGED <<shown, failed, depth, held, counter>>
  PROVE  Batched' /\ FramesInOrder' /\ CounterKnown' /\ HeldKnown'
<1>1. Period' = Period
  BY DEF Period
<1>2. Batched'
  <2> DEFINE s == Images
  <2>1. s' = s
    OBVIOUS
  <2> HIDE DEF s
  <2>2. /\ Batched <=> \A i \in DOMAIN s :
             LET start == ((s[i].frame - 1) \div Period) * Period + 1 IN
             (\A f \in failed : f >= start) => s[i].picture = start
        /\ Batched' <=> \A i \in DOMAIN s' :
             LET start == ((s'[i].frame - 1) \div Period') * Period' + 1 IN
             (\A f \in failed' : f >= start) => s'[i].picture = start
    BY DEF Batched, s
  <2> QED BY <1>1, <2>1, <2>2 DEF VideoInv
<1>3. FramesInOrder'
  BY OneForOneIs DEF VideoInv, FramesInOrder, Frames
<1>4. CounterKnown' /\ HeldKnown'
  BY <1>1 DEF VideoInv, CounterKnown, HeldKnown, BatchStart
<1> QED BY <1>2, <1>3, <1>4

(* One picture more is given out. *)
LEMMA NextPicture ==
  ASSUME NEW n \in Nat
  PROVE  /\ [f \in 1..(n + 1) |-> f] = Append([f \in 1..n |-> f], n + 1)
         /\ [f \in 1..n |-> f] \in Seq(1..n)
         /\ ToSet([f \in 1..n |-> f]) = 1..n
<1> DEFINE a == [f \in 1..n |-> f]
           b == [f \in 1..(n + 1) |-> f]
           c == Append(a, n + 1)
<1>1. /\ a \in Seq(Nat) /\ Len(a) = n /\ \A f \in 1..n : a[f] = f
      /\ a \in Seq(1..n) /\ DOMAIN a = 1..n
  OBVIOUS
<1>2. b \in Seq(Nat) /\ Len(b) = n + 1 /\ \A f \in 1..(n + 1) : b[f] = f
  OBVIOUS
<1> HIDE DEF a, b
<1>3. /\ c \in Seq(Nat) /\ Len(c) = n + 1 /\ c[n + 1] = n + 1
      /\ \A f \in 1..n : c[f] = a[f]
  BY <1>1
<1> HIDE DEF c
<1>4. \A f \in 1..(n + 1) : b[f] = c[f]
  BY <1>1, <1>2, <1>3
<1>5. b = c
  BY <1>2, <1>3, <1>4
<1>6. ToSet(a) = 1..n
  BY <1>1 DEF ToSet
<1> QED BY <1>1, <1>5, <1>6 DEF a, b, c

LEMMA NewFrameKeeps ==
  ASSUME VideoInv,
         NEW buffers \in Seq(Pictures \cup {Damaged}),
         Sound(buffers),
         shown < Len(buffers), Len(buffers) =< next,
         NewFrame(buffers),
         UNCHANGED <<source, next, decoderFailed, pc>>,
         \/ pc = "decode"
         \/ pc = "drain" /\ Len(buffers) = Len(pictures)
  PROVE  VideoInv'
<1> DEFINE n == shown + 1
           x == Image(n, held')
<1>1. /\ shown \in Nat /\ next \in 0..source /\ source \in Pictures
      /\ failed \subseteq 1..shown /\ BufferInv
      /\ depth \in 0..(CounterMod - 1) /\ MaxPictures \in Nat
  BY AlternateVideoAssumption
     DEF VideoInv, TypeOK, BufferInv, CounterKnown
<1>2. Len(buffers) =< MaxPictures /\ Len(buffers) \in Nat
  BY <1>1 DEF Pictures
<1>3. /\ shown' = n /\ n \in Pictures
      /\ held' \in Pictures \cup {Damaged}
      /\ pictures' \in Seq(Pictures \cup {Damaged})
      /\ Len(pictures') = Len(buffers)
      /\ coding' \in Seq(ImageType) /\ Len(coding') =< EncoderDelay
      /\ muxed' \in Seq(MuxType)
      /\ alternate' = alternate /\ depth' = depth
      /\ failed' \subseteq Pictures
      /\ \/ failed' = failed /\ Images' = Append(Images, x)
         \/ failed' = failed \cup {n} /\ Images' = Images
  BY <1>2, NewFrameImages
<1>3a. UNCHANGED drainFailed
  BY DEF NewFrame
<1>4. counter' \in 0..(Period - 1) /\ CounterKnown' /\ HeldKnown'
  BY NextInBatch
<1>5. Period' = Period
  BY <1>3 DEF Period
<1>6. TypeOK'
  <2> HIDE DEF n, x
  <2>1. TypeOK
    BY DEF VideoInv
  <2>2. /\ source' = source /\ next' = next /\ shown' = n
        /\ decoderFailed' = decoderFailed /\ drainFailed' = drainFailed
        /\ pc' = pc
    BY <1>3, <1>3a
  <2>3. shown' =< Len(pictures') /\ Len(pictures') =< next'
    BY <1>1, <1>2, <1>3, <2>2 DEF n
  <2>4. alternate' \in Seq(ImageType) /\ depth' \in Nat
    BY <1>3, <2>1 DEF TypeOK
  <2>5. /\ source' \in Pictures /\ next' \in 0..source'
        /\ decoderFailed' \in BOOLEAN /\ drainFailed' \in BOOLEAN
        /\ pc' \in {"decode", "drain", "finish", "trailer", "done"}
    BY <2>1, <2>2 DEF TypeOK
  <2>6. counter' \in 0..(Period' - 1)
    BY <1>4, <1>5
  <2> QED BY <1>3, <2>3, <2>4, <2>5, <2>6 DEF TypeOK, MuxType
<1>7. BufferInv'
  <2>1. buffers \in Seq(Nat)
    BY DEF Pictures, Damaged
  <2> QED BY <1>1, <2>1, NewFrameSound
<1>8. Images \in Seq(ImageType) /\ x \in ImageType
  BY <1>3, ImagesInSeq DEF Image, ImageType
<1> DEFINE s == Images
           t == Append(s, x)
<1>9. Batched'
  <2>1. Batched' <=> \A i \in DOMAIN s' :
             (\A f \in failed' : f >= BatchStart(s'[i].frame))
               => s'[i].picture = BatchStart(s'[i].frame)
    BY <1>5 DEF Batched, BatchStart
  <2>2. \A i \in DOMAIN s :
             (\A f \in failed : f >= BatchStart(s[i].frame))
               => s[i].picture = BatchStart(s[i].frame)
    BY DEF VideoInv, Batched, BatchStart
  <2>3. BatchStart(n) = BatchStart(shown)'
    BY <1>3, <1>5 DEF BatchStart
  <2>4. (\A f \in failed' : f >= BatchStart(n)) => held' = BatchStart(n)
    BY <1>1, <1>3, <1>4, <2>3 DEF HeldKnown
  <2>5. x.frame = n /\ x.picture = held'
    BY DEF Image
  <2> HIDE DEF x, s
  <2>6. CASE failed' = failed /\ s' = t
    <3>1. /\ DOMAIN s = 1..Len(s) /\ DOMAIN t = 1..(Len(s) + 1)
          /\ Len(s) \in Nat /\ t[Len(s) + 1] = x
          /\ \A i \in 1..Len(s) : t[i] = s[i]
      BY <1>8 DEF s
    <3> HIDE DEF t
    <3>2. \A i \in DOMAIN t :
            (\A f \in failed : f >= BatchStart(t[i].frame))
              => t[i].picture = BatchStart(t[i].frame)
      <4> TAKE i \in DOMAIN t
      <4>1. CASE i \in 1..Len(s)
        BY <2>2, <3>1, <4>1
      <4>2. CASE i = Len(s) + 1
        BY <2>4, <2>5, <2>6, <3>1, <4>2
      <4> QED BY <3>1, <4>1, <4>2
    <3> QED BY <2>1, <2>6, <3>2
  <2>7. CASE failed' = failed \cup {n} /\ s' = s
    BY <2>1, <2>2, <2>7
  <2> QED BY <1>3, <2>6, <2>7 DEF s
<1>10. FramesInOrder'
  <2> DEFINE all == [f \in 1..shown |-> f]
             good == Pictures \ failed
  <2>1. Frames(s) = Only(all, good)
    BY OneForOneIs DEF VideoInv, FramesInOrder
  <2>2. all \in Seq(1..shown) /\ ToSet(all) = 1..shown
    BY <1>1, NextPicture
  <2>3. [f \in 1..shown' |-> f] = Append(all, n)
    BY <1>1, <1>3, NextPicture
  <2>4. all \in Seq(Nat) /\ n \in Nat
    BY <1>1
  <2>5. FramesInOrder' <=> Frames(s') = Only(Append(all, n), Pictures \ failed')
    <3>1. FramesInOrder' <=>
            Frames(Images') = Only([f \in 1..shown' |-> f], Pictures \ failed')
      BY DEF FramesInOrder, Frames
    <3> HIDE DEF all
    <3> QED BY <2>3, <3>1
  <2>6. x.frame = n
    BY DEF Image
  <2> HIDE DEF all, x, s
  <2>7. CASE failed' = failed /\ s' = t
    <3>1. Frames(t) = Append(Frames(s), n)
      BY <1>8, <2>6, FramesOfAppend DEF s
    <3>2. n \in good
      BY <1>1, <1>3
    <3>3. Only(Append(all, n), good) = Append(Only(all, good), n)
      <4> HIDE DEF good, n
      <4>1. ASSUME NEW q \in Seq(Nat), NEW y \in Nat, NEW S, y \in S
            PROVE  Only(Append(q, y), S) = Append(Only(q, S), y)
        BY <4>1, OneMoreKept, Zenon
      <4> QED BY <2>4, <3>2, <4>1, Zenon
    <3> QED BY <2>1, <2>5, <2>7, <3>1, <3>3
  <2>8. CASE failed' = failed \cup {n} /\ s' = s
    <3> DEFINE left == Pictures \ failed'
    <3>1. n \notin left /\ ToSet(all) \cap left = ToSet(all) \cap good
      BY <1>1, <2>2, <2>8
    <3> HIDE DEF left, good
    <3>2. Only(Append(all, n), left) = Only(all, left)
      BY <2>4, <3>1, OnlyOfAppend
    <3>3. Only(all, left) = Only(all, good)
      BY <2>4, <3>1, OnlySame
    <3> QED BY <2>1, <2>5, <2>8, <3>2, <3>3 DEF left
  <2> QED BY <1>3, <2>7, <2>8 DEF s
<1>11. OneForOne'
  <2>1. pc' \notin {"done", "finish", "trailer"}
    OBVIOUS
  <2>2. OneForOne' <=>
          /\ FramesInOrder'
          /\ pc' = "done" => /\ muxed' = <<>>
                             /\ decoderFailed' \/ shown' = source'
                             /\ drainFailed' \/ coding' = <<>>
    BY DEF OneForOne, FramesInOrder, Frames
  <2> QED BY <1>10, <2>1, <2>2
<1>12. ShownAll'
  BY <1>3 DEF VideoInv, ShownAll
<1> QED BY <1>4, <1>6, <1>7, <1>9, <1>11, <1>12 DEF VideoInv

(* The depth is in the range of the counter: the option is, and the rounded
   rate is no more than what it is computed from. *)
LEMMA DepthInRange ==
  ASSUME NEW o \in FrameOptions, NEW r \in FrameRates
  PROVE  DepthFor(o, r) \in 0..(CounterMod - 1)
<1>1. /\ o \in Int /\ o < CounterMod /\ r.num \in Nat /\ r.den \in Nat
      /\ r.num + r.den < CounterMod /\ CounterMod \in Nat \ {0}
  BY AlternateVideoAssumption
<1>2. ApproxFPS(r) \in 0..(CounterMod - 1)
  <2>1. CASE r.den = 0
    BY <1>1, <2>1 DEF ApproxFPS
  <2>2. CASE r.den # 0
    <3> DEFINE x == r.num + r.den \div 2
               d == r.den
               y == x \div d
    <3>1. x \in Nat /\ x =< r.num + r.den /\ d \in Nat \ {0}
      BY <1>1, <2>2
    <3>2. ApproxFPS(r) = y
      BY <2>2 DEF ApproxFPS
    <3>3. y \in Nat /\ y =< x
      <4> HIDE DEF x, d
      <4>1. y \in Nat
        BY <3>1, QuotientIsNat
      <4>2. y * 1 =< y * d /\ y * d =< x
        BY <3>1
      <4> QED BY <4>1, <4>2, <3>1
    <3> HIDE DEF x, y
    <3> QED BY <1>1, <3>1, <3>2, <3>3
  <2> QED BY <2>1, <2>2
<1> QED BY <1>1, <1>2 DEF DepthFor

LEMMA VideoInvInit == Init => VideoInv
<1> SUFFICES ASSUME Init PROVE VideoInv  OBVIOUS
<1>1. /\ depth \in 0..(CounterMod - 1) /\ CounterMod \in Nat \ {0}
      /\ MaxPictures \in Nat \ {0} /\ EncoderDelay \in Nat
  BY DepthInRange, AlternateVideoAssumption DEF Init
<1>2. Period \in Nat \ {0}
  BY <1>1, PeriodIs
<1>3. TypeOK
  <2>1. decoderFailed \in BOOLEAN /\ drainFailed \in BOOLEAN
    BY Zenon DEF Init
  <2>2. /\ source \in Pictures /\ next = 0 /\ shown = 0 /\ pictures = <<>>
        /\ held = Damaged /\ counter = 0 /\ coding = <<>> /\ muxed = <<>>
        /\ alternate = <<>> /\ failed = {} /\ pc = "decode"
    BY Zenon DEF Init
  <2> QED BY <1>1, <1>2, <2>1, <2>2 DEF TypeOK, Pictures, Damaged
<1>4. BufferInv
  BY DEF Init, BufferInv, Unharmed, Damaged
<1>5. Images = <<>>
  <2>1. Taken(<<>>) = <<>>
    BY TakenOfNothing
  <2>2. Images = <<>> \o Taken(<<>>) \o <<>>
    BY DEF Images, Init
  <2> QED BY <2>1, <2>2
<1>6. Batched
  BY <1>5 DEF Batched
<1>7. OneForOne
  <2>1. [f \in 1..0 |-> f] = <<>>
    OBVIOUS
  <2>2. [i \in DOMAIN <<>> |-> <<>>[i].frame] = <<>>
    OBVIOUS
  <2>3. Only(<<>>, Pictures \ failed) = <<>>
    BY OnlyOfEmpty
  <2> QED BY <1>5, <2>1, <2>2, <2>3 DEF Init, OneForOne
<1>8. CounterKnown
  <2>1. shown = 0 * Period + counter /\ 0 \in Nat
    BY <1>2 DEF Init
  <2> QED BY <1>1, <2>1 DEF CounterKnown
<1>9. HeldKnown /\ ShownAll
  BY DEF Init, HeldKnown, ShownAll
<1> QED BY <1>3, <1>4, <1>6, <1>7, <1>8, <1>9 DEF VideoInv

(* The steps that give no picture out. *)
LEMMA NothingShown ==
  ASSUME VideoInv, TypeOK', BufferInv', Images' = Images,
         UNCHANGED <<shown, failed, depth, held, counter>>,
         ShownAll', pc' = "done" => muxed' = <<>>
  PROVE  VideoInv'
<1>1. Batched' /\ FramesInOrder' /\ CounterKnown' /\ HeldKnown'
  BY ImagesKept
<1>2. OneForOne'
  <2>1. OneForOne' <=>
          /\ FramesInOrder'
          /\ pc' = "done" => /\ muxed' = <<>>
                             /\ decoderFailed' \/ shown' = source'
                             /\ drainFailed' \/ coding' = <<>>
    BY DEF OneForOne, FramesInOrder, Frames
  <2> QED BY <1>1, <2>1 DEF ShownAll
<1> QED BY <1>1, <1>2 DEF VideoInv

LEMMA DecoderKeeps ==
  ASSUME VideoInv,
         DecodePacket \/ DrainDecoder \/ ReadPackets \/ DecodeError
           \/ EndOfSource \/ VideoComplete \/ DrainError
  PROVE  VideoInv'
<1> DEFINE X == Pictures \cup {Damaged}
<1>1. /\ TypeOK /\ BufferInv /\ ShownAll /\ decoderFailed \in BOOLEAN
      /\ pictures \in Seq(X) /\ shown \in Nat
      /\ next \in 0..source /\ source \in Pictures /\ Len(pictures) =< next
      /\ shown =< Len(pictures) /\ Len(pictures) \in Nat
      /\ MaxPictures \in Nat /\ BufferPackets \in Nat
  BY AlternateVideoAssumption DEF VideoInv, TypeOK, BufferInv
<1>2. ASSUME UNCHANGED <<shown, pipeline, encoder>>,
             pictures' \in Seq(X), Len(pictures') =< next', shown =< Len(pictures'),
             source' = source, next' \in 0..source,
             decoderFailed' \in BOOLEAN,
             pc' \in {"decode", "drain", "finish"}, ShownAll', Sound(pictures')
      PROVE  VideoInv'
  <2>1. UNCHANGED <<shown, failed, depth, held, counter, coding, muxed, alternate,
                    drainFailed>>
    BY <1>2 DEF pipeline, encoder
  <2>2. TypeOK'
    BY <1>1, <1>2, <2>1 DEF TypeOK, Period
  <2>3. BufferInv'
    <3>1. pictures' \in Seq(Nat)
      BY <1>2 DEF Pictures, Damaged
    <3>2. Unharmed'
      BY <1>2, <2>1 DEF Unharmed, Sound
    <3> QED BY <1>1, <1>2, <2>1, <3>1, <3>2 DEF BufferInv
  <2>4. Images' = Images
    BY <2>1 DEF Images
  <2> QED BY <1>2, <2>1, <2>2, <2>3, <2>4, NothingShown
<1>3. Sound(pictures)
  BY <1>1 DEF BufferInv, Unharmed, Sound
<1>4. CASE DecodePacket
  <2> DEFINE buffers == Append(pictures, Predicted)
  <2>1. Len(buffers) = Len(pictures) + 1 /\ Sound(buffers)
    BY <1>1, PredictedSound
  <2>2. buffers \in Seq(X)
    <3>1. Predicted \in X
      BY <1>1, <1>4 DEF Predicted, DecodePacket, Pictures
    <3> HIDE DEF X
    <3> QED BY <1>1, <3>1
  <2>3. /\ Len(pictures) < next /\ pc = "decode"
        /\ UNCHANGED <<source, next, decoderFailed, pc>>
    BY <1>4 DEF DecodePacket
  <2> HIDE DEF buffers
  <2>4. shown < Len(buffers) /\ Len(buffers) =< next
    BY <1>1, <2>1, <2>3
  <2>5. CASE NewFrame(buffers)
    BY <2>1, <2>2, <2>3, <2>4, <2>5, NewFrameKeeps
  <2>6. CASE pictures' = buffers /\ UNCHANGED <<shown, pipeline, encoder>>
    <3>1. ShownAll'
      BY <2>3 DEF ShownAll
    <3> HIDE DEF X
    <3> QED BY <1>1, <1>2, <2>1, <2>2, <2>3, <2>4, <2>6, <3>1
  <2> QED BY <1>4, <2>5, <2>6 DEF DecodePacket, buffers
<1>5. CASE DrainDecoder
  <2>1. /\ shown < Len(pictures) /\ NewFrame(pictures) /\ pc = "drain"
        /\ UNCHANGED <<source, next, decoderFailed, pc>>
    BY <1>5 DEF DrainDecoder
  <2> QED BY <1>1, <1>3, <2>1, NewFrameKeeps
<1>6. CASE ReadPackets
  <2>1. /\ UNCHANGED <<source, shown, pictures, decoderFailed, pipeline, encoder,
                       pc>>
        /\ pc = "decode" /\ next' \in 0..source /\ next =< next'
    BY <1>1, <1>6 DEF ReadPackets, Pictures
  <2>2. ShownAll'
    BY <2>1 DEF ShownAll
  <2>3. Len(pictures') =< next'
    BY <1>1, <2>1
  <2> QED BY <1>1, <1>2, <1>3, <2>1, <2>2, <2>3
<1>7. CASE DecodeError \/ EndOfSource \/ VideoComplete \/ DrainError
  <2>1. /\ UNCHANGED <<source, next, shown, pictures, pipeline, encoder>>
        /\ \/ pc' = "drain" /\ Len(pictures) = source /\ UNCHANGED decoderFailed
           \/ /\ pc = "drain" /\ pc' = "finish" /\ shown = Len(pictures)
              /\ UNCHANGED decoderFailed
           \/ pc' \in {"drain", "finish"} /\ decoderFailed' = TRUE
    BY <1>7 DEF DecodeError, EndOfSource, VideoComplete, DrainError, decoder
  <2>2. ShownAll'
    BY <1>1, <2>1 DEF ShownAll
  <2> QED BY <1>1, <1>2, <1>3, <2>1, <2>2
<1> QED BY <1>4, <1>5, <1>6, <1>7

LEMMA EncoderKeeps ==
  ASSUME VideoInv, DrainEncoder \/ Drained \/ EncoderError \/ Write \/ Delete
  PROVE  VideoInv'
<1>1. /\ TypeOK /\ BufferInv /\ ShownAll
      /\ alternate \in Seq(ImageType) /\ muxed \in Seq(MuxType)
      /\ coding \in Seq(ImageType) /\ Len(coding) =< EncoderDelay
      /\ Taken(muxed) \in Seq(ImageType)
      /\ EncoderDelay \in Nat
  BY AlternateVideoAssumption, TakenOfConcat DEF VideoInv, TypeOK, MuxType
<1>2. ASSUME UNCHANGED <<decoder, pipeline, failed>>, Images' = Images,
             coding' \in Seq(ImageType), Len(coding') =< EncoderDelay,
             muxed' \in Seq(MuxType), alternate' \in Seq(ImageType),
             \/ /\ pc' = pc /\ pc # "done" /\ UNCHANGED drainFailed
                /\ pc # "finish" => coding' = coding
             \/ /\ pc = "finish" /\ pc' = "trailer"
                /\ \/ UNCHANGED drainFailed /\ coding' = <<>>
                   \/ drainFailed' = TRUE
             \/ /\ pc = "trailer" /\ pc' = "done" /\ muxed' = <<>>
                /\ UNCHANGED <<coding, drainFailed>>
      PROVE  VideoInv'
  <2>1. UNCHANGED <<source, next, shown, pictures, decoderFailed, depth, held,
                    counter, failed>>
    BY <1>2 DEF decoder, pipeline
  <2>2. TypeOK'
    BY <1>1, <1>2, <2>1 DEF TypeOK, Period, MuxType
  <2>3. BufferInv'
    BY <1>1, <2>1 DEF BufferInv, Unharmed
  <2>4. ShownAll'
    BY <1>1, <1>2, <2>1 DEF ShownAll
  <2> QED BY <1>2, <2>1, <2>2, <2>3, <2>4, NothingShown
<1>3. CASE DrainEncoder
  <2>1. /\ coding # <<>> /\ coding' = Tail(coding) /\ Mux(Head(coding))
        /\ UNCHANGED <<decoder, pipeline, alternate, failed, drainFailed, pc>>
        /\ pc = "finish"
    BY <1>3 DEF DrainEncoder
  <2>2. Images' = Images /\ muxed' \in Seq(MuxType)
    BY <1>1, <2>1, MuxKeepsImages, ImagesIsMade
  <2>3. coding' \in Seq(ImageType) /\ Len(coding') =< EncoderDelay
    <3>1. Tail(coding) \in Seq(ImageType) /\ Len(Tail(coding)) = Len(coding) - 1
      BY <1>1, <2>1
    <3> QED BY <1>1, <2>1, <3>1
  <2> QED BY <1>1, <1>2, <2>1, <2>2, <2>3
<1>4. CASE Drained \/ EncoderError
  <2>1. /\ UNCHANGED <<decoder, pipeline, alternate, failed, coding, muxed>>
        /\ pc = "finish" /\ pc' = "trailer"
        /\ \/ UNCHANGED drainFailed /\ coding' = <<>>
           \/ drainFailed' = TRUE
    BY <1>4 DEF Drained, EncoderError, encoder
  <2>2. Images' = Images
    BY <2>1 DEF Images
  <2> QED BY <1>1, <1>2, <2>1, <2>2
<1>5. CASE Write
  <2>1. /\ UNCHANGED <<decoder, pipeline, coding, failed, drainFailed, pc>>
        /\ pc # "done"
    BY <1>5 DEF Write
  <2>2. PICK n \in 1..Len(muxed) :
          /\ alternate' = alternate \o Taken(SubSeq(muxed, 1, n))
          /\ muxed' = SubSeq(muxed, n + 1, Len(muxed))
    BY <1>5 DEF Write
  <2> DEFINE a == SubSeq(muxed, 1, n)
             b == SubSeq(muxed, n + 1, Len(muxed))
             t == Taken(a)
             u == Taken(b)
  <2>3. a \in Seq(MuxType) /\ b \in Seq(MuxType)
    BY <1>1
  <2>4. a \o b = muxed
    BY <1>1, SplitSeq
  <2> HIDE DEF a, b
  <2>5. Taken(muxed) = t \o u /\ t \in Seq(ImageType) /\ u \in Seq(ImageType)
    BY <2>3, <2>4, TakenOfConcat
  <2>6. alternate' = alternate \o t /\ muxed' = b
    BY <2>2 DEF a, b
  <2>7. Images' = ((alternate \o t) \o u) \o coding
    BY <2>1, <2>6 DEF Images
  <2> HIDE DEF t, u
  <2>8. (alternate \o t) \o u = alternate \o (t \o u)
    <3>1. Associate(alternate, t, u)
      BY <1>1, <2>5, ConcatAssoc
    <3> QED BY <3>1 DEF Associate
  <2>9. Images' = Images
    BY <2>5, <2>7, <2>8 DEF Images
  <2>10. alternate' \in Seq(ImageType)
    BY <1>1, <2>5, <2>6
  <2> QED BY <1>1, <1>2, <2>1, <2>3, <2>6, <2>9, <2>10
<1>6. CASE Delete
  <2>1. /\ UNCHANGED <<decoder, pipeline, coding, failed, drainFailed>>
        /\ alternate' = alternate \o Taken(muxed) /\ muxed' = <<>>
        /\ pc = "trailer" /\ pc' = "done"
    BY <1>6 DEF Delete
  <2> DEFINE t == Taken(muxed)
             u == alternate \o t
  <2>2. Taken(<<>>) = <<>>
    BY TakenOfNothing
  <2>3. Images' = (u \o <<>>) \o coding
    BY <2>1, <2>2 DEF Images
  <2>4. Images = u \o coding
    BY DEF Images
  <2>5. u \in Seq(ImageType)
    <3> HIDE DEF t
    <3> QED BY <1>1, ConcatInSeq DEF t
  <2>6. alternate' = u /\ muxed' \in Seq(MuxType)
    BY <2>1
  <2> HIDE DEF u
  <2>7. u \o <<>> = u
    BY <2>5
  <2> QED BY <1>1, <1>2, <2>1, <2>3, <2>4, <2>5, <2>6, <2>7
<1> QED BY <1>3, <1>4, <1>5, <1>6

(* The counter, the held picture and the images stay in step with the pictures
   given out over the whole task. *)
LEMMA VideoInvHolds == Spec => []VideoInv
<1>1. ASSUME VideoInv, [Next]_vars PROVE VideoInv'
  <2>1. CASE UNCHANGED vars
    <3>1. UNCHANGED <<source, next, shown, pictures, depth, held, counter,
                      coding, muxed, alternate, failed, decoderFailed,
                      drainFailed, pc>>
      BY <2>1 DEF vars, decoder, pipeline, encoder
    <3>2. TypeOK' /\ BufferInv' /\ ShownAll' /\ Images' = Images
          /\ (pc' = "done" => muxed' = <<>>)
      BY <1>1, <3>1 DEF VideoInv, TypeOK, Period, BufferInv, Unharmed,
         ShownAll, Images, OneForOne
    <3> QED BY <1>1, <3>1, <3>2, NothingShown
  <2>2. CASE Next
    BY <1>1, <2>2, DecoderKeeps, EncoderKeeps DEF Next
  <2> QED BY <1>1, <2>1, <2>2
<1> QED BY <1>1, VideoInvInit, PTL DEF Spec

(* The counter of the pipeline stays within the batch, every buffer and every
   image holds a picture or a damaged one, and the encoder holds back no more
   than it may. *)
THEOREM VideoTypes == Spec => []TypeOK
<1>1. VideoInv => TypeOK
  BY DEF VideoInv
<1> QED BY <1>1, VideoInvHolds, PTL

(* Every picture of the alternate video shows the first of its batch, over
   every delay of the codecs and every failure of the encoder behind it
   (ImagePipeline::process and restore). *)
THEOREM BatchesShown == Spec => []Batched
<1>1. VideoInv => Batched
  BY DEF VideoInv
<1> QED BY <1>1, VideoInvHolds, PTL

(* Every picture given out is one of the alternate video, in order, but those
   the encoder failed at; and at the end nothing is left in the muxer, all of
   the video was given out unless the decoder failed, and nothing is left in
   the encoder unless that failed (VideoDecoder::run, VideoEncoder::newFrame
   and its destructor). *)
THEOREM PicturesOneForOne == Spec => []OneForOne
<1>1. VideoInv => OneForOne
  BY DEF VideoInv
<1> QED BY <1>1, VideoInvHolds, PTL
=============================================================================
