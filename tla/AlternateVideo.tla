--------------------------- MODULE AlternateVideo ---------------------------
(***************************************************************************)
(* AlternateVideoTask: the video of a TS is decoded, every picture goes    *)
(* through the ImagePipeline, which shows the encoder one picture of each  *)
(* batch of m_depth again and again, and what the encoder makes is added   *)
(* to the TS under another PID.                                            *)
(*                                                                         *)
(* One thread; what is hard is that the pipeline paints over the picture   *)
(* it is given, which is the decoder's own buffer and which later pictures *)
(* are predicted from, so newFrame() has to put it back before it returns. *)
(*                                                                         *)
(* Pictures are numbered in the order the decoder gives them out, each in  *)
(* one packet; the content of a picture buffer is the number of the        *)
(* picture seen in it, or Damaged.  The codecs and the muxer are external: *)
(* both codecs may hold pictures back and may fail, and the muxer may hold *)
(* packets back and puts table packets between those of the video.         *)
(***************************************************************************)
EXTENDS Integers, Sequences, SequencesExt, SequenceLoops

CONSTANTS
  MaxPictures,         \* bound: pictures in the video
  BufferPackets,       \* BUFFER_SIZE / 188
  DecoderDelay,        \* pictures the decoder holds back, at most
  EncoderDelay,        \* pictures the encoder holds back, at most
  References,          \* how many pictures back prediction reaches
  FrameOptions,        \* values of m_opts.frames(), negative for none
  FrameRates,          \* values of avg_frame_rate, [num, den]
  CounterMod           \* 2^32, the range of m_counter

ASSUME AlternateVideoAssumption ==
  /\ MaxPictures \in Nat \ {0} /\ BufferPackets \in Nat \ {0}
  /\ DecoderDelay \in Nat /\ EncoderDelay \in Nat /\ References \in Nat
  /\ FrameOptions \subseteq Int
  /\ FrameRates \subseteq [num : Nat, den : Nat]
  /\ CounterMod \in Nat \ {0}
  /\ \A o \in FrameOptions : o < CounterMod
  /\ \A r \in FrameRates : r.num + r.den < CounterMod

VARIABLES
  source,              \* packets under the video PID of the TS
  depth,               \* m_depth
  next,                \* m_next_packet
  shown,               \* pictures the decoder has given out
  pictures,            \* the decoder's picture buffers
  held,                \* m_y, m_u, m_v
  counter,             \* m_counter
  coding,              \* what the encoder holds back
  muxed,               \* what the AVIO buffer of the muxer holds
  alternate,           \* what the TS got under the alternate PID
  failed,              \* the pictures the encoder failed at
  decoderFailed,       \* the decoder failed, reading packets or draining
  drainFailed,         \* the encoder failed when it was to give out the rest
  pc

decoder == <<source, next, shown, pictures, decoderFailed>>
pipeline == <<depth, held, counter>>
encoder == <<coding, muxed, alternate, failed, drainFailed>>
vars == <<decoder, pipeline, encoder, pc>>

Damaged == 0
Pictures == 1..MaxPictures

\* m_approx_fps: rounded, and 0 when ffmpeg does not know.
ApproxFPS(rate) ==
  IF rate.den = 0 THEN 0 ELSE (rate.num + rate.den \div 2) \div rate.den

DepthFor(option, rate) == IF option < 0 THEN ApproxFPS(rate) ELSE option

Init ==
  /\ source \in Pictures
  /\ \E o \in FrameOptions, r \in FrameRates : depth = DepthFor(o, r)
  /\ next = 0 /\ shown = 0 /\ pictures = <<>>
  /\ held = Damaged
  /\ counter = 0
  /\ coding = <<>> /\ muxed = <<>> /\ alternate = <<>>
  /\ failed = {} /\ decoderFailed = FALSE /\ drainFailed = FALSE
  /\ pc = "decode"

-----------------------------------------------------------------------------
(* The codecs and the muxer *)

Image(frame, picture) == [frame |-> frame, picture |-> picture]

TablePacket == [pid |-> 0]
VideoPacket(image) == [pid |-> 256, image |-> image]

\* What is seen in the buffer of the next picture.
Predicted ==
  LET k == Len(pictures) + 1 IN
  IF \A r \in 1..Len(pictures) : k - r =< References => pictures[r] = r
  THEN k ELSE Damaged

\* av_interleaved_write_frame() of one image.
Mux(image) ==
  \/ muxed' = Append(muxed, VideoPacket(image))
  \/ muxed' = muxed \o <<TablePacket, VideoPacket(image)>>

\* avcodec_encode_video2() takes an image, and may give an earlier one out.
EncodeImage(image) ==
  LET queue == Append(coding, image) IN
  \/ /\ Len(queue) =< EncoderDelay
     /\ coding' = queue
     /\ UNCHANGED muxed
  \/ /\ coding' = Tail(queue)
     /\ Mux(Head(queue))

-----------------------------------------------------------------------------
(* VideoEncoder::newFrame() with ImagePipeline::process() and restore() *)

\* A bug of that kind: the comparison comes before the step.
CountedLate(c) == IF c = depth THEN 0 ELSE (c + 1) % CounterMod

\* The counter after a call, with the range of an unsigned int.
Counted(c) ==
  LET up == (c + 1) % CounterMod IN IF up = depth THEN 0 ELSE up

\* A bug of that kind: a batch shows the picture before it.
KeptLate(picture) == IF counter = 1 THEN picture ELSE held

Kept(picture) == IF counter = 0 THEN picture ELSE held

\* process() paints the image over the buffer, and restore() puts back the
\* copy made before.
Painted(buffers, f, image) == [buffers EXCEPT ![f] = image]

\* A bug of that kind: the copy is made of what the encoder was shown.
RestoredLate(buffers, f, saved) == buffers

Restored(buffers, f, saved) == [buffers EXCEPT ![f] = saved]

\* The next picture, given the buffers after decoding.  An encoder that fails
\* makes newFrame() return before the restore().
NewFrame(buffers) ==
  LET f == shown + 1
      image == Kept(buffers[f])
  IN
  /\ shown' = f
  /\ held' = image
  /\ counter' = Counted(counter)
  /\ \/ /\ EncodeImage(Image(f, image))
        /\ pictures' = Restored(Painted(buffers, f, image), f, buffers[f])
        /\ UNCHANGED failed
     \/ /\ failed' = failed \cup {f}
        /\ pictures' = Painted(buffers, f, image)
        /\ UNCHANGED <<coding, muxed>>
  /\ UNCHANGED <<depth, alternate, drainFailed>>

-----------------------------------------------------------------------------
(* VideoDecoder::avioread() and run() *)

\* av_read_frame() finds the AVIO buffer empty.
ReadPackets ==
  /\ pc = "decode"
  /\ Len(pictures) = next /\ next < source
  /\ next' = IF next + BufferPackets < source THEN next + BufferPackets
             ELSE source
  /\ UNCHANGED <<source, shown, pictures, decoderFailed, pipeline, encoder, pc>>

\* One turn of the loop over av_read_frame(), with got_frame or without.
DecodePacket ==
  /\ pc = "decode"
  /\ Len(pictures) < next
  /\ LET buffers == Append(pictures, Predicted) IN
     \/ NewFrame(buffers)
     \/ /\ Len(buffers) - shown =< DecoderDelay
        /\ pictures' = buffers
        /\ UNCHANGED <<shown, pipeline, encoder>>
  /\ UNCHANGED <<source, next, decoderFailed, pc>>

\* The decoder fails: break.
DecodeError ==
  /\ pc = "decode"
  /\ Len(pictures) < next
  /\ decoderFailed' = TRUE
  /\ pc' = "drain"
  /\ UNCHANGED <<source, next, shown, pictures, pipeline, encoder>>

\* avioread() has AVERROR_EOF.
EndOfSource ==
  /\ pc = "decode"
  /\ Len(pictures) = next /\ next = source
  /\ pc' = "drain"
  /\ UNCHANGED <<decoder, pipeline, encoder>>

\* One turn of the second loop.
DrainDecoder ==
  /\ pc = "drain"
  /\ shown < Len(pictures)
  /\ NewFrame(pictures)
  /\ UNCHANGED <<source, next, decoderFailed, pc>>

\* Bugs of that kind: the loop does not ask for got_frame, or what the decoder
\* holds back is not asked for.
VideoCompleteNever == FALSE
VideoCompleteAtOnce ==
  /\ pc = "drain"
  /\ pc' = "finish"
  /\ UNCHANGED <<decoder, pipeline, encoder>>

\* No frame is left: videoComplete().
VideoComplete ==
  /\ pc = "drain"
  /\ shown = Len(pictures)
  /\ pc' = "finish"
  /\ UNCHANGED <<decoder, pipeline, encoder>>

\* The decoder fails with pictures still held.  What it returns is discarded,
\* got_frame is 0, and that is videoComplete() too.
DrainError ==
  /\ pc = "drain"
  /\ shown < Len(pictures)
  /\ decoderFailed' = TRUE
  /\ pc' = "finish"
  /\ UNCHANGED <<source, next, shown, pictures, pipeline, encoder>>

-----------------------------------------------------------------------------
(* VideoEncoder::endOfVideo(), write() and the destructor *)

\* One turn of the loop of newFrame( NULL ).
DrainEncoder ==
  /\ pc = "finish"
  /\ coding # <<>>
  /\ coding' = Tail(coding)
  /\ Mux(Head(coding))
  /\ UNCHANGED <<decoder, pipeline, alternate, failed, drainFailed, pc>>

\* No packet is left.
Drained ==
  /\ pc = "finish"
  /\ coding = <<>>
  /\ pc' = "trailer"
  /\ UNCHANGED <<decoder, pipeline, encoder>>

\* The encoder fails: return.
EncoderError ==
  /\ pc = "finish"
  /\ drainFailed' = TRUE
  /\ pc' = "trailer"
  /\ UNCHANGED <<decoder, pipeline, coding, muxed, alternate, failed>>

\* The packets of the encoder's own program that write() keeps.
Taken(packets) ==
  LET video == Only(packets, {p \in ToSet(packets) : p.pid = 256})
  IN  [i \in DOMAIN video |-> video[i].image]

\* The AVIO buffer is full, or ffmpeg flushes it.
Write ==
  /\ pc # "done"
  /\ \E n \in 1..Len(muxed) :
       /\ alternate' = alternate \o Taken(SubSeq(muxed, 1, n))
       /\ muxed' = SubSeq(muxed, n + 1, Len(muxed))
  /\ UNCHANGED <<decoder, pipeline, coding, failed, drainFailed, pc>>

\* Both are deleted; av_write_trailer() flushes the AVIO buffer.
Delete ==
  /\ pc = "trailer"
  /\ alternate' = alternate \o Taken(muxed)
  /\ muxed' = <<>>
  /\ pc' = "done"
  /\ UNCHANGED <<decoder, pipeline, coding, failed, drainFailed>>

Next ==
  \/ ReadPackets \/ DecodePacket \/ DecodeError \/ EndOfSource
  \/ DrainDecoder \/ VideoComplete \/ DrainError
  \/ DrainEncoder \/ Drained \/ EncoderError \/ Write \/ Delete

\* Every loop of the task runs on.
Spec == Init /\ [][Next]_vars /\ WF_vars(Next)

-----------------------------------------------------------------------------
(* Properties *)

ImageType == [frame : Pictures, picture : Pictures \cup {Damaged}]
Period == IF depth = 0 THEN CounterMod ELSE depth

\* The counter stays within the batch, and every buffer holds a picture.
TypeOK ==
  /\ source \in Pictures /\ next \in 0..source
  /\ depth \in Nat
  /\ pictures \in Seq(Pictures \cup {Damaged})
  /\ shown =< Len(pictures) /\ Len(pictures) =< next
  /\ held \in Pictures \cup {Damaged}
  /\ counter \in 0..(Period - 1)
  /\ coding \in Seq(ImageType) /\ Len(coding) =< EncoderDelay
  /\ muxed \in Seq({TablePacket} \cup {VideoPacket(x) : x \in ImageType})
  /\ alternate \in Seq(ImageType)
  /\ failed \subseteq Pictures
  /\ decoderFailed \in BOOLEAN /\ drainFailed \in BOOLEAN
  /\ pc \in {"decode", "drain", "finish", "trailer", "done"}

\* The pictures the decoder predicts from are its own again whenever it goes
\* on, as far as no encoding failed before them (ImagePipeline::restore).
Unharmed ==
  \A k \in DOMAIN pictures :
    pictures[k] # k => \E f \in failed : f =< k

\* What was made of the pictures given out, wherever it is now.
Images == alternate \o Taken(muxed) \o coding

\* Every picture of the alternate video shows the first of its batch, with
\* the batches of m_depth pictures counted from the start of the video: the
\* held picture, the counter and the decoder's buffers stay in step over
\* delays and failures (ImagePipeline::process).
Batched ==
  \A i \in DOMAIN Images :
    LET start == ((Images[i].frame - 1) \div Period) * Period + 1 IN
    (\A f \in failed : f >= start) => Images[i].picture = start

\* Every picture given out becomes one of the alternate video, in order, but
\* those the encoder failed at.  At the end nothing is left in the muxer; all
\* pictures of the video were given out unless the decoder failed, and nothing
\* is left in the encoder unless that failed when it was drained
\* (VideoDecoder::run, VideoEncoder::newFrame and destructor).
OneForOne ==
  /\ [i \in DOMAIN Images |-> Images[i].frame]
       = Only([f \in 1..shown |-> f], Pictures \ failed)
  /\ pc = "done" =>
       /\ muxed = <<>>
       /\ decoderFailed \/ shown = source
       /\ drainFailed \/ coding = <<>>

\* The task ends.
Ends == <>(pc = "done")
=============================================================================
