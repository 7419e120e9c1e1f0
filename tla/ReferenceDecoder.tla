-------------------------- MODULE ReferenceDecoder --------------------------
(***************************************************************************)
(* ReferenceDecoder.hpp: the in-memory decoder a loader feeds with what it *)
(* has downloaded of a MyBe segment (add) and asks for the segment without *)
(* video, with one I-frame, with the alternate video, with the original    *)
(* video, or for the best of these (the generate functions).               *)
(*                                                                         *)
(* The bytes received are always a prefix of the file, so m_source is its  *)
(* length.  An output buffer is the sequence of slices of m_source copied  *)
(* into it.  The one thread of the loader makes every call.                *)
(*                                                                         *)
(* The bytes behind the end of m_source are outside the program's control. *)
(* They are taken not to continue the tag or the header text by accident:  *)
(* a line of text cut by the end of m_source either ends at a NUL, or ends *)
(* in rubbish and a newline, which makes its value one of TornValues.      *)
(***************************************************************************)
EXTENDS MyBeFile

CONSTANTS
  TagEnd,       \* bytes of the magic packet up to the end of the tag line
  FieldEnd,     \* and up to the end of the line of each of its four fields
  TornValues,   \* what a line of text cut by the end of m_source can read as
  SizeMod,      \* 2^64, the range of a size_t
  HackPid,      \* 257, the PID given to alternate packets
  AddSizes,     \* bound: the chunks a download arrives in
  Calls         \* bound: the generate functions the loader uses

VARIABLES
  file,         \* the file being downloaded
  source,       \* m_source.size()
  header,       \* m_decoded_header and the members decodeHeader() assigns
  video,        \* m_video_no, _single, _alternate and _full, NoSegment = NULL
  reply,        \* the last call made and the segment it returned
  fault         \* how the process was killed, or "none"

vars == <<file, source, header, video, reply, fault>>

Fields == 1..4

ASSUME TextAssumption ==
  /\ TagEnd \in Nat
  /\ FieldEnd \in [Fields -> Nat]
  /\ TagEnd < FieldEnd[1]
  /\ \A i \in 1..3 : FieldEnd[i] < FieldEnd[i + 1]
  /\ FieldEnd[4] < PacketSize

ASSUME DecoderAssumption ==
  /\ TornValues \subseteq Nat /\ TornValues # {}
  /\ SizeMod \in Nat /\ WordMod =< SizeMod
  /\ HackPid \in Nat
  /\ AddSizes \subseteq Nat \ {0}
  /\ Calls \subseteq Kinds \cup {"best"}

-----------------------------------------------------------------------------
(* decodeHeader() *)

\* m_header_size is reset before every scan of m_source for the tag.
StaleScanBase == header.size
ScanBase == 0

\* The scan looks at the start of each packet, up to a length that is only an
\* unsigned int; the tag is in the magic packet.  Without it the scan stops at
\* the first multiple of 188 past that length.
ScanLen  == source % WordMod
ScanStop == ((ScanLen + PacketSize - 1) \div PacketSize) * PacketSize
TagSeen  == file.hdr < ScanLen /\ source >= file.hdr + TagEnd

LineStart(i) == IF i = 1 THEN TagEnd ELSE FieldEnd[i - 1]
LineRead(i)  == source >= file.hdr + FieldEnd[i]
LineCut(i)   == source > file.hdr + LineStart(i) /\ ~LineRead(i)
TextCut      == \E i \in Fields : LineCut(i)

\* The four lines, in the order of the text.
StatedTotalLast == <<file.misc, file.keep, file.altKeep, file.total>>
Stated == <<file.misc, file.keep, file.total, file.altKeep>>

\* What the parsing loop makes of line i; a field it never meets stays 0.
Parsed(torn) ==
  [i \in Fields |-> IF LineRead(i) THEN Stated[i]
                    ELSE IF LineCut(i) THEN torn ELSE 0]

\* Every field has to be there, and a field is there when it is not 0.
Accepts(p) == \A i \in Fields : p[i] # 0

\* The members decodeHeader() leaves behind; it returns the ok of them.
Decoded(torn) ==
  LET p == Parsed(torn) IN
  CASE header.ok -> header
    [] ~header.ok /\ ~TagSeen ->
         [header EXCEPT !.size = ScanBase + ScanStop]
    [] ~header.ok /\ TagSeen /\ ~Accepts(p) ->
         [header EXCEPT !.size = ScanBase + file.hdr]
    [] ~header.ok /\ TagSeen /\ Accepts(p) ->
         [ok |-> TRUE, size |-> ScanBase + file.hdr, misc |-> p[1],
          keep |-> p[2], total |-> p[3], altKeep |-> p[4]]

-----------------------------------------------------------------------------
(* The generate functions, given a decoded header h. *)

\* Sums of unsigned ints wrap before they become a size_t.
HeadLen(h) == h.misc + h.size
OutLen(k, h) ==
  CASE k = "no"        -> HeadLen(h) % WordMod
    [] k = "single"    -> (HeadLen(h) + Whole(h.keep)) % WordMod
    [] k = "alternate" -> (HeadLen(h) + Whole(h.keep) + h.total) % WordMod
    [] k = "full"      -> (source - PacketSize - h.total) % SizeMod

\* The check every generate function makes before it copies.
FitsWithoutMagic(k, h) == source >= OutLen(k, h)
Fits(k, h) == source >= (OutLen(k, h) + PacketSize) % SizeMod

\* Where the code finds the regions.
MiscFromMagic(h) == h.size
MiscFrom(h)      == h.size + PacketSize
IFrameFrom(h)    == MiscFrom(h) + h.misc
AlternateFromIFrame(h) == IFrameFrom(h)
AlternateFrom(h) == IFrameFrom(h) + Whole(h.keep)
RestFromTwice(h) == AlternateFrom(h) + 2 * h.total
RestFrom(h)      == AlternateFrom(h) + h.total

\* Where the last copy of the function ends, or at least starts: a copy that
\* passes the end of m_source, or has a negative length, kills the process, and
\* so does one that passes the end of the new buffer: it has OutLen bytes, all
\* copied but the magic packet (an alternate one the I-frame less, in both).
Reach(k, h) ==
  CASE k = "no"        -> IFrameFrom(h)
    [] k = "single"    -> AlternateFrom(h)
    [] k \in {"alternate", "full"} -> RestFrom(h)
Copies(k, h) ==
  /\ Reach(k, h) =< source
  /\ k # "full" => Reach(k, h) =< OutLen(k, h) + PacketSize

Built(k, h) ==
  LET pat    == Slice(0, h.size, 0)
      misc   == Slice(MiscFrom(h), h.misc, 0)
      iframe == Slice(IFrameFrom(h), Whole(h.keep), 0)
      alt    == Slice(AlternateFrom(h), h.total, HackPid)
      rest   == Slice(RestFrom(h), source - RestFrom(h), 0)
  IN  CASE k = "no"        -> <<pat, misc>>
        [] k = "single"    -> <<pat, misc, iframe>>
        [] k = "alternate" -> <<pat, misc, alt>>
        [] k = "full"      -> <<pat, misc, iframe, rest>>

\* The functions generateBestVideo() tries, in its order.
TriesWorstFirst(call) ==
  IF call = "best" THEN <<"no", "single", "alternate", "full">> ELSE <<call>>
Tries(call) ==
  IF call = "best" THEN <<"full", "alternate", "single", "no">> ELSE <<call>>

Served(k, h) == video[k] # NoSegment \/ (h.ok /\ Fits(k, h))

\* k is the first kind the call can serve.
Chosen(call, h, k) ==
  \E i \in DOMAIN Tries(call) :
    /\ k = Tries(call)[i]
    /\ Served(k, h)
    /\ \A j \in 1..(i - 1) : ~Served(Tries(call)[j], h)

-----------------------------------------------------------------------------
Init ==
  /\ file \in Files
  /\ source = 0
  /\ header = [ok |-> FALSE, size |-> 0, misc |-> 0, keep |-> 0,
               total |-> 0, altKeep |-> 0]
  /\ video = [k \in Kinds |-> NoSegment]
  /\ reply = [call |-> "add", got |-> NoSegment]
  /\ fault = "none"

\* add(): the next chunk of the download.
Add(n) ==
  /\ source + n =< FileSize(file)
  /\ source' = source + n
  /\ reply' = [call |-> "add", got |-> NoSegment]
  /\ UNCHANGED <<file, header, video, fault>>

\* A generate function returns the segment it built on an earlier call.
Replay(call, h, k) ==
  /\ Chosen(call, h, k)
  /\ video[k] # NoSegment
  /\ reply' = [call |-> call, got |-> video[k]]
  /\ UNCHANGED video

\* A generate function builds its segment, keeps it and returns it.
Build(call, h, k) ==
  /\ Chosen(call, h, k)
  /\ video[k] = NoSegment
  /\ Copies(k, h)
  /\ video' = [video EXCEPT ![k] = Built(k, h)]
  /\ reply' = [call |-> call, got |-> Built(k, h)]

\* No header yet, or not enough data: NULL.
Refuse(call, h) ==
  /\ \A k \in Kinds : ~Chosen(call, h, k)
  /\ reply' = [call |-> call, got |-> NoSegment]
  /\ UNCHANGED video

Generate(call) ==
  /\ \E torn \in TornValues :
       /\ header' = Decoded(torn)
       /\ \/ \E k \in Kinds : Replay(call, header', k)
          \/ \E k \in Kinds : Build(call, header', k)
          \/ Refuse(call, header')
  /\ UNCHANGED <<file, source, fault>>

\* The parsing loop ends at the NUL behind a newline.  When the text stops in
\* the middle of a line it steps over the NUL and runs off the string.
OverrunHeader(call) ==
  /\ ~header.ok
  /\ TextCut
  /\ fault' = "header"
  /\ UNCHANGED <<file, source, header, video, reply>>

\* The check passed though the data is not there.
OverrunCopy(call) ==
  /\ \E torn \in TornValues : \E k \in Kinds :
       /\ header' = Decoded(torn)
       /\ Chosen(call, header', k)
       /\ video[k] = NoSegment
       /\ ~Copies(k, header')
  /\ fault' = "copy"
  /\ UNCHANGED <<file, source, video, reply>>

\* One of the five generate functions is called.
Call(call) == Generate(call) \/ OverrunHeader(call) \/ OverrunCopy(call)

Next ==
  /\ fault = "none"
  /\ \/ \E n \in AddSizes : Add(n)
     \/ \E call \in Calls : Call(call)

Spec == Init /\ [][Next]_vars

\* A loader that asks for the full and the best segment only when it has handed
\* over the whole file.
CallsInTime ==
  {c \in Calls : c \in {"full", "best"} => source = FileSize(file)}
NextInTime ==
  /\ fault = "none"
  /\ \/ \E n \in AddSizes : Add(n)
     \/ \E call \in CallsInTime : Call(call)
SpecInTime == Init /\ [][NextInTime]_vars

-----------------------------------------------------------------------------
(* Properties *)

SegmentType == Seq([at: Nat, len: Nat, pid: Nat])

\* Types, with the one bound that is not a type: wherever the scan stopped,
\* m_header_size is within a packet of the bytes received (ReferenceDecoder.hpp:
\* 253, 260), although decodeHeader() runs again on every call until it succeeds.
TypeOK ==
  /\ file \in Files
  /\ source \in 0..FileSize(file)
  /\ header \in [ok: BOOLEAN, size: Nat, misc: Nat, keep: Nat, total: Nat,
                 altKeep: Nat]
  /\ header.size < source + PacketSize
  /\ DOMAIN video = Kinds
  /\ reply.call \in Calls \cup {"add"}
  /\ fault \in {"none", "header", "copy"}

\* Once a header is accepted the sizes the segments are cut by are the ones
\* the file states, even when the text was read while the magic packet was
\* still arriving (lines 271-303): only the last field can have been torn.
HeaderExact ==
  header.ok =>
    /\ header.size  = file.hdr
    /\ header.misc  = file.misc
    /\ header.keep  = file.keep
    /\ header.total = file.total

Promise == INSTANCE BestEffort WITH received <- source, given <- video

\* The segments given out are the ones BestEffort allows, each no sooner than
\* its last byte arrived and never changed afterwards.
PromiseKept == Promise!Spec

\* The same of each state, for the kinds whose size the header states: a
\* segment that exists is cut from the right places of bytes received, so a
\* chunk boundary anywhere in the file cannot leave a gap in it.
SegmentsExact ==
  \A k \in {"no", "single", "alternate"} :
    video[k] # NoSegment => /\ Promise!Need(k) =< source
                            /\ video[k] = Promise!Content(k)

\* The length check each of these three functions makes before it copies is
\* enough (ReferenceDecoder.hpp:63-65, 99-101, 140-142): when it passes, "data
\* received" is sufficient, so the copies stay inside m_source and the new
\* buffer, whatever was torn from the text, unless they end so far in the file
\* that the sum of the sizes is no unsigned int: that sum wraps and is too small.
ChecksSuffice ==
  header.ok => \A k \in {"no", "single", "alternate"} :
                 Fits(k, header) =>
                   Copies(k, header) \/ Reach(k, header) >= WordMod

\* When the whole file has arrived no call comes back empty (README.md:54), if
\* the file states four sizes that are not 0: one with MiscLength=0 would never
\* be served (ReferenceDecoder.hpp:293), and the files of the runs have none.
ServedWhenComplete ==
  source = FileSize(file) /\ reply.call # "add" => reply.got # NoSegment

\* When the whole file has arrived, the best segment is the original one
\* (README.md:54, generateBestVideo), whatever was served before.
BestServesFull ==
  source = FileSize(file) /\ reply.call = "best" =>
    reply.got = Promise!Content("full")

\* No call kills the process ("NULL if insufficient data received",
\* ReferenceDecoder.hpp:52-54, whatever "the current download state").
NoFault == fault = "none"

\* A call only kills the process when the bytes received end inside a packet, or
\* for a file whose sizes add up to no unsigned int: no copy and no header line
\* runs over the end of m_source otherwise (lines 63-80, 271-285).
WholePacketsSafe ==
  source % PacketSize = 0 /\ RestAt(file) < WordMod => NoFault

\* "NULL if insufficient data received" (ReferenceDecoder.hpp:183): a full
\* segment is only returned when the full file is there.
FullOnlyWhenComplete ==
  reply.call = "full" /\ reply.got # NoSegment => source = FileSize(file)
=============================================================================
