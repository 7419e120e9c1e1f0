----------------------- MODULE ReferenceDecoderProofs -----------------------
(***************************************************************************)
(* Theorems about ReferenceDecoder for every file, chunk size and packet   *)
(* size.  The inductive invariant is TypeOK /\ HeaderExact, to which each  *)
(* part adds what it is about: SegmentsExact, because a segment is cut by  *)
(* the sizes in the header; ServedWhenComplete; WholePacketsSafe.          *)
(* Full and best segments need a loader in time (SpecInTime), for which    *)
(* the decoder is a BestEffort and a full segment is a whole one.          *)
(* That a complete file is served needs its length to be an unsigned int   *)
(* (FilesFit).                                                             *)
(***************************************************************************)
EXTENDS ReferenceDecoder, TLAPS

\* Rounding up to whole packets on unsigned ints yields a size.
LEMMA WholeNat == ASSUME NEW n \in Nat PROVE Whole(n) \in Nat
<1> DEFINE m == (n + PacketSize - 1) % WordMod
<1>1. m \in Nat  BY PacketAssumption
<1>2. m \div PacketSize \in Nat  BY <1>1, PacketAssumption
<1> HIDE DEF m
<1>3. (m \div PacketSize) * PacketSize \in Nat
  BY <1>2, PacketAssumption
<1> QED  BY <1>3 DEF Whole, m

\* A scan that finds no tag stops less than a packet past the end.
LEMMA ScanStopBound ==
  ASSUME source \in Nat
  PROVE  ScanStop \in Nat /\ ScanStop < source + PacketSize
<1>0. ScanLen \in Nat /\ ScanLen =< source
  <2>1. ASSUME NEW a \in Nat, NEW m \in Nat \ {0}
        PROVE  a % m \in Nat /\ a % m =< a
    <3>1. a = m * (a \div m) + (a % m) /\ a \div m \in Nat /\ a % m \in Nat
      BY <2>1
    <3>2. m * (a \div m) \in Nat  BY <3>1
    <3> QED  BY <3>1, <3>2
  <2> QED  BY <2>1, PacketAssumption DEF ScanLen
<1> DEFINE m == ScanLen + PacketSize - 1
           q == m \div PacketSize
<1>1. m \in Nat  BY <1>0, PacketAssumption
<1>2. q \in Nat  BY <1>1, PacketAssumption
<1>3. q * PacketSize =< m  BY <1>1, PacketAssumption
<1>4. q * PacketSize \in Nat  BY <1>2, PacketAssumption
<1> QED  BY <1>0, <1>3, <1>4, PacketAssumption DEF ScanStop

-----------------------------------------------------------------------------
HeaderType == [ok: BOOLEAN, size: Nat, misc: Nat, keep: Nat, total: Nat,
               altKeep: Nat]

\* What HeaderExact says of the header h.
Exact(h) ==
  h.ok => /\ h.size  = file.hdr
          /\ h.misc  = file.misc
          /\ h.keep  = file.keep
          /\ h.total = file.total

\* The region sizes and the size of a file are natural numbers.
LEMMA FileNat ==
  ASSUME NEW f \in Files
  PROVE  /\ f.hdr \in Nat /\ f.misc \in Nat /\ f.keep \in Nat
         /\ f.total \in Nat /\ f.altKeep \in Nat /\ f.rest \in Nat
         /\ Whole(f.keep) \in Nat
         /\ FileSize(f) \in Nat
<1>1. f \in FileType  BY FilesAssumption
<1>2. Whole(f.keep) \in Nat  BY <1>1, WholeNat DEF FileType
<1> QED  BY <1>1, <1>2, PacketAssumption
         DEF FileType, FileSize, RestAt, AlternateAt, IFrameAt, MiscAt

\* When a line reads, so do the lines before it; a cut line is behind them.
LEMMA LinesInOrder ==
  ASSUME file.hdr \in Nat, source \in Nat,
         NEW torn \in Nat, Accepts(Parsed(torn)),
         NEW i \in 1..3
  PROVE  LineRead(i)
<1>1. /\ TagEnd \in Nat /\ \A j \in Fields : FieldEnd[j] \in Nat
      /\ FieldEnd[1] < FieldEnd[2] /\ FieldEnd[2] < FieldEnd[3]
      /\ FieldEnd[3] < FieldEnd[4]
  BY TextAssumption DEF Fields
<1>2. Parsed(torn)[4] # 0  BY DEF Accepts, Fields
<1>3. LineRead(4) \/ LineCut(4)  BY <1>2 DEF Parsed, Fields
<1>4. source >= file.hdr + FieldEnd[3]
  BY <1>1, <1>3 DEF LineRead, LineCut, LineStart, Fields
<1>5. source >= file.hdr + FieldEnd[i]
  BY <1>1, <1>4 DEF Fields
<1> QED  BY <1>5 DEF LineRead

\* Whatever the end of m_source does to the text, decodeHeader() leaves
\* well-typed members and accepts only the sizes the file states.
LEMMA DecodedExact ==
  ASSUME TypeOK, HeaderExact, NEW torn \in TornValues
  PROVE  /\ Decoded(torn) \in HeaderType
         /\ Decoded(torn).size < source + PacketSize
         /\ Exact(Decoded(torn))
<1> DEFINE p == Parsed(torn)
<1>1. /\ file \in Files /\ source \in Nat /\ header \in HeaderType
      /\ header.size < source + PacketSize
  BY FileNat DEF TypeOK, HeaderType
<1>2. torn \in Nat  BY DecoderAssumption
<1>3. file.hdr \in Nat  BY <1>1, FileNat
<1>4. PacketSize \in Nat /\ PacketSize > 0  BY PacketAssumption
<1>5. CASE header.ok
  BY <1>1, <1>5 DEF Decoded, HeaderExact, Exact
<1>6. CASE ~header.ok /\ ~TagSeen
  <2>1. Decoded(torn) = [header EXCEPT !.size = ScanStop]
    <3>1. ScanBase + ScanStop = ScanStop  BY <1>1, ScanStopBound DEF ScanBase
    <3> QED  BY <1>6, <3>1 DEF Decoded
  <2>2. ScanStop \in Nat /\ ScanStop < source + PacketSize
    BY <1>1, ScanStopBound
  <2> QED  BY <1>1, <1>6, <2>1, <2>2 DEF HeaderType, Exact
<1>7. CASE ~header.ok /\ TagSeen /\ ~Accepts(p)
  <2>1. Decoded(torn) = [header EXCEPT !.size = file.hdr]
    <3>1. ScanBase + file.hdr = file.hdr  BY <1>3 DEF ScanBase
    <3> QED  BY <1>7, <3>1 DEF Decoded
  <2>2. file.hdr < source + PacketSize
    BY <1>1, <1>3, <1>4, <1>7, TextAssumption DEF TagSeen
  <2> QED  BY <1>1, <1>3, <1>7, <2>1, <2>2 DEF HeaderType, Exact
<1>8. CASE ~header.ok /\ TagSeen /\ Accepts(p)
  <2>1. Decoded(torn) =
          [ok |-> TRUE, size |-> file.hdr, misc |-> p[1], keep |-> p[2],
           total |-> p[3], altKeep |-> p[4]]
    <3>1. ScanBase + file.hdr = file.hdr  BY <1>3 DEF ScanBase
    <3> QED  BY <1>8, <3>1 DEF Decoded
  <2>2. LineRead(1) /\ LineRead(2) /\ LineRead(3)
    BY <1>1, <1>2, <1>3, <1>8, LinesInOrder
  <2>3. p[1] = file.misc /\ p[2] = file.keep /\ p[3] = file.total
    BY <2>2 DEF Parsed, Fields, Stated
  <2>4. p[4] \in Nat
    BY <1>1, <1>2, FileNat DEF Parsed, Fields, Stated
  <2>5. file.misc \in Nat /\ file.keep \in Nat /\ file.total \in Nat
    BY <1>1, FileNat
  <2>6. file.hdr < source + PacketSize
    BY <1>1, <1>3, <1>4, <1>8, TextAssumption DEF TagSeen
  <2> HIDE DEF p
  <2> QED  BY <1>3, <2>1, <2>3, <2>4, <2>5, <2>6 DEF HeaderType, Exact
<1> QED  BY <1>5, <1>6, <1>7, <1>8

-----------------------------------------------------------------------------
(* Type correctness and the header *)

HeaderInv == TypeOK /\ HeaderExact

LEMMA HeaderInvInit == Init => HeaderInv
<1> SUFFICES ASSUME Init PROVE HeaderInv  OBVIOUS
<1>1. /\ file \in Files /\ source = 0
      /\ header \in HeaderType /\ header.size = 0 /\ ~header.ok
  BY DEF Init, HeaderType
<1>2. FileSize(file) \in Nat  BY <1>1, FileNat
<1>3. TypeOK
  BY <1>1, <1>2, PacketAssumption DEF Init, TypeOK, HeaderType
<1>4. HeaderExact  BY <1>1 DEF HeaderExact
<1> QED  BY <1>3, <1>4 DEF HeaderInv

\* A call that leaves file and source alone and decodes the header.
LEMMA DecodeKeepsHeaderInv ==
  ASSUME HeaderInv, NEW torn \in TornValues, header' = Decoded(torn),
         UNCHANGED <<file, source>>,
         DOMAIN video' = Kinds, reply'.call \in Calls \cup {"add"},
         fault' \in {"none", "header", "copy"}
  PROVE  HeaderInv'
<1>1. /\ header' \in HeaderType /\ header'.size < source + PacketSize
      /\ Exact(header')
  BY DecodedExact DEF HeaderInv
<1>2. TypeOK'  BY <1>1 DEF HeaderInv, TypeOK, HeaderType
<1>3. HeaderExact'  BY <1>1 DEF HeaderExact, Exact
<1> QED  BY <1>2, <1>3 DEF HeaderInv

LEMMA HeaderInvNext == HeaderInv /\ [Next]_vars => HeaderInv'
<1> SUFFICES ASSUME HeaderInv, [Next]_vars PROVE HeaderInv'  OBVIOUS
<1> USE DEF HeaderInv
<1>1. ASSUME NEW n \in AddSizes, Add(n) PROVE HeaderInv'
  <2>1. n \in Nat /\ file \in Files /\ source \in Nat
    BY DecoderAssumption, FileNat DEF TypeOK
  <2>2. FileSize(file) \in Nat  BY <2>1, FileNat
  <2>3. TypeOK'
    BY <1>1, <2>1, <2>2, PacketAssumption DEF Add, TypeOK
  <2>4. HeaderExact'  BY <1>1 DEF Add, HeaderExact
  <2> QED  BY <2>3, <2>4
<1>2. ASSUME NEW call \in Calls, Generate(call) PROVE HeaderInv'
  <2>1. PICK torn \in TornValues :
          /\ header' = Decoded(torn)
          /\ \/ \E k \in Kinds : Replay(call, header', k)
             \/ \E k \in Kinds : Build(call, header', k)
             \/ Refuse(call, header')
    BY <1>2 DEF Generate
  <2>2. UNCHANGED <<file, source, fault>>  BY <1>2 DEF Generate
  <2>3. DOMAIN video' = Kinds /\ reply'.call = call
    BY <2>1 DEF Replay, Build, Refuse, TypeOK
  <2> QED  BY <2>1, <2>2, <2>3, DecodeKeepsHeaderInv DEF TypeOK
<1>3. ASSUME NEW call \in Calls, OverrunHeader(call) PROVE HeaderInv'
  BY <1>3 DEF OverrunHeader, TypeOK, HeaderExact
<1>4. ASSUME NEW call \in Calls, OverrunCopy(call) PROVE HeaderInv'
  <2>1. PICK torn \in TornValues : header' = Decoded(torn)
    BY <1>4 DEF OverrunCopy
  <2>2. UNCHANGED <<file, source, video, reply>> /\ fault' = "copy"
    BY <1>4 DEF OverrunCopy
  <2> QED  BY <2>1, <2>2, DecodeKeepsHeaderInv DEF TypeOK
<1>5. CASE UNCHANGED vars
  BY <1>5 DEF vars, TypeOK, HeaderExact
<1> QED  BY <1>1, <1>2, <1>3, <1>4, <1>5 DEF Next, Call

\* The types, and the bound on m_header_size, hold in every reachable state.
THEOREM TypeCorrect == Spec => []TypeOK
<1>1. HeaderInv => TypeOK  BY DEF HeaderInv
<1> QED  BY HeaderInvInit, HeaderInvNext, <1>1, PTL DEF Spec

\* A decoded header states the sizes of the file, wherever the download was
\* cut when decodeHeader() read it.
THEOREM HeaderIsExact == Spec => []HeaderExact
<1>1. HeaderInv => HeaderExact  BY DEF HeaderInv
<1> QED  BY HeaderInvInit, HeaderInvNext, <1>1, PTL DEF Spec

-----------------------------------------------------------------------------
(* The length checks *)

LEMMA ModSmall == ASSUME NEW a \in Nat, NEW m \in Nat, a < m PROVE a % m = a
  OBVIOUS

\* With the sizes of the file in the header h and a sum that does not wrap, a
\* check compares the bytes received with the end of the last region copied.
LEMMA ChecksAreExact ==
  ASSUME file \in Files, source \in Nat, NEW h, h.ok, Exact(h),
         NEW k \in {"no", "single", "alternate"}, Reach(k, h) < WordMod
  PROVE  /\ Reach(k, h) \in Nat
         /\ Reach(k, h) = OutLen(k, h) + PacketSize
         /\ Fits(k, h) <=> Copies(k, h)
<1>1. /\ h.size = file.hdr /\ h.misc = file.misc
      /\ h.keep = file.keep /\ h.total = file.total
  BY DEF Exact
<1>2. /\ file.hdr \in Nat /\ file.misc \in Nat /\ file.total \in Nat
      /\ Whole(file.keep) \in Nat /\ source \in Nat
  BY FileNat
<1>3. /\ PacketSize \in Nat /\ WordMod \in Nat /\ SizeMod \in Nat
      /\ WordMod =< SizeMod
  BY PacketAssumption, DecoderAssumption
<1> DEFINE w == Whole(file.keep)
           len == IF k = "no" THEN file.misc + file.hdr
                  ELSE IF k = "single" THEN file.misc + file.hdr + w
                  ELSE file.misc + file.hdr + w + file.total
<1>6. Reach(k, h) = len + PacketSize
  BY <1>1, <1>2, <1>3
     DEF Reach, RestFrom, AlternateFrom, IFrameFrom, MiscFrom
<1>5. len \in Nat /\ len + PacketSize < WordMod  BY <1>2, <1>6
<1>7. OutLen(k, h) = len % WordMod
  BY <1>1, <1>2 DEF OutLen, HeadLen
<1> HIDE DEF len
<1>8. OutLen(k, h) = len
  BY <1>3, <1>5, <1>7, ModSmall
<1>9. (len + PacketSize) % SizeMod = len + PacketSize
  BY <1>3, <1>5, ModSmall
<1> QED  BY <1>2, <1>3, <1>5, <1>6, <1>8, <1>9 DEF Fits, Copies

\* The copies of such a segment end at a place in the file.
LEMMA ReachNat ==
  ASSUME file \in Files, NEW h, h.ok, Exact(h),
         NEW k \in {"no", "single", "alternate"}
  PROVE  Reach(k, h) \in Nat /\ Reach(k, h) =< RestAt(file)
<1>1. /\ h.size = file.hdr /\ h.misc = file.misc
      /\ h.keep = file.keep /\ h.total = file.total
  BY DEF Exact
<1>2. /\ file.hdr \in Nat /\ file.misc \in Nat /\ file.total \in Nat
      /\ Whole(file.keep) \in Nat /\ PacketSize \in Nat
  BY FileNat, PacketAssumption
<1>3. IFrameFrom(h) = file.hdr + PacketSize + file.misc
  BY <1>1, <1>2 DEF IFrameFrom, MiscFrom
<1>4. AlternateFrom(h) = IFrameFrom(h) + Whole(file.keep)
  BY <1>1 DEF AlternateFrom
<1>5. RestFrom(h) = AlternateFrom(h) + file.total
  BY <1>1 DEF RestFrom
<1>6. RestAt(file) = file.hdr + PacketSize + file.misc + Whole(file.keep)
                       + file.total
  BY DEF RestAt, AlternateAt, IFrameAt, MiscAt
<1>7. Reach(k, h) \in {IFrameFrom(h), AlternateFrom(h), RestFrom(h)}
  BY DEF Reach
<1> QED  BY <1>2, <1>3, <1>4, <1>5, <1>6, <1>7

\* A length check that passes leaves room, in m_source and in the new buffer,
\* for every copy behind it, however the download was cut and whatever was torn
\* from the text, or else the copies end past what an unsigned int can count to.
THEOREM LengthChecksSuffice == Spec => []ChecksSuffice
<1>1. ASSUME HeaderInv PROVE ChecksSuffice
  <2>1. file \in Files /\ source \in Nat  BY <1>1, FileNat DEF HeaderInv, TypeOK
  <2>2. header.ok => Exact(header)  BY <1>1 DEF HeaderInv, HeaderExact, Exact
  <2> SUFFICES ASSUME header.ok, NEW k \in {"no", "single", "alternate"},
                      Fits(k, header), ~(Reach(k, header) >= WordMod)
               PROVE  Copies(k, header)
    BY DEF ChecksSuffice
  <2>3. Reach(k, header) \in Nat  BY <2>1, <2>2, ReachNat
  <2>4. Reach(k, header) < WordMod  BY <2>3, PacketAssumption
  <2> QED  BY <2>1, <2>2, <2>4, ChecksAreExact
<1> QED  BY HeaderInvInit, HeaderInvNext, <1>1, PTL DEF Spec

-----------------------------------------------------------------------------
(* The segments *)

\* Every PMT announces the video on the PID the alternate packets are given.
SamePid == \A f \in Files : f.videoPid = HackPid

\* A segment built from an exact header is the one the file defines, and its
\* copies end where its last region ends.
LEMMA BuiltExact ==
  ASSUME SamePid, file \in Files, NEW h, h.ok, Exact(h),
         NEW k \in {"no", "single", "alternate"}
  PROVE  /\ Built(k, h) = Promise!Content(k)
         /\ Reach(k, h) = Promise!Need(k)
<1>1. /\ h.size = file.hdr /\ h.misc = file.misc
      /\ h.keep = file.keep /\ h.total = file.total
  BY DEF Exact
<1>2. file.videoPid = HackPid  BY DEF SamePid
<1>3. /\ Promise!MiscAt(file) = MiscFrom(h)
      /\ Promise!IFrameAt(file) = IFrameFrom(h)
      /\ Promise!AlternateAt(file) = AlternateFrom(h)
      /\ Promise!RestAt(file) = RestFrom(h)
      /\ Promise!Whole(file.keep) = Whole(h.keep)
  BY <1>1 DEF Promise!MiscAt, Promise!IFrameAt, Promise!AlternateAt,
       Promise!RestAt, Promise!Whole, MiscFrom, IFrameFrom, AlternateFrom,
       RestFrom, Whole
<1>4. Reach(k, h) = Promise!Need(k)
  BY <1>3 DEF Reach, Promise!Need
<1>5. /\ Promise!Header = Slice(0, h.size, 0)
      /\ Promise!Misc = Slice(MiscFrom(h), h.misc, 0)
      /\ Promise!IFrame = Slice(IFrameFrom(h), Whole(h.keep), 0)
      /\ Promise!Slice(Promise!AlternateAt(file), file.total, file.videoPid)
           = Slice(AlternateFrom(h), h.total, HackPid)
  BY <1>1, <1>2, <1>3 DEF Promise!Header, Promise!Misc, Promise!IFrame,
       Promise!Slice, Slice
<1>6. CASE k = "no"
  <2>1. Promise!Content(k) = <<Promise!Header, Promise!Misc>>
    BY <1>6 DEF Promise!Content
  <2>2. Built(k, h) = <<Slice(0, h.size, 0), Slice(MiscFrom(h), h.misc, 0)>>
    BY <1>6 DEF Built
  <2> QED  BY <1>4, <1>5, <2>1, <2>2
<1>7. CASE k = "single"
  <2>1. Promise!Content(k) = <<Promise!Header, Promise!Misc, Promise!IFrame>>
    BY <1>7 DEF Promise!Content
  <2>2. Built(k, h) = <<Slice(0, h.size, 0), Slice(MiscFrom(h), h.misc, 0),
                        Slice(IFrameFrom(h), Whole(h.keep), 0)>>
    BY <1>7 DEF Built
  <2> QED  BY <1>4, <1>5, <2>1, <2>2
<1>8. CASE k = "alternate"
  <2>1. Promise!Content(k) =
          <<Promise!Header, Promise!Misc,
            Promise!Slice(Promise!AlternateAt(file), file.total,
                          file.videoPid)>>
    BY <1>8 DEF Promise!Content
  <2>2. Built(k, h) = <<Slice(0, h.size, 0), Slice(MiscFrom(h), h.misc, 0),
                        Slice(AlternateFrom(h), h.total, HackPid)>>
    BY <1>8 DEF Built
  <2> QED  BY <1>4, <1>5, <2>1, <2>2
<1> QED  BY <1>6, <1>7, <1>8

SegmentsInv == HeaderInv /\ SegmentsExact

LEMMA SegmentsInvNext ==
  ASSUME SamePid PROVE SegmentsInv /\ [Next]_vars => SegmentsInv'
<1> SUFFICES ASSUME SegmentsInv, [Next]_vars PROVE SegmentsInv'  OBVIOUS
<1>1. HeaderInv /\ HeaderInv'  BY HeaderInvNext DEF SegmentsInv
<1> SUFFICES ASSUME NEW k \in {"no", "single", "alternate"},
                    video'[k] # NoSegment
             PROVE  /\ Promise!Need(k)' =< source'
                    /\ video'[k] = Promise!Content(k)'
  BY <1>1 DEF SegmentsInv, SegmentsExact
<1>2. /\ file \in Files /\ source \in Nat /\ source' \in Nat
      /\ k \in Kinds /\ DOMAIN video = Kinds
  BY <1>1, FileNat DEF HeaderInv, TypeOK, Kinds
<1>3. ASSUME file' = file, video'[k] = video[k], source' >= source
      PROVE  /\ Promise!Need(k)' =< source'
             /\ video'[k] = Promise!Content(k)'
  <2>1. Promise!Need(k)' = Promise!Need(k)
    BY <1>3 DEF Promise!Need, Promise!IFrameAt, Promise!AlternateAt,
         Promise!RestAt, Promise!FileSize, Promise!MiscAt
  <2>2. Promise!Content(k)' = Promise!Content(k)
    BY <1>3 DEF Promise!Content, Promise!Header, Promise!Misc,
         Promise!IFrame
  <2>3. Promise!Need(k) =< source /\ video[k] = Promise!Content(k)
    BY <1>3 DEF SegmentsInv, SegmentsExact
  <2>4. Promise!Need(k) \in Int
    BY <1>2, FileNat, PacketAssumption
       DEF Promise!Need, Promise!IFrameAt, Promise!AlternateAt,
           Promise!RestAt, Promise!FileSize, Promise!MiscAt, Promise!Whole,
           Whole
  <2> QED  BY <1>2, <1>3, <2>1, <2>2, <2>3, <2>4
<1>4. ASSUME NEW n \in AddSizes, Add(n)
      PROVE  file' = file /\ video'[k] = video[k] /\ source' >= source
  BY <1>2, <1>4, DecoderAssumption DEF Add
<1>5. ASSUME NEW call \in Calls, OverrunHeader(call) \/ OverrunCopy(call)
      PROVE  file' = file /\ video'[k] = video[k] /\ source' >= source
  BY <1>2, <1>5 DEF OverrunHeader, OverrunCopy
<1>6. ASSUME NEW call \in Calls, Generate(call)
      PROVE  /\ Promise!Need(k)' =< source'
             /\ video'[k] = Promise!Content(k)'
  <2>1. file' = file /\ source' = source  BY <1>6 DEF Generate
  <2>2. CASE video'[k] = video[k]
    BY <1>2, <1>3, <2>1, <2>2
  <2>3. CASE video'[k] # video[k]
    <3>1. PICK j \in Kinds : Build(call, header', j)
      BY <1>6, <2>3 DEF Generate, Replay, Refuse
    <3>2. j = k  BY <1>2, <2>3, <3>1 DEF Build
    <3>3. /\ video'[k] = Built(k, header') /\ Copies(k, header')
          /\ header'.ok
      BY <1>2, <3>1, <3>2 DEF Build, Chosen, Served
    <3>4. Exact(header')
      BY <1>1, <2>1 DEF HeaderInv, HeaderExact, Exact
    <3>5. /\ Built(k, header') = Promise!Content(k)
          /\ Reach(k, header') = Promise!Need(k)
      BY <1>2, <3>3, <3>4, BuiltExact
    <3>6. /\ Promise!Content(k)' = Promise!Content(k)
          /\ Promise!Need(k)' = Promise!Need(k)
      BY <2>1 DEF Promise!Content, Promise!Header, Promise!Misc,
           Promise!IFrame, Promise!Need, Promise!IFrameAt,
           Promise!AlternateAt, Promise!RestAt, Promise!FileSize,
           Promise!MiscAt
    <3> QED  BY <2>1, <3>3, <3>5, <3>6 DEF Copies
  <2> QED  BY <2>2, <2>3
<1>7. CASE UNCHANGED vars
  BY <1>2, <1>3, <1>7 DEF vars
<1> QED  BY <1>3, <1>4, <1>5, <1>6, <1>7 DEF Next, Call

\* A segment without video, with one I-frame or with the alternate video is
\* cut from the right places of bytes received, for every file and every way
\* to cut its download into chunks.
THEOREM SegmentsAreExact == SamePid /\ Spec => []SegmentsExact
<1>1. ASSUME SamePid PROVE Init => SegmentsInv
  <2>1. Init => SegmentsExact  BY DEF Init, SegmentsExact, Kinds, NoSegment
  <2> QED  BY <2>1, HeaderInvInit DEF SegmentsInv
<1>2. SegmentsInv => SegmentsExact  BY DEF SegmentsInv
<1>3. SamePid => (Init => SegmentsInv)  BY <1>1
<1>4. SamePid => (SegmentsInv /\ [Next]_vars => SegmentsInv')
  BY SegmentsInvNext
<1>5. SamePid => []SamePid
  OBVIOUS
<1> QED  BY <1>2, <1>3, <1>4, <1>5, PTL DEF Spec

-----------------------------------------------------------------------------
(* The complete download *)

\* A file with every field in its magic packet: one stream besides the video
\* at least, and an I-frame found in both videos.
FieldsStated == \A f \in Files : \A i \in Fields :
                  <<f.misc, f.keep, f.total, f.altKeep>>[i] # 0

\* Files whose length is an unsigned int.
FilesFit == \A f \in Files : FileSize(f) < WordMod

\* With the whole file there decodeHeader() succeeds, at the latest on the
\* call that asks.
LEMMA DecodesComplete ==
  ASSUME FilesFit, FieldsStated, HeaderInv, source = FileSize(file), NEW torn
  PROVE  Decoded(torn).ok
<1>1. file \in Files /\ header \in HeaderType
  BY DEF HeaderInv, TypeOK, HeaderType
<1>2. /\ file.hdr \in Nat /\ file.misc \in Nat /\ file.total \in Nat
      /\ file.rest \in Nat /\ Whole(file.keep) \in Nat
  BY <1>1, FileNat
<1>3. source >= file.hdr + PacketSize
  BY <1>2, PacketAssumption
     DEF FileSize, RestAt, AlternateAt, IFrameAt, MiscAt
<1>4. /\ TagEnd \in Nat /\ TagEnd < PacketSize
      /\ \A i \in Fields : FieldEnd[i] \in Nat /\ FieldEnd[i] < PacketSize
  BY TextAssumption, PacketAssumption DEF Fields
<1>5. source \in Nat
  BY <1>1, FileNat
<1>8. ScanLen = source
  BY <1>1, <1>5, PacketAssumption, ModSmall DEF FilesFit, ScanLen
<1>6. TagSeen /\ \A i \in Fields : LineRead(i)
  BY <1>2, <1>3, <1>4, <1>5, <1>8, PacketAssumption DEF TagSeen, LineRead
<1>7. Accepts(Parsed(torn))
  BY <1>1, <1>6 DEF Accepts, Parsed, Stated, FieldsStated
<1> QED  BY <1>6, <1>7 DEF Decoded

\* Then every one of the five functions has a segment to give.
LEMMA AllFit ==
  ASSUME FilesFit, file \in Files, source = FileSize(file), NEW h, h.ok,
         Exact(h), NEW k \in Kinds
  PROVE  Fits(k, h)
<1>1. /\ h.size = file.hdr /\ h.misc = file.misc
      /\ h.keep = file.keep /\ h.total = file.total
  BY DEF Exact
<1>2. /\ file.hdr \in Nat /\ file.misc \in Nat /\ file.total \in Nat
      /\ file.rest \in Nat /\ Whole(file.keep) \in Nat /\ source \in Nat
  BY FileNat
<1>3. /\ PacketSize \in Nat /\ WordMod \in Nat /\ SizeMod \in Nat
      /\ WordMod =< SizeMod
  BY PacketAssumption, DecoderAssumption
<1>4. /\ source = file.hdr + PacketSize + file.misc + Whole(file.keep)
                    + file.total + file.rest
      /\ source < WordMod
  BY <1>2 DEF FilesFit, FileSize, RestAt, AlternateAt, IFrameAt, MiscAt
<1>5. CASE k # "full"
  <2>1. k \in {"no", "single", "alternate"}  BY <1>5 DEF Kinds
  <2>2. Reach(k, h) =< source
    BY <1>1, <1>2, <1>3, <1>4, <2>1
       DEF Reach, RestFrom, AlternateFrom, IFrameFrom, MiscFrom
  <2>3. /\ Reach(k, h) = OutLen(k, h) + PacketSize
        /\ Reach(k, h) \in Nat
        /\ Fits(k, h) <=> Copies(k, h)
    BY <1>2, <1>3, <1>4, <2>1, <2>2, ChecksAreExact, ReachNat
  <2> QED  BY <2>2, <2>3 DEF Copies
<1>6. CASE k = "full"
  <2> DEFINE len == source - PacketSize - file.total
  <2>1. len \in Nat /\ len + PacketSize < SizeMod /\ len + PacketSize =< source
    BY <1>2, <1>3, <1>4
  <2>2. OutLen(k, h) = len % SizeMod  BY <1>1, <1>6 DEF OutLen
  <2> HIDE DEF len
  <2>3. len % SizeMod = len  BY <1>3, <2>1, ModSmall
  <2>4. (len + PacketSize) % SizeMod = len + PacketSize
    BY <1>3, <2>1, ModSmall
  <2> QED  BY <2>1, <2>2, <2>3, <2>4 DEF Fits
<1> QED  BY <1>5, <1>6

ServedInv == HeaderInv /\ ServedWhenComplete

LEMMA ServedInvNext ==
  ASSUME FilesFit, FieldsStated
  PROVE  ServedInv /\ [Next]_vars => ServedInv'
<1> SUFFICES ASSUME ServedInv, [Next]_vars PROVE ServedWhenComplete'
  BY HeaderInvNext DEF ServedInv
<1>1. HeaderInv /\ HeaderInv'  BY HeaderInvNext DEF ServedInv
<1>2. file \in Files /\ source \in Nat
  BY <1>1, FileNat DEF HeaderInv, TypeOK
<1>3. ASSUME NEW n \in AddSizes, Add(n) PROVE ServedWhenComplete'
  BY <1>3 DEF Add, ServedWhenComplete
<1>4. ASSUME NEW call \in Calls, Generate(call), source' = FileSize(file)'
      PROVE  reply'.got # NoSegment
  <2>1. file' = file /\ source' = source  BY <1>4 DEF Generate
  <2>2. source = FileSize(file)
    BY <1>4, <2>1 DEF FileSize, RestAt, AlternateAt, IFrameAt, MiscAt
  <2>3. PICK torn \in TornValues :
          /\ header' = Decoded(torn)
          /\ \/ \E k \in Kinds : Replay(call, header', k)
             \/ \E k \in Kinds : Build(call, header', k)
             \/ Refuse(call, header')
    BY <1>4 DEF Generate
  <2>4. header'.ok /\ Exact(header')
    BY <1>1, <2>1, <2>2, <2>3, DecodesComplete
       DEF HeaderInv, HeaderExact, Exact
  <2>5. \A k \in Kinds : Served(k, header')
    BY <1>2, <2>2, <2>4, AllFit DEF Served
  <2>6. ~Refuse(call, header')
    <3>1. /\ Tries(call)[1] \in Kinds /\ 1 \in DOMAIN Tries(call)
      BY DecoderAssumption DEF Tries, Kinds
    <3>2. Chosen(call, header', Tries(call)[1])
      BY <2>5, <3>1 DEF Chosen
    <3> QED  BY <3>1, <3>2 DEF Refuse
  <2>7. ASSUME NEW k \in Kinds, Replay(call, header', k)
        PROVE  reply'.got # NoSegment
    BY <2>7 DEF Replay
  <2>8. ASSUME NEW k \in Kinds, Build(call, header', k)
        PROVE  reply'.got # NoSegment
    <3>1. reply'.got = Built(k, header')  BY <2>8 DEF Build
    <3>2. Built(k, header') # NoSegment  BY DEF Built, NoSegment, Kinds
    <3> QED  BY <3>1, <3>2
  <2> QED  BY <2>3, <2>6, <2>7, <2>8
<1>5. ASSUME NEW call \in Calls, OverrunHeader(call) \/ OverrunCopy(call)
      PROVE  ServedWhenComplete'
  BY <1>5 DEF OverrunHeader, OverrunCopy, ServedInv, ServedWhenComplete,
     FileSize, RestAt, AlternateAt, IFrameAt, MiscAt
<1>6. CASE UNCHANGED vars
  BY <1>6 DEF vars, ServedInv, ServedWhenComplete,
     FileSize, RestAt, AlternateAt, IFrameAt, MiscAt
<1> QED  BY <1>3, <1>4, <1>5, <1>6 DEF Next, Call, ServedWhenComplete

\* When all of a file that states four sizes, and whose length is an unsigned
\* int, is there, no call comes back empty, however the download was cut into
\* chunks and whatever was asked before.
THEOREM AnswersComplete ==
  (FilesFit /\ FieldsStated) /\ Spec => []ServedWhenComplete
<1> DEFINE A == FilesFit /\ FieldsStated
<1>1. Init => ServedInv
  BY HeaderInvInit DEF Init, ServedInv, ServedWhenComplete
<1>2. A => (ServedInv /\ [Next]_vars => ServedInv')
  BY ServedInvNext
<1>3. ServedInv => ServedWhenComplete  BY DEF ServedInv
<1>4. A => []A
  OBVIOUS
<1> QED  BY <1>1, <1>2, <1>3, <1>4, PTL DEF Spec

-----------------------------------------------------------------------------
(* A loader that asks for the full and the best segment only when it has     *)
(* handed over the whole file                                                *)

LEMMA InTimeIsNext == [NextInTime]_vars => [Next]_vars
BY DEF NextInTime, Next, CallsInTime

LEMMA FullInTime ==
  ASSUME NEW call \in CallsInTime, NEW h, Chosen(call, h, "full")
  PROVE  source = FileSize(file)
BY DecoderAssumption DEF CallsInTime, Chosen, Tries

\* Then the rest is what is behind the alternate video.
LEMMA BuiltFull ==
  ASSUME file \in Files, source = FileSize(file), NEW h, h.ok, Exact(h)
  PROVE  /\ Built("full", h) = Promise!Content("full")
         /\ Copies("full", h) /\ Promise!Need("full") = source
<1>1. /\ h.size = file.hdr /\ h.misc = file.misc
      /\ h.keep = file.keep /\ h.total = file.total
  BY DEF Exact
<1>2. /\ file.hdr \in Nat /\ file.misc \in Nat /\ file.total \in Nat
      /\ file.rest \in Nat /\ Whole(file.keep) \in Nat /\ source \in Nat
      /\ PacketSize \in Nat
  BY FileNat, PacketAssumption
<1>3. /\ Promise!MiscAt(file) = MiscFrom(h)
      /\ Promise!IFrameAt(file) = IFrameFrom(h)
      /\ Promise!RestAt(file) = RestFrom(h)
      /\ Promise!Whole(file.keep) = Whole(h.keep)
      /\ Promise!FileSize(file) = FileSize(file)
  BY <1>1 DEF Promise!MiscAt, Promise!IFrameAt, Promise!AlternateAt,
       Promise!RestAt, Promise!Whole, MiscFrom, IFrameFrom, AlternateFrom,
       RestFrom, Whole, Promise!FileSize, FileSize, RestAt, AlternateAt,
       IFrameAt, MiscAt
<1>4. RestFrom(h) \in Nat /\ source = RestFrom(h) + file.rest
  BY <1>1, <1>2 DEF FileSize, RestAt, AlternateAt, IFrameAt, MiscAt, RestFrom,
     AlternateFrom, IFrameFrom, MiscFrom
<1>5. source - RestFrom(h) = file.rest /\ RestFrom(h) =< source
  BY <1>2, <1>4
<1>6. /\ Promise!Header = Slice(0, h.size, 0)
      /\ Promise!Misc = Slice(MiscFrom(h), h.misc, 0)
      /\ Promise!IFrame = Slice(IFrameFrom(h), Whole(h.keep), 0)
      /\ Promise!Slice(Promise!RestAt(file), file.rest, 0)
           = Slice(RestFrom(h), source - RestFrom(h), 0)
  BY <1>1, <1>3, <1>5 DEF Promise!Header, Promise!Misc, Promise!IFrame,
       Promise!Slice, Slice
<1>7. Promise!Content("full") =
        <<Promise!Header, Promise!Misc, Promise!IFrame,
          Promise!Slice(Promise!RestAt(file), file.rest, 0)>>
  BY DEF Promise!Content
<1>8. Built("full", h) =
        <<Slice(0, h.size, 0), Slice(MiscFrom(h), h.misc, 0),
          Slice(IFrameFrom(h), Whole(h.keep), 0),
          Slice(RestFrom(h), source - RestFrom(h), 0)>>
  BY DEF Built
<1>9. Promise!Need("full") = source
  BY <1>3 DEF Promise!Need
<1>10. Copies("full", h)
  BY <1>5 DEF Copies, Reach
<1> QED  BY <1>6, <1>7, <1>8, <1>9, <1>10

\* What any call in time builds.
LEMMA BuiltInTime ==
  ASSUME SamePid, HeaderInv, HeaderInv', UNCHANGED <<file, source>>,
         NEW call \in CallsInTime, NEW k \in Kinds, Build(call, header', k)
  PROVE  Built(k, header') = Promise!Content(k) /\ Promise!Need(k) =< source
<1>1. /\ file \in Files /\ source \in Nat
  BY FileNat DEF HeaderInv, TypeOK
<1>2. Chosen(call, header', k) /\ header'.ok /\ Copies(k, header')
  BY DEF Build, Chosen, Served
<1>3. Exact(header')
  BY DEF HeaderInv, HeaderExact, Exact
<1>4. CASE k = "full"
  BY <1>1, <1>2, <1>3, <1>4, FullInTime, BuiltFull
<1>5. CASE k # "full"
  <2>1. k \in {"no", "single", "alternate"}
    BY <1>5 DEF Kinds
  <2> QED  BY <1>1, <1>2, <1>3, <2>1, BuiltExact DEF Copies
<1> QED  BY <1>4, <1>5

\* Every step of the decoder is a step of BestEffort, or changes nothing the
\* promise is about.
LEMMA StepRefines ==
  ASSUME SamePid, HeaderInv, [NextInTime]_vars
  PROVE  [Promise!Next]_(Promise!vars)
<1>1. HeaderInv'  BY HeaderInvNext, InTimeIsNext
<1>2. /\ file \in Files /\ source \in Nat /\ DOMAIN video = Kinds
      /\ FileSize(file) \in Nat
  BY FileNat DEF HeaderInv, TypeOK
<1>3. Promise!FileSize(file) = FileSize(file)
  BY DEF Promise!FileSize, Promise!RestAt, Promise!AlternateAt,
     Promise!IFrameAt, Promise!MiscAt, Promise!Whole, FileSize, RestAt,
     AlternateAt, IFrameAt, MiscAt, Whole
<1>4. ASSUME NEW n \in AddSizes, Add(n) PROVE Promise!Receive
  BY <1>2, <1>3, <1>4, DecoderAssumption DEF Add, Promise!Receive
<1>5. ASSUME NEW call \in Calls, OverrunHeader(call) \/ OverrunCopy(call)
      PROVE  UNCHANGED Promise!vars
  BY <1>5 DEF OverrunHeader, OverrunCopy, Promise!vars
<1>6. ASSUME NEW call \in CallsInTime, Generate(call)
      PROVE  [Promise!Next]_(Promise!vars)
  <2>1. file' = file /\ source' = source  BY <1>6 DEF Generate
  <2>2. CASE UNCHANGED video
    BY <2>1, <2>2 DEF Promise!vars
  <2>3. CASE ~UNCHANGED video
    <3>1. PICK k \in Kinds : Build(call, header', k)
      BY <1>6, <2>3 DEF Generate, Replay, Refuse
    <3>2. video[k] = NoSegment
          /\ video' = [video EXCEPT ![k] = Built(k, header')]
      BY <3>1 DEF Build
    <3>3. Built(k, header') = Promise!Content(k) /\ Promise!Need(k) =< source
      BY <1>1, <2>1, <3>1, BuiltInTime
    <3>4. Promise!HandOut(k)
      BY <2>1, <3>2, <3>3 DEF Promise!HandOut, Promise!NoSegment, NoSegment
    <3> QED  BY <3>1, <3>4 DEF Promise!Next, Promise!Kinds, Kinds
  <2> QED  BY <2>2, <2>3
<1>7. CASE UNCHANGED vars
  BY <1>7 DEF vars, Promise!vars
<1> QED  BY <1>4, <1>5, <1>6, <1>7 DEF NextInTime, CallsInTime, Call, Promise!Next

\* For such a loader the decoder implements BestEffort: the right segment of
\* each kind, never too early, never changed.
THEOREM PromiseIsKept == SamePid /\ SpecInTime => PromiseKept
<1>1. Init => Promise!Init
  BY DEF Init, Promise!Init, Promise!Kinds, Kinds, Promise!NoSegment,
     NoSegment
<1>2. SamePid => (HeaderInv /\ [NextInTime]_vars => [Promise!Next]_(Promise!vars))
  BY StepRefines
<1>3. HeaderInv /\ [NextInTime]_vars => HeaderInv'
  BY HeaderInvNext, InTimeIsNext
<1>4. SamePid => []SamePid
  OBVIOUS
<1> QED  BY <1>1, <1>2, <1>3, <1>4, HeaderInvInit, PTL
         DEF SpecInTime, PromiseKept, Promise!Spec

\* The full segment is the whole one, and what the best call returned.
FullInv ==
  /\ HeaderInv
  /\ video["full"] # NoSegment =>
       source = FileSize(file) /\ video["full"] = Promise!Content("full")
  /\ reply.call = "best" => reply.got = Promise!Content("full")

LEMMA FullInvNext ==
  ASSUME SamePid, FilesFit, FieldsStated
  PROVE  FullInv /\ [NextInTime]_vars => FullInv'
<1> SUFFICES ASSUME FullInv, [NextInTime]_vars PROVE FullInv'  OBVIOUS
<1>1. HeaderInv /\ HeaderInv'
  BY HeaderInvNext, InTimeIsNext DEF FullInv
<1>2. /\ file \in Files /\ source \in Nat /\ FileSize(file) \in Nat
      /\ DOMAIN video = Kinds /\ "full" \in Kinds
  BY <1>1, FileNat DEF HeaderInv, TypeOK, Kinds
<1>3. ASSUME file' = file
      PROVE  FileSize(file)' = FileSize(file)
             /\ Promise!Content("full")' = Promise!Content("full")
  BY <1>3 DEF FileSize, RestAt, AlternateAt, IFrameAt, MiscAt, Promise!Content,
     Promise!Header, Promise!Misc, Promise!IFrame
<1>4. ASSUME NEW n \in AddSizes, Add(n) PROVE FullInv'
  <2>1. source + n =< FileSize(file) /\ n \in Nat \ {0}
    BY <1>4, DecoderAssumption DEF Add
  <2>2. video["full"] = NoSegment
    BY <1>2, <2>1 DEF FullInv
  <2> QED  BY <1>1, <1>4, <2>2 DEF Add, FullInv
<1>5. ASSUME NEW call \in CallsInTime, Generate(call) PROVE FullInv'
  <2>1. file' = file /\ source' = source  BY <1>5 DEF Generate
  <2>2. PICK torn \in TornValues :
          /\ header' = Decoded(torn)
          /\ \/ \E k \in Kinds : Replay(call, header', k)
             \/ \E k \in Kinds : Build(call, header', k)
             \/ Refuse(call, header')
    BY <1>5 DEF Generate
  <2>3. /\ video'["full"] # NoSegment =>
             source = FileSize(file) /\ video'["full"] = Promise!Content("full")
    <3>1. CASE video'["full"] = video["full"]
      BY <3>1 DEF FullInv
    <3>2. CASE video'["full"] # video["full"]
      <4>1. PICK k \in Kinds : Build(call, header', k)
        BY <2>2, <3>2 DEF Replay, Refuse
      <4>2. k = "full"
        BY <1>2, <3>2, <4>1 DEF Build
      <4>3. video'["full"] = Built("full", header') /\ Chosen(call, header', "full")
        BY <1>2, <4>1, <4>2 DEF Build
      <4> QED  BY <1>1, <2>1, <4>1, <4>2, <4>3, BuiltInTime, FullInTime
    <3> QED  BY <3>1, <3>2
  <2>4. ASSUME call = "best" PROVE reply'.got = Promise!Content("full")
    <3>1. source = FileSize(file)
      BY <2>4 DEF CallsInTime
    <3>2. header'.ok /\ Exact(header')
      BY <1>1, <2>1, <2>2, <3>1, DecodesComplete
         DEF HeaderInv, HeaderExact, Exact
    <3>3. Served("full", header')
      BY <1>2, <3>1, <3>2, AllFit DEF Served
    <3>4. Tries(call)[1] = "full" /\ DOMAIN Tries(call) = 1..4
      BY <2>4 DEF Tries
    <3>5. Chosen(call, header', "full")
      <4>1. \A j \in 1..(1 - 1) : FALSE
        OBVIOUS
      <4> QED  BY <3>3, <3>4, <4>1 DEF Chosen
    <3>6. ASSUME NEW k \in Kinds, Chosen(call, header', k) PROVE k = "full"
      <4>1. PICK i \in 1..4 :
              /\ k = Tries(call)[i]
              /\ \A j \in 1..(i - 1) : ~Served(Tries(call)[j], header')
        BY <3>4, <3>6 DEF Chosen
      <4>2. i = 1
        BY <3>3, <3>4, <4>1
      <4> QED  BY <3>4, <4>1, <4>2
    <3>7. ~Refuse(call, header')
      BY <1>2, <3>5 DEF Refuse
    <3>8. ASSUME NEW k \in Kinds, Replay(call, header', k)
          PROVE  reply'.got = Promise!Content("full")
      <4>1. k = "full" /\ video[k] # NoSegment /\ reply'.got = video[k]
        BY <3>6, <3>8 DEF Replay
      <4> QED  BY <4>1 DEF FullInv
    <3>9. ASSUME NEW k \in Kinds, Build(call, header', k)
          PROVE  reply'.got = Promise!Content("full")
      <4>1. k = "full" /\ reply'.got = Built(k, header')
        BY <3>6, <3>9 DEF Build
      <4> QED  BY <1>1, <2>1, <3>9, <4>1, BuiltInTime
    <3> QED  BY <2>2, <3>7, <3>8, <3>9
  <2>5. reply'.call = call
    BY <2>2 DEF Replay, Build, Refuse
  <2> QED  BY <1>1, <1>3, <2>1, <2>3, <2>4, <2>5 DEF FullInv
<1>6. ASSUME NEW call \in Calls, OverrunHeader(call) \/ OverrunCopy(call)
      PROVE  FullInv'
  BY <1>1, <1>3, <1>6 DEF OverrunHeader, OverrunCopy, FullInv
<1>7. CASE UNCHANGED vars
  BY <1>1, <1>3, <1>7 DEF vars, FullInv
<1> QED  BY <1>4, <1>5, <1>6, <1>7 DEF NextInTime, CallsInTime, Call

\* The best segment of a complete file with its fields is the original one,
\* whatever was asked for and served before (generateBestVideo).
THEOREM BestIsFull ==
  (SamePid /\ FilesFit /\ FieldsStated) /\ SpecInTime => []BestServesFull
<1> DEFINE A == SamePid /\ FilesFit /\ FieldsStated
<1>1. Init => FullInv
  BY HeaderInvInit DEF Init, FullInv, Kinds, NoSegment
<1>2. A => (FullInv /\ [NextInTime]_vars => FullInv')
  BY FullInvNext
<1>3. FullInv => BestServesFull
  BY DEF FullInv, BestServesFull
<1>4. A => []A
  OBVIOUS
<1> QED  BY <1>1, <1>2, <1>3, <1>4, PTL DEF SpecInTime

-----------------------------------------------------------------------------
(* Whole packets received *)

LEMMA Multiple ==
  ASSUME NEW a \in Nat, a % PacketSize = 0
  PROVE  \E q \in Nat : a = PacketSize * q
<1>1. a \div PacketSize \in Nat  BY PacketAssumption
<1>2. a = PacketSize * (a \div PacketSize)  BY PacketAssumption
<1> QED  BY <1>1, <1>2

\* The end of a packet is never inside another one.
LEMMA NoneBetween ==
  ASSUME NEW a \in Nat, a % PacketSize = 0, NEW b \in Nat, b % PacketSize = 0,
         a < b
  PROVE  a + PacketSize =< b
<1>1. PICK p \in Nat : a = PacketSize * p  BY Multiple
<1>2. PICK q \in Nat : b = PacketSize * q  BY Multiple
<1>3. PacketSize \in Nat /\ PacketSize > 0  BY PacketAssumption
<1>4. p < q
  <2>1. CASE q =< p
    <3>1. PacketSize * q =< PacketSize * p  BY <1>3, <2>1
    <3> QED  BY <1>1, <1>2, <1>3, <3>1
  <2> QED  BY <2>1
<1>5. PICK d \in Nat : q = p + 1 + d
  <2>1. q - p - 1 \in Nat /\ q = p + 1 + (q - p - 1)  BY <1>4
  <2> QED  BY <2>1
<1>6. PacketSize * q = PacketSize * p + PacketSize + PacketSize * d
  BY <1>3, <1>5
<1>7. PacketSize * d \in Nat  BY <1>3
<1> QED  BY <1>1, <1>2, <1>3, <1>6, <1>7

SafeInv == HeaderInv /\ WholePacketsSafe

\* The header text is all there or not at all.
LEMMA NoTextCut ==
  ASSUME HeaderInv, source % PacketSize = 0
  PROVE  ~TextCut
<1>1. /\ file \in Files /\ source \in Nat
      /\ file.hdr \in Nat /\ file.hdr % PacketSize = 0
  BY FileNat, FilesAssumption DEF HeaderInv, TypeOK
<1>2. ASSUME NEW i \in Fields, LineCut(i) PROVE FALSE
  <2>1. /\ LineStart(i) \in Nat /\ FieldEnd[i] \in Nat
        /\ FieldEnd[i] < PacketSize /\ PacketSize \in Nat
    BY TextAssumption, PacketAssumption DEF LineStart, Fields
  <2>2. file.hdr < source /\ source < file.hdr + PacketSize
    BY <1>1, <1>2, <2>1 DEF LineCut, LineRead
  <2>3. file.hdr + PacketSize =< source
    BY <1>1, <2>2, NoneBetween
  <2> QED  BY <1>1, <2>1, <2>2, <2>3
<1> QED  BY <1>2 DEF TextCut

LEMMA SafeInvNext == SafeInv /\ [NextInTime]_vars => SafeInv'
<1> SUFFICES ASSUME SafeInv, [NextInTime]_vars,
                    source' % PacketSize = 0, RestAt(file') < WordMod
             PROVE  NoFault'
  BY HeaderInvNext, InTimeIsNext DEF SafeInv, WholePacketsSafe
<1>1. HeaderInv /\ HeaderInv'  BY HeaderInvNext, InTimeIsNext DEF SafeInv
<1>2. file \in Files /\ source \in Nat
  BY <1>1, FileNat DEF HeaderInv, TypeOK
<1>3. ASSUME NEW n \in AddSizes, fault = "none", Add(n)
      PROVE  NoFault'
  BY <1>3 DEF Add, NoFault
<1>4. ASSUME NEW call \in Calls, fault = "none", Generate(call)
      PROVE  NoFault'
  BY <1>4 DEF Generate, NoFault
<1>5. ASSUME NEW call \in Calls, OverrunHeader(call) PROVE FALSE
  <2>1. source % PacketSize = 0  BY <1>5 DEF OverrunHeader
  <2> QED  BY <1>1, <1>5, <2>1, NoTextCut DEF OverrunHeader
<1>6. ASSUME NEW call \in CallsInTime, OverrunCopy(call) PROVE FALSE
  <2>1. PICK torn \in TornValues, k \in Kinds :
          /\ header' = Decoded(torn)
          /\ Chosen(call, header', k)
          /\ video[k] = NoSegment
          /\ ~Copies(k, header')
    BY <1>6 DEF OverrunCopy
  <2>2. header'.ok /\ Fits(k, header')
    BY <2>1 DEF Chosen, Served
  <2>3. Exact(header')
    BY <1>1, <2>1, DecodedExact DEF HeaderInv
  <2>4. file' = file /\ source' = source  BY <1>6 DEF OverrunCopy
  <2>5. CASE k = "full"
    BY <1>2, <2>1, <2>2, <2>3, <2>5, FullInTime, BuiltFull
  <2>6. CASE k # "full"
    <3>1. k \in {"no", "single", "alternate"}  BY <2>6 DEF Kinds
    <3>2. Reach(k, header') \in Nat /\ Reach(k, header') =< RestAt(file)
      BY <1>2, <2>2, <2>3, <2>4, <3>1, ReachNat
    <3>3. RestAt(file) < WordMod  BY <1>6 DEF OverrunCopy
    <3>4. RestAt(file) \in Nat
      BY <1>2, FileNat, PacketAssumption
         DEF RestAt, AlternateAt, IFrameAt, MiscAt
    <3>5. Reach(k, header') < WordMod
      BY <3>2, <3>3, <3>4, PacketAssumption
    <3> QED  BY <1>2, <2>1, <2>2, <2>3, <3>1, <3>5, ChecksAreExact
  <2> QED  BY <2>5, <2>6
<1>7. CASE UNCHANGED vars
  BY <1>7 DEF vars, SafeInv, WholePacketsSafe, NoFault
<1> QED  BY <1>3, <1>4, <1>5, <1>6, <1>7 DEF NextInTime, CallsInTime, Call

\* A loader that asks for the full and the best segment when all is there only
\* gets the process killed while a packet is cut by the end of the bytes
\* received, or by a file whose sizes add up to no unsigned int.
THEOREM WholePacketsAreSafe == SpecInTime => []WholePacketsSafe
<1>1. Init => SafeInv
  BY HeaderInvInit DEF Init, SafeInv, WholePacketsSafe, NoFault
<1>2. SafeInv /\ [NextInTime]_vars => SafeInv'
  BY SafeInvNext
<1>3. SafeInv => WholePacketsSafe  BY DEF SafeInv
<1> QED  BY <1>1, <1>2, <1>3, PTL DEF SpecInTime
=============================================================================
