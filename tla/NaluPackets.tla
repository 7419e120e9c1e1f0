---------------------------- MODULE NaluPackets ----------------------------
(***************************************************************************)
(* A video stream as RemuxH264StreamFrameBoundaryTask leaves it: every     *)
(* NALU is the payload of a PES of its own, and every PES starts a new     *)
(* transport packet.  A NALU is the sequence of its bytes; a byte is 0, 1, *)
(* 5 for any other byte whose low five bits are 5, or 9 for the rest.      *)
(* Positions count bytes of the packets of the stream from 0.              *)
(***************************************************************************)
EXTENDS Integers, Sequences, SequenceLoops

CONSTANTS
  PacketSize,    \* bytes of a transport packet: 188
  TsHeader,      \* bytes of its header without adaptation field: 4
  PesHeader      \* bytes of the header makeUnboundPESSegment writes: 14

ASSUME HeadersAssumption ==
  /\ PacketSize \in Nat /\ TsHeader \in Nat /\ PesHeader \in Nat
  /\ TsHeader + PesHeader + 4 =< PacketSize

\* Payload bytes of a packet without stuffing.
Room == PacketSize - TsHeader

\* deliver() fills packet after packet with the PES of a NALU of n bytes.
PacketsOf(n) == (PesHeader + n + Room - 1) \div Room

\* How many packets precede those of NALU k.
FirstPacket(nalus, k) ==
  SumOf([j \in DOMAIN nalus |-> PacketsOf(Len(nalus[j]))], k - 1)

\* Where byte j of the PES of NALU k is, its header included.  What does not
\* fill the last packet stands at the end of it, behind the stuffing.
PesPosition(nalus, k, j) ==
  LET packet == j \div Room
      left   == PesHeader + Len(nalus[k]) - packet * Room
      header == IF left >= Room THEN TsHeader ELSE PacketSize - left
  IN  (FirstPacket(nalus, k) + packet) * PacketSize + header + (j % Room)

-----------------------------------------------------------------------------
\* A NALU starts with 00 00 01 or 00 00 00 01 and has a header byte.
CodeAt(nalu)   == IF nalu[3] = 1 THEN 0 ELSE 1
NaluType(nalu) == nalu[CodeAt(nalu) + 4]

\* The NALUs behind the first run of IDR NALUs; 5 is the type of an IDR.
AfterIFrame(types) ==
  {k \in DOMAIN types : types[k] # 5 /\ \E j \in 1..(k - 1) : types[j] = 5}

\* The one the first I-frame ends at, 0 if there is none.
IFrameEnd(types) ==
  IF AfterIFrame(types) = {} THEN 0
  ELSE CHOOSE k \in AfterIFrame(types) : \A j \in AfterIFrame(types) : k =< j
=============================================================================
