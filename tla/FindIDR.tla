------------------------------ MODULE FindIDR ------------------------------
(***************************************************************************)
(* FindIDRTask::pes, fed by Misc::pesScan with the PES packets of a video  *)
(* stream that was remuxed before (Process_Recode.cpp:321-322, 329-330):   *)
(* a scanner that walks the H.264 bytes, PES after PES, and remembers      *)
(* where the first NALU behind the first I-frame starts.  It keeps its     *)
(* state from one PES to the next.  One step is one byte, or the next PES. *)
(*                                                                         *)
(* pesScan() never hands over the last PES of a stream.                    *)
(***************************************************************************)
EXTENDS NaluPackets

CONSTANT Videos        \* the streams considered, sequences of NALUs

VARIABLES
  nalus,               \* the stream
  k, i,                \* the PES in pes() and the byte its loop is at
  scanState,           \* m_scan_state
  pesState,            \* m_pes_state
  pointer,             \* m_pointer
  pointer2,            \* m_pointer2
  found                \* m_first_nalu_after_iframe

vars == <<nalus, k, i, scanState, pesState, pointer, pointer2, found>>

\* NALUs as NaluSplit gives them out: no start code but the one in front, and
\* no zero at the end that would make the start code behind it longer, unless
\* a PES of the input ended there.
ASSUME VideosAssumption ==
  /\ Videos \subseteq Seq(Seq({0, 1, 5, 9})) \ {<<>>}
  /\ \A v \in Videos : \A n \in DOMAIN v :
       /\ Len(v[n]) >= 4 + CodeAt(v[n])
       /\ \A p \in 1..(2 + CodeAt(v[n])) : v[n][p] = 0
       /\ v[n][3 + CodeAt(v[n])] = 1
       /\ \A p \in (CodeAt(v[n]) + 2)..(Len(v[n]) - 2) :
            ~(v[n][p] = 0 /\ v[n][p + 1] = 0 /\ v[n][p + 2] = 1)

-----------------------------------------------------------------------------
Byte == nalus[k][i + 1]

MapOfHeader == PesPosition(nalus, k, i)

\* PES::map(): m_map has an entry for every byte of the PES, its header
\* included, and is indexed with an offset into the payload.
Map == PesPosition(nalus, k, i) + PesHeader

Scanning == found = 0 /\ k < Len(nalus) /\ i < Len(nalus[k])

Init ==
  /\ nalus \in Videos
  /\ k = 1 /\ i = 0
  /\ scanState = 0 /\ pesState = 0
  /\ pointer = 0 /\ pointer2 = 0
  /\ found = 0

\* The next byte takes the scanner from one state to another.
Turn(from, to) ==
  /\ Scanning
  /\ pesState \in from
  /\ pesState' = to
  /\ i' = i + 1
  /\ UNCHANGED <<nalus, k>>

FirstZero ==
  /\ Turn({0}, 1)
  /\ Byte = 0
  /\ pointer' = Map
  /\ UNCHANGED <<pointer2, scanState, found>>

SecondZero ==
  /\ Turn({1}, 2)
  /\ Byte = 0
  /\ pointer2' = Map
  /\ UNCHANGED <<pointer, scanState, found>>

\* The code may start one byte later.
MoreZeroStay ==
  /\ Turn({2}, 2)
  /\ Byte = 0
  /\ UNCHANGED <<pointer, pointer2, scanState, found>>
MoreZero ==
  /\ Turn({2}, 2)
  /\ Byte = 0
  /\ pointer' = pointer2
  /\ pointer2' = Map
  /\ UNCHANGED <<scanState, found>>

One ==
  /\ Turn({2}, 3)
  /\ Byte = 1
  /\ UNCHANGED <<pointer, pointer2, scanState, found>>

NoCode ==
  /\ Turn({0, 1, 2}, 0)
  /\ Byte # 0
  /\ pesState = 2 => Byte # 1
  /\ UNCHANGED <<pointer, pointer2, scanState, found>>

\* The byte behind the start code.  Scanner states 2 and 3 of the code are
\* only entered once there is a result.
BeforeIdr ==
  /\ Turn({3}, 0)
  /\ scanState = 0 /\ Byte # 5
  /\ UNCHANGED <<pointer, pointer2, scanState, found>>

Idr ==
  /\ Turn({3}, 0)
  /\ Byte = 5
  /\ scanState' = 1
  /\ UNCHANGED <<pointer, pointer2, found>>

AfterIdr ==
  /\ Turn({3}, 0)
  /\ scanState = 1 /\ Byte # 5
  /\ scanState' = 2
  /\ found' = pointer
  /\ UNCHANGED <<pointer, pointer2>>

NextPesKeepsByte ==
  /\ k < Len(nalus)
  /\ i = Len(nalus[k]) \/ found # 0
  /\ k' = k + 1
  /\ UNCHANGED <<nalus, i, scanState, pesState, pointer, pointer2, found>>

\* pesScan() goes on to the next PES; nothing of the scanner is reset.
NextPes ==
  /\ k < Len(nalus)
  /\ i = Len(nalus[k]) \/ found # 0
  /\ k' = k + 1
  /\ i' = 0
  /\ UNCHANGED <<nalus, scanState, pesState, pointer, pointer2, found>>

Next ==
  \/ FirstZero \/ SecondZero \/ MoreZero \/ One \/ NoCode
  \/ BeforeIdr \/ Idr \/ AfterIdr
  \/ NextPes

Spec == Init /\ [][Next]_vars

-----------------------------------------------------------------------------
(* Properties *)

TypeOK ==
  /\ nalus \in Seq(Seq({0, 1, 5, 9}))
  /\ k \in DOMAIN nalus /\ i \in 0..Len(nalus[k])
  /\ scanState \in 0..2 /\ pesState \in 0..3
  /\ pointer \in Nat /\ pointer2 \in Nat /\ found \in Nat

Types == [n \in DOMAIN nalus |-> NaluType(nalus[n])]
End   == IFrameEnd(Types)

\* Where the start code 00 00 01 of NALU n is.
CodePosition(n) == PesPosition(nalus, n, PesHeader + CodeAt(nalus[n]))

\* The result is the position of the start code of the NALU the first I-frame
\* ends at, whatever zeros precede it, in its own PES or at the end of the one
\* before (lines 46-96), and there is none as long as that NALU was not read.
FindsIFrameEnd ==
  /\ found # 0 => End # 0 /\ found = CodePosition(End)
  /\ k = Len(nalus) /\ End \in 1..(Len(nalus) - 1) => found # 0

\* Therefore the packet it is in is the one that NALU starts in: the packets
\* before it hold the I-frame and nothing behind it.
CutsAtPacket ==
  found # 0 => found \div PacketSize = FirstPacket(nalus, End)
=============================================================================
