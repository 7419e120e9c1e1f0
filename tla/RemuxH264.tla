------------------------------ MODULE RemuxH264 -----------------------------
(***************************************************************************)
(* RemuxH264StreamFrameBoundaryTask::run with Misc::pesScan: the packets   *)
(* of the video PID are gathered into PES packets, each PES is handed to   *)
(* pesCallback as soon as the next one begins, and pesCallback cuts the    *)
(* H.264 bytes into NALUs, every one of which becomes a PES of its own     *)
(* that starts a new transport packet.                                     *)
(*                                                                         *)
(* The H.264 bytes of all PES payloads, in order, are the sequence es;     *)
(* a vector that holds some of them is a range of positions in it.  A byte *)
(* is 0, 1, or 2 for any other value.  The packets es arrives in are       *)
(* chosen as pesScan reads them.  One step is one turn of a loop of the    *)
(* code, or the straight code between two loops.                           *)
(*                                                                         *)
(* Bounds: a stream starts with a PES header, and its H.264 bytes with a   *)
(* start code that is whole in the first packet, as in every segment of    *)
(* HTTP live streaming; video PES packets are unbounded (PES_packet_length *)
(* 0), and their headers end in their first transport packet.              *)
(***************************************************************************)
EXTENDS Integers, Sequences

CONSTANTS
  Streams,    \* the H.264 streams considered
  MaxPes,     \* bound: how many PES packets they come in
  Stamps,     \* the PTS a PES may carry
  NoPts       \* 0xFFFFFFFFFFFFFFFF: none

VARIABLES
  es,         \* the H.264 bytes of the stream
  pos,        \* how many of them pesScan has read
  heads,      \* history: where each PES read so far starts, and its PTS
  pes,        \* the PES being gathered: whether one is, the range of its
              \* payload and its PTS
  buffer,     \* m_buffer
  pts,        \* m_pts
  units,      \* the PES packets delivered to m_output
  pc

vars == <<es, pos, heads, pes, buffer, pts, units, pc>>

ASSUME StreamAssumption ==
  \A s \in Streams : /\ s \in Seq(0..2) /\ Len(s) >= 4
                     /\ s[1] = 0 /\ s[2] = 0
                     /\ s[3] = 1 \/ (s[3] = 0 /\ s[4] = 1)

ASSUME PtsAssumption == Stamps \subseteq Nat /\ NoPts \notin Nat

ASSUME BoundAssumption == MaxPes \in Nat \ {0}

Span(from, to) == [from |-> from, to |-> to]

-----------------------------------------------------------------------------
\* checkHeader() of the bytes from position p up to end.
Zeros(p, n) == \A q \in p..(p + n - 1) : es[q + 1] = 0
CheckLongHeader(p, end) == p + 4 =< end /\ Zeros(p, 3) /\ es[p + 4] = 1
CheckHeader(p, end) ==
  \/ p + 4 =< end /\ Zeros(p, 3) /\ es[p + 4] = 1
  \/ p + 3 =< end /\ Zeros(p, 2) /\ es[p + 3] = 1

\* Where deliverComplete() finds the NALU behind the first one in buffer b.
\* Its loop starts at 3, past the start code of the first NALU.
Second(b) ==
  {p \in (b.from + 3)..(b.to - 1) :
     /\ b.to - b.from >= 6
     /\ CheckHeader(p, b.to)
     /\ \A q \in (b.from + 3)..(p - 1) : ~CheckHeader(q, b.to)}

\* deliverComplete() finds nothing.
OneLeft(b) == \A q \in (b.from + 3)..(b.to - 3) : ~CheckHeader(q, b.to)

Unit(from, to) == [from |-> from, to |-> to, pts |-> pts]

\* deliverAll(): data() is NULL only while nothing was ever inserted.
UnitsAfterErase == units
UnitsAfterAnything == Append(units, Unit(buffer.from, buffer.to))
UnitsAfterAll ==
  IF buffer.to > 0 THEN Append(units, Unit(buffer.from, buffer.to)) ELSE units

\* What m_pts becomes when a NALU starts in the PES.
PesPts == pes.pts
NewPts == IF pes.pts = NoPts THEN pts ELSE pes.pts

-----------------------------------------------------------------------------
Init ==
  /\ es \in Streams
  /\ pos = 0
  /\ heads = <<>>
  /\ pes = [open |-> FALSE, from |-> 0, to |-> 0, pts |-> NoPts]
  /\ buffer = Span(0, 0)
  /\ pts = NoPts
  /\ units = <<>>
  /\ pc = "scan"

\* pesScan() appends a packet that continues the PES.
Gather ==
  /\ pc = "scan"
  /\ pes.open
  /\ pos' \in (pos + 1)..Len(es)
  /\ pes' = [pes EXCEPT !.to = pos']
  /\ UNCHANGED <<es, heads, buffer, pts, units, pc>>

\* A packet that starts a PES: the PES before it is complete.
Complete ==
  /\ pc = "scan"
  /\ pes.open
  /\ pos < Len(es)
  /\ Len(heads) < MaxPes
  /\ pc' = "drain"
  /\ UNCHANGED <<es, pos, heads, pes, buffer, pts, units>>

\* Behind the callback the vectors are cleared and the packet appended.  Its
\* PES header may leave no room for H.264 bytes, except in the first packet.
Begin(stamp) ==
  /\ pc = "begin" \/ (pc = "scan" /\ ~pes.open)
  /\ pos' \in pos..Len(es)
  /\ heads = <<>> => pos' >= 4
  /\ pes' = [open |-> TRUE, from |-> pos, to |-> pos', pts |-> stamp]
  /\ heads' = Append(heads, [at |-> pos, pts |-> stamp])
  /\ pc' = "scan"
  /\ UNCHANGED <<es, buffer, pts, units>>

\* pesScan() returns; run() calls pesCallback( NULL, NULL ).
EndWithoutFlush ==
  /\ pc = "scan"
  /\ pos = Len(es)
  /\ pc' = "done"
  /\ UNCHANGED <<es, pos, heads, pes, buffer, pts, units>>
EndOfScan ==
  /\ pc = "scan"
  /\ pos = Len(es)
  /\ pc' = "drainLast"
  /\ UNCHANGED <<es, pos, heads, pes, buffer, pts, units>>

\* One turn of a while ( deliverComplete() ) loop: the first NALU of the
\* buffer is delivered and erased from it.
Drain ==
  /\ pc \in {"drain", "drainAligned", "drainLast"}
  /\ \E p \in Second(buffer) :
       /\ units' = Append(units, Unit(buffer.from, p))
       /\ buffer' = Span(p, buffer.to)
  /\ UNCHANGED <<es, pos, heads, pes, pts, pc>>

\* The loop at the head of pesCallback ends, with a PES or without one, or the
\* loop at the end of its aligned branch.
DrainEnd ==
  /\ pc \in {"drain", "drainAligned", "drainLast"}
  /\ OneLeft(buffer)
  /\ pc' = [drain |-> "consume", drainAligned |-> "begin",
            drainLast |-> "flush"][pc]
  /\ UNCHANGED <<es, pos, heads, pes, buffer, pts, units>>

\* The PES starts with a start code: what is in the buffer was a whole NALU.
ConsumeAligned ==
  /\ pc = "consume"
  /\ CheckHeader(pes.from, pes.to)
  /\ units' = UnitsAfterAll
  /\ pts' = NewPts
  /\ buffer' = Span(pes.from, pes.to)
  /\ pc' = "drainAligned"
  /\ UNCHANGED <<es, pos, heads, pes>>

\* The PES continues a NALU.  At most one NALU is delivered, with the PTS it
\* started with; what follows it belongs to this PES.
ConsumeUnaligned ==
  /\ pc = "consume"
  /\ ~CheckHeader(pes.from, pes.to)
  /\ LET grown == Span(buffer.from, pes.to) IN
     \/ \E p \in Second(grown) :
          /\ units' = Append(units, Unit(buffer.from, p))
          /\ buffer' = Span(p, grown.to)
          /\ pts' = NewPts
     \/ /\ OneLeft(grown)
        /\ buffer' = grown
        /\ UNCHANGED <<units, pts>>
  /\ pc' = "begin"
  /\ UNCHANGED <<es, pos, heads, pes>>

\* deliverAll() at the end of the stream.
Flush ==
  /\ pc = "flush"
  /\ units' = UnitsAfterAll
  /\ buffer' = Span(buffer.to, buffer.to)
  /\ pc' = "done"
  /\ UNCHANGED <<es, pos, heads, pes, pts>>

Next ==
  \/ Gather \/ Complete \/ EndOfScan
  \/ \E stamp \in Stamps \cup {NoPts} : Begin(stamp)
  \/ Drain \/ DrainEnd
  \/ ConsumeAligned \/ ConsumeUnaligned
  \/ Flush

\* One thread runs the loops to their end.
Spec == Init /\ [][Next]_vars /\ WF_vars(Next)

-----------------------------------------------------------------------------
(* Properties *)

\* Types; a unit is never empty, and no range passes what was read.
TypeOK ==
  /\ es \in Streams
  /\ pos \in 0..Len(es)
  /\ pes.open \in BOOLEAN /\ pes.pts \in Stamps \cup {NoPts}
  /\ pes.from \in Nat /\ pes.to \in pes.from..pos
  /\ buffer.from \in Nat /\ buffer.to \in buffer.from..pos
  /\ pts \in Stamps \cup {NoPts}
  /\ units \in Seq([from: Nat, to: Nat, pts: Stamps \cup {NoPts}])
  /\ \A i \in 1..Len(units) : units[i].to > units[i].from
  /\ pc \in {"scan", "begin", "drain", "drainAligned", "drainLast", "consume",
             "flush", "done"}

\* No byte is lost or doubled on the way: the units delivered, the buffer and
\* the PES being gathered follow each other without a gap or an overlap
\* (Misc.cpp:16-28, RemuxH264StreamFrameBoundaryTask.cpp:181-183, 239-246).
NoByteLost ==
  /\ \A i \in 1..Len(units) :
       units[i].from = IF i = 1 THEN 0 ELSE units[i - 1].to
  /\ buffer.from = IF units = <<>> THEN 0 ELSE units[Len(units)].to
  /\ buffer.to = IF pc \in {"drainAligned", "begin"} THEN pes.to ELSE pes.from
  /\ pes.to = pos

Nalus == INSTANCE NaluSplit
  WITH bytes <- es, limit <- buffer.to,
       nalus <- [i \in 1..Len(units) |-> Span(units[i].from, units[i].to)]

\* Each unit is one NALU, the next one of the stream, however the stream was
\* cut into PES and transport packets, in the middle of start codes too
\* ("each NALU inside it's own PES stream",
\* RemuxH264StreamFrameBoundaryTask.hpp:9).
SplitsNalus == Nalus!Spec

\* The 01 that ends the start code of a unit: the unit starts in that PES.
OneOf(u) == IF es[u.from + 3] = 1 THEN u.from + 2 ELSE u.from + 3

\* The PTS of the PES that holds position p.
PtsAt(p) ==
  heads[CHOOSE i \in 1..Len(heads) :
          /\ heads[i].at =< p
          /\ \A j \in (i + 1)..Len(heads) : heads[j].at > p].pts

\* A unit is stamped with the PTS of the PES its start code ends in, and with
\* that of the unit before it when that PES has none, also when the unit is
\* delivered one or more PES later (lines 223-226, 239-250).  The last unit
\* may hold less than its start code; it has no PES of its own.
UnitPts ==
  \A i \in 1..Len(units) :
    LET own == PtsAt(OneOf(units[i])) IN
    OneOf(units[i]) < units[i].to =>
      units[i].pts = IF own # NoPts THEN own
                     ELSE IF i = 1 THEN NoPts ELSE units[i - 1].pts

\* The task ends, and then nothing it was handed is held back in its buffer
\* (lines 206-219, 254-259): with NoByteLost, all of it is in units.  What it
\* was handed is not the whole video: the PES that is gathered when the packets
\* end stays in pes, although Misc.hpp:17 has the callback invoked for each.
Ends == <>(pc = "done" /\ buffer.from = buffer.to)
=============================================================================
