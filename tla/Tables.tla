------------------------------- MODULE Tables -------------------------------
(***************************************************************************)
(* PAT and PMT: the sections that name the program's PMT and its streams.  *)
(* A section is a record: whether the fixed fields are those of a table    *)
(* of its kind in a single section (ok), its section_length and its        *)
(* entries.  The entries of a PAT are programs [number, pid], those of a   *)
(* PMT streams [type, pid, info] with the length of their descriptors, and *)
(* info is the length of the program's descriptors.  A table packet is the *)
(* first packet of its PID: pusi, the length of its payload (room), the    *)
(* pointer field and the section.                                          *)
(*                                                                         *)
(* The parsers look at no length but the one in the section.  When that    *)
(* does not lead them from entry to entry to the end, or out of the        *)
(* payload, they read bytes that are no entries: Garbled.                  *)
(***************************************************************************)
EXTENDS Integers, Sequences, SequencesExt, SequenceLoops

Pid == 0..8191
ProgramType == [number: Nat, pid: Pid]
StreamType == [type: Nat, pid: Pid, info: Nat]
PatType == [ok: BOOLEAN, length: Nat, programs: Seq(ProgramType)]
PmtType == [ok: BOOLEAN, length: Nat, info: Nat, streams: Seq(StreamType)]
PacketWith(sections) ==
  [pusi: BOOLEAN, room: Nat, pointer: Nat, section: sections]

SectionHeader == 3
Crc == 4

\* The pointer field, and what is read of the section, end inside the payload.
Inside(p) ==
  1 + p.pointer + SectionHeader + p.section.length - Crc =< p.room

\* PAT::PAT, len behind the header: of a size_t, below 0 it is huge.
PatBytes(section) == section.length - Crc - 5

ProgramsRead(section) == PatBytes(section) \div 4

PatGarbled(p) ==
  \/ ~Inside(p) \/ PatBytes(p.section) < 0
  \/ ProgramsRead(p.section) > Len(p.section.programs)

PmtPids(p) == [n \in 1..ProgramsRead(p.section) |-> p.section.programs[n].pid]

-----------------------------------------------------------------------------
\* Bytes each entry of a PMT takes.
Entries(section) ==
  [n \in DOMAIN section.streams |-> 5 + section.streams[n].info]

\* PMT::PMT, len behind the first k streams.  A bug of that kind: descriptors
\* of streams are not skipped.
PmtBytesBehindFixed(section, k) ==
  section.length - Crc - 5 - 4 - section.info - 5 * k
PmtBytes(section, k) ==
  section.length - Crc - 5 - 4 - section.info - SumOf(Entries(section), k)

\* The loop ends behind stream k.
EndsBehind(section, k) ==
  /\ PmtBytes(section, k) \in 0..4
  /\ \A j \in 0..(k - 1) : PmtBytes(section, j) >= 5

StreamCounts(section) == {k \in 0..Len(section.streams) : EndsBehind(section, k)}

PmtGarbled(p) == ~Inside(p) \/ StreamCounts(p.section) = {}

StreamsRead(p) ==
  SubSeq(p.section.streams, 1, CHOOSE k \in StreamCounts(p.section) : TRUE)

\* streamsOfType(), and the streams getPidFirstOfType() takes the first of.
OfType(streams, type) ==
  Only(streams, {s \in ToSet(streams) : s.type = type})
=============================================================================
