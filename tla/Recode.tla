------------------------------- MODULE Recode -------------------------------
(***************************************************************************)
(* Process_Recode::run: a segment is loaded into a TS; a quality for the   *)
(* alternate video is searched for by trial encodings; the alternate video *)
(* is made and added to the TS under an unused PID; both videos are        *)
(* remuxed and the end of their first I-frame is looked for; and the       *)
(* output file is written.                                                 *)
(*                                                                         *)
(* RemuxH264StreamFrameBoundaryTask and FindIDRTask are the business of    *)
(* RemuxH264 and FindIDR; here a remuxed video is the sequence of its      *)
(* NALUs, with their types and how many packets each takes, and the result *)
(* of the scan is what FindIDR's CutsAtPacket says.  The encoder is an     *)
(* external library: how many packets it makes at a quality is a function  *)
(* chosen at the start, and each use of it may fail before it made any.    *)
(***************************************************************************)
EXTENDS NaluPackets, TransportStream

CONSTANTS
  WordMod,             \* 2^32, the range of an unsigned int
  Inputs,              \* the segments considered, sequences of PIDs
  PmtPid, VideoPid,    \* the PIDs the PAT and the PMT name
  SdtPid,              \* 17
  NullPid,             \* 8191, the PID of the magic packet
  LowestAlternate,     \* 256
  MaxQuality,          \* 51
  DefaultQuality,      \* 23
  Options,             \* values of m_opts.quality(), -1 for none
  Sizes,               \* packets per quality, the functions considered
  Videos, Alternates   \* what remuxing may leave of a video: sequences of
                       \* [type, packets]

ASSUME RecodeAssumption ==
  /\ WordMod \in Nat \ {0} /\ MaxQuality \in Nat \ {0}
  /\ {PmtPid, VideoPid, SdtPid, NullPid} \subseteq Pids \ {0}
  /\ VideoPid \notin {PmtPid, SdtPid} /\ PmtPid # SdtPid
  /\ LowestAlternate \in Nat /\ SdtPid < LowestAlternate
  /\ Inputs \subseteq Seq(Pids)
  /\ \A s \in Inputs : \E p \in Pids \ ToSet(s) : p >= LowestAlternate
  /\ Sizes \subseteq [0..MaxQuality -> Nat]
  /\ Videos \cup Alternates \subseteq Seq([type: Nat, packets: Nat])

VARIABLES
  sizes,               \* what the encoder makes of the video
  option,              \* m_opts.quality()
  ts,                  \* m_ts
  altPid,              \* m_alternate_pid, also the tpid of the search
  search,              \* lower, upper and mid of guessInputQuality
  guessed,             \* what it returned, or -1
  video, alternate,    \* the remuxed videos
  header,              \* the numbers in the magic packet
  disk,                \* the output file: what became of each packet sent to it,
                       \* in their order, or NoFile
  ret,                 \* what run() returns
  pc

vars == <<sizes, option, ts, altPid, search, guessed, video, alternate,
          header, disk, ret, pc>>

NoFile == <<"no file">>

\* Where a packet comes from; a packet of the file may be "torn" or "missing".
Makers == {"input", "trial", "alternate", "remux", "magic"}
PacketType == [pid: Pids, by: Makers, n: Nat]
StoreType == [all: Seq(PacketType), of: [Pids -> Seq(PacketType)]]

Packet(pid, by, n) == [pid |-> pid, by |-> by, n |-> n]
Packets(pid, by, count) == [n \in 1..count |-> Packet(pid, by, n)]

-----------------------------------------------------------------------------
Init ==
  /\ sizes \in Sizes
  /\ option \in Options
  /\ \E s \in Inputs :
       ts = AddedAll(EmptyStore,
                     [n \in 1..Len(s) |-> Packet(s[n], "input", n)])
  /\ altPid = 0
  /\ search = [lower |-> 0, upper |-> MaxQuality, mid |-> 0]
  /\ guessed = -1
  /\ video = <<>> /\ alternate = <<>>
  /\ header = [misc |-> 0, keep |-> 0, total |-> 0, altKeep |-> 0]
  /\ disk = NoFile
  /\ ret = 0
  /\ pc = "start"

\* Bad options (1) or a source that cannot be mapped (3).
CannotStart(code) ==
  /\ pc = "start"
  /\ ret' = code
  /\ pc' = "done"
  /\ UNCHANGED <<sizes, option, ts, altPid, search, guessed, video, alternate,
                 header, disk>>

\* findAndDecodePAT() or findAndDecodePMT() fails.
NoTables ==
  /\ pc = "start"
  /\ pc' = "done"
  /\ UNCHANGED <<sizes, option, ts, altPid, search, guessed, video, alternate,
                 header, disk, ret>>

\* Both found what they need; at least the first packet of each is there.
FindTables ==
  /\ pc = "start"
  /\ Size(ts, 0) > 0 /\ Size(ts, PmtPid) > 0
  /\ altPid' = UnusedPid(ts, LowestAlternate)
  /\ pc' = IF option = -1 THEN "encode" ELSE "make"
  /\ UNCHANGED <<sizes, option, ts, search, guessed, video, alternate, header,
                 disk, ret>>

-----------------------------------------------------------------------------
(* guessInputQuality() *)

\* One trial encoding.  Its PID is getUnusedPID( 256 ) too, and that still has
\* the answer run() got.  VideoDecoder::init() finds no format in a stream
\* without packets.
Encode ==
  /\ pc = "encode"
  /\ Size(ts, VideoPid) > 0
  /\ LET mid == search.lower + ((search.upper - search.lower) \div 2) IN
     /\ search' = [search EXCEPT !.mid = mid]
     /\ ts' = AddedAll(ts, Packets(altPid, "trial", sizes[mid]))
  /\ pc' = "compare"
  /\ UNCHANGED <<sizes, option, altPid, guessed, video, alternate, header,
                 disk, ret>>

EncodeFails ==
  /\ pc = "encode"
  /\ pc' = "make"
  /\ UNCHANGED <<sizes, option, ts, altPid, search, guessed, video, alternate,
                 header, disk, ret>>

\* The half of the range to go on with.
CompareAlways ==
  /\ pc = "compare"
  /\ search' = IF Size(ts, altPid) > Size(ts, VideoPid)
               THEN [search EXCEPT !.lower = search.mid]
               ELSE [search EXCEPT !.upper = search.mid]
  /\ ts' = Removed(ts, altPid)
  /\ pc' = "encode"
  /\ UNCHANGED <<sizes, option, altPid, guessed, video, alternate, header,
                 disk, ret>>
CompareSwapped ==
  /\ pc = "compare"
  /\ search.upper - search.lower > 1
  /\ search' = IF Size(ts, altPid) < Size(ts, VideoPid)
               THEN [search EXCEPT !.lower = search.mid]
               ELSE [search EXCEPT !.upper = search.mid]
  /\ ts' = Removed(ts, altPid)
  /\ pc' = "encode"
  /\ UNCHANGED <<sizes, option, altPid, guessed, video, alternate, header,
                 disk, ret>>
Compare ==
  /\ pc = "compare"
  /\ search.upper - search.lower > 1
  /\ search' = IF Size(ts, altPid) > Size(ts, VideoPid)
               THEN [search EXCEPT !.lower = search.mid]
               ELSE [search EXCEPT !.upper = search.mid]
  /\ ts' = Removed(ts, altPid)
  /\ pc' = "encode"
  /\ UNCHANGED <<sizes, option, altPid, guessed, video, alternate, header,
                 disk, ret>>

GuessedAtZero ==
  /\ pc = "compare"
  /\ search.upper = search.lower
  /\ guessed' = search.mid
  /\ ts' = Removed(ts, altPid)
  /\ pc' = "make"
  /\ UNCHANGED <<sizes, option, altPid, search, video, alternate, header,
                 disk, ret>>
GuessedKeepsTrial ==
  /\ pc = "compare"
  /\ search.upper - search.lower =< 1
  /\ guessed' = search.mid
  /\ pc' = "make"
  /\ UNCHANGED <<sizes, option, ts, altPid, search, video, alternate, header,
                 disk, ret>>
Guessed ==
  /\ pc = "compare"
  /\ search.upper - search.lower =< 1
  /\ guessed' = search.mid
  /\ ts' = Removed(ts, altPid)
  /\ pc' = "make"
  /\ UNCHANGED <<sizes, option, altPid, search, video, alternate, header,
                 disk, ret>>

-----------------------------------------------------------------------------
(* The alternate video and the two remuxed ones *)

\* run() passes m_opts.quality() on, and AlternateVideoTask replaces a
\* negative one with its default.
QualityUsed == IF option < 0 THEN DefaultQuality ELSE option

MakeAlternate(count) ==
  /\ pc = "make"
  /\ Size(ts, VideoPid) > 0
  /\ ts' = AddedAll(ts, Packets(altPid, "alternate", count))
  /\ pc' = "remux"
  /\ UNCHANGED <<sizes, option, altPid, search, guessed, video, alternate,
                 header, disk, ret>>

MakeFails ==
  /\ pc = "make"
  /\ ret' = 11
  /\ pc' = "done"
  /\ UNCHANGED <<sizes, option, ts, altPid, search, guessed, video, alternate,
                 header, disk>>

PacketsBefore(v, k) == SumOf([j \in DOMAIN v |-> v[j].packets], k - 1)

\* FindIDRTask::result(); pesScan() does not hand over the last NALU.
Result(v) ==
  LET end == IFrameEnd([k \in DOMAIN v |-> v[k].type]) IN
  IF end \in 1..(Len(v) - 1)
  THEN PacketsBefore(v, end) * PacketSize + TsHeader + PesHeader ELSE 0

Remuxed(pid, v) ==
  Replaced(ts, pid, Packets(pid, "remux", PacketsBefore(v, Len(v) + 1)))

RemuxVideo ==
  /\ pc = "remux"
  /\ video' \in Videos
  /\ ts' = Remuxed(VideoPid, video')
  /\ pc' = "remuxAlternate"
  /\ UNCHANGED <<sizes, option, altPid, search, guessed, alternate, header,
                 disk, ret>>

RemuxAlternate ==
  /\ pc = "remuxAlternate"
  /\ alternate' \in Alternates
  /\ ts' = Remuxed(altPid, alternate')
  /\ pc' = "strip"
  /\ UNCHANGED <<sizes, option, altPid, search, guessed, video, header, disk,
                 ret>>

StripSdt ==
  /\ pc = "strip"
  /\ ts' = Removed(ts, SdtPid)
  /\ pc' = "write"
  /\ UNCHANGED <<sizes, option, altPid, search, guessed, video, alternate,
                 header, disk, ret>>

-----------------------------------------------------------------------------
(* writeOutputFile() *)

\* One packet less than the result says, on unsigned ints.
Keep(v) == ((Result(v) \div PacketSize - 1) * PacketSize) % WordMod

IFramePackets == ((Keep(video) + PacketSize - 1) % WordMod) \div PacketSize

MagicPacket == Packet(NullPid, "magic", 0)

\* The loop over all PIDs: the streams that have no place of their own.
MiscContent ==
  FlattenSeq([j \in 1..(MaxPid + 1) |->
                IF j - 1 \in {0, PmtPid, VideoPid, altPid} THEN <<>>
                ELSE Written(ts, j - 1, 0, -1)])

\* What is sent to the file, in this order.
Content ==
  Written(ts, 0, 0, 1) \o Written(ts, PmtPid, 0, 1) \o <<MagicPacket>>
  \o MiscContent
  \o Written(ts, VideoPid, 0, IFramePackets)
  \o Written(ts, altPid, 0, -1)
  \o Written(ts, VideoPid, IFramePackets, -1)

StatedTotal == (Size(ts, altPid) * PacketSize) % WordMod
StatedMiscWithTables == ((Len(MiscContent) + 2) * PacketSize) % WordMod
StatedMisc == (Len(MiscContent) * PacketSize) % WordMod

\* Every packet is one write() of its own, which may take a part of it or
\* fail; nobody looks at what it returns, and the next packet is sent.
Outcomes == {"whole", "torn", "missing"}
Stored(packet, how) ==
  IF how = "whole" THEN packet ELSE [packet EXCEPT !.by = how]

\* The bytes written, in an unsigned int: 188 for every packet sent, but what
\* write() returned for the magic packet.  A torn packet counts as one byte.
MagicAt == Len(Written(ts, 0, 0, 1)) + Len(Written(ts, PmtPid, 0, 1)) + 1
Reported(took) ==
  ((Len(Content) - 1) * PacketSize
   + [whole |-> PacketSize, torn |-> 1, missing |-> -1][took[MagicAt]])
  % WordMod

\* run() takes that as an int and makes a positive one 0.
WriteOutput(took) ==
  /\ pc = "write"
  /\ header' = [misc |-> StatedMisc, keep |-> Keep(video),
                total |-> StatedTotal, altKeep |-> Keep(alternate)]
  /\ LET sent == Content IN
     disk' = [n \in DOMAIN sent |-> Stored(sent[n], took[n])]
  /\ LET bytes == Reported(took) IN
     ret' = IF bytes >= WordMod \div 2 THEN bytes - WordMod ELSE 0
  /\ pc' = "done"
  /\ UNCHANGED <<sizes, option, ts, altPid, search, guessed, video, alternate>>

\* The destination cannot be opened.
CannotOpen ==
  /\ pc = "write"
  /\ ret' = -2
  /\ pc' = "done"
  /\ UNCHANGED <<sizes, option, ts, altPid, search, guessed, video, alternate,
                 header, disk>>

\* Everything but writing the file.
Step ==
  \/ \E code \in {1, 3} : CannotStart(code)
  \/ NoTables \/ FindTables
  \/ Encode \/ EncodeFails \/ Compare \/ Guessed
  \/ \E count \in {1, 2} : MakeAlternate(count)
  \/ MakeFails
  \/ RemuxVideo \/ RemuxAlternate \/ StripSdt
  \/ CannotOpen

Next == Step \/ \E took \in [DOMAIN Content -> Outcomes] : WriteOutput(took)

\* One thread runs to the end.
Spec == Init /\ [][Next]_vars /\ WF_vars(Next)

-----------------------------------------------------------------------------
(* Properties *)

\* Types, and the one bound of the search: it stays inside its range.
TypeOK ==
  /\ option \in Options
  /\ ts \in StoreType
  /\ altPid \in Pids
  /\ search \in [lower: 0..MaxQuality, upper: 0..MaxQuality,
                 mid: 0..MaxQuality]
  /\ search.lower < search.upper
  /\ guessed \in -1..MaxQuality
  /\ \A f \in DOMAIN header : header[f] \in 0..(WordMod - 1)
  /\ ret \in {-2, 1, 3, 11} \cup -WordMod..0

\* The list of a PID holds the packets of that PID in the list of all packets,
\* in the same order, through every add, remove and replace: a packet left in
\* one list only is leaked, or used after it was deleted (TS.cpp:8-11, 85-107).
ListsAgree ==
  \A p \in Pids : ts.of[p] = OnPid(ts.all, p)

\* The search keeps the quality it returns between one that makes more than
\* the original and one that does not (lines 257-281), whatever the encoder
\* makes of each quality.
Bracketed ==
  pc \in {"encode", "compare", "make"} =>
    /\ search.lower = 0 \/ sizes[search.lower] > Size(ts, VideoPid)
    /\ search.upper = MaxQuality \/ sizes[search.upper] =< Size(ts, VideoPid)
    /\ guessed # -1 => guessed = search.lower /\ search.upper = guessed + 1

\* Only the alternate video is on its PID when it is remuxed: no trial
\* encoding, failed or not, is left there, and neither is a packet of the input.
AlternateAlone ==
  pc = "remux" => \A n \in 1..Size(ts, altPid) : ts.of[altPid][n].by = "alternate"

Layout == INSTANCE MyBeFile WITH Files <- {}

\* The file the numbers in the magic packet describe.
File == [hdr |-> 2 * PacketSize, misc |-> header.misc, keep |-> header.keep,
         total |-> header.total, altKeep |-> header.altKeep,
         rest |-> Size(ts, VideoPid) * PacketSize - Layout!Whole(header.keep),
         videoPid |-> VideoPid]

\* The disk took every packet.
AllTaken == \A n \in DOMAIN disk : disk[n].by \in Makers
Complete == pc = "done" /\ disk # NoFile /\ AllTaken

\* The packets in bytes from..to - 1 of the file.
Region(from, to) == SubSeq(disk, from \div PacketSize + 1, to \div PacketSize)

\* The file is the one its magic packet describes to the loader: where MyBeFile
\* puts a region are the packets m_ts has for it when the file is written, all
\* of them, in order, and none twice (Process_Recode.cpp:174-179, 207-238).
\* This is about regions and their numbers, not about all of the input: the
\* SDT is stripped before (334-337) and of PAT and PMT only the first packet is
\* written (208, 211).  Nor does it say that the region in front holds all of
\* the first I-frame: 158 makes it one packet less.  Not described at all are a
\* file with a packet the disk did not take, which goes unnoticed (TS.cpp:76),
\* one of 4 GB, and one whose first I-frame has no end or leaves the second
\* packet to the NALU behind it: then the number in 158 wraps around, or is 0,
\* which TS.cpp:72 takes for all packets.
FileAsStated ==
  /\ Complete
  /\ Result(video) >= 2 * PacketSize
  /\ Len(disk) * PacketSize < WordMod
  =>
    /\ File \in Layout!FileType
    /\ Len(disk) * PacketSize = Layout!FileSize(File)
    /\ Region(0, File.hdr) = <<ts.of[0][1], ts.of[PmtPid][1]>>
    /\ LET misc == Region(Layout!MiscAt(File), Layout!IFrameAt(File)) IN
       \A p \in Pids \ {0, PmtPid, VideoPid, altPid} :
         OnPid(misc, p) = ts.of[p]
    /\ Region(Layout!AlternateAt(File), Layout!RestAt(File)) = ts.of[altPid]
    /\ Region(Layout!IFrameAt(File), Layout!AlternateAt(File))
       \o Region(Layout!RestAt(File), Layout!FileSize(File)) = ts.of[VideoPid]

\* run() returns.
Ends == <>(pc = "done")
=============================================================================
