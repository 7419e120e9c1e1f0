----------------------------- MODULE RecodeInput -----------------------------
(***************************************************************************)
(* How Process_Recode::run gets at the video: Options::parse, the source   *)
(* file, findAndDecodePAT, findAndDecodePMT, and Misc::pesScan over the    *)
(* packets of the video PID, which the remuxer starts with.  Recode goes   *)
(* on from there (its CannotStart, NoTables and FindTables are what the    *)
(* first part comes to), and RemuxH264 looks into the H.264 bytes.         *)
(*                                                                         *)
(* An argument is a string; which strings are names of options, and what   *)
(* atoi() makes of the others, are constants.  A segment is a record of    *)
(* the first packets of its table PIDs.  The packets of the video are      *)
(* chosen as pesScan reads them, and cut PES packets as ISO/IEC 13818-1    *)
(* wants them cut: each starts a packet, and adaptation fields fill up.    *)
(***************************************************************************)
EXTENDS PacketPayload, Tables

CONSTANTS
  ArgLists,            \* the argument lists considered, without argv[0]
  Flags,               \* arguments that begin with '-' and no second '-'
  TooLong,             \* arguments longer than an option, or with "--"
  Atoi,                \* what atoi() makes of each argument
  Segments,            \* the segments considered
  Stamps,              \* the PTS a PES may carry, sets of bits, and none: {}
  Bodies,              \* payload bytes a PES may have
  Fields,              \* lengths of adaptation fields that are no stuffing
  MaxPes               \* bound: PES packets read

ASSUME InputAssumption ==
  /\ Stamps \subseteq SUBSET (0..32) /\ Stamps # {}
  /\ Bodies \subseteq Nat /\ Bodies # {}
  /\ Fields \subseteq 0..183
  /\ MaxPes \in Nat

ASSUME ArgumentsAssumption ==
  /\ ArgLists \subseteq Seq(STRING)
  /\ {"-h", "-s", "-d", "-i", "-f", "-q"} \subseteq Flags
  /\ Flags \cap TooLong = {}
  /\ \A list \in ArgLists : \A n \in DOMAIN list : Atoi[list[n]] \in Int

\* At most the first packet of the PAT, and those of the PIDs a PAT can name.
ASSUME SegmentsAssumption ==
  \A s \in Segments :
    /\ s.pat \in Seq(PacketWith(PatType))
    /\ DOMAIN s.pmts \subseteq Pid
    /\ \A pid \in DOMAIN s.pmts : s.pmts[pid] \in PacketWith(PmtType)

AvcVideo == 27

VARIABLES
  argv,                \* arguments not parsed yet, argv[0] not counted
  given,               \* history: all of them, until they are parsed
  opts,                \* m_opts
  rc,                  \* rc of Options::parse()
  segment,             \* the first packets of the table PIDs
  pmtPid, videoPid,    \* m_pmt_pid, m_video_pid
  count,               \* history: PES packets begun
  left,                \* bytes of the current PES that have not arrived
  pes,                 \* the PES being gathered: its header and how many bytes
  scanned,             \* the PES in the last callback, as it was and as read
  ret,                 \* what run() returns
  pc

optionVars == <<argv, given, opts, rc>>
tableVars == <<segment, pmtPid, videoPid>>
scanVars == <<count, left, pes, scanned>>
vars == <<optionVars, tableVars, scanVars, ret, pc>>

NoHeader == [id |-> 0]
NoSegment == [pat |-> <<>>, pmts |-> <<>>]

\* setDefault()
Defaults == [source |-> "input.ts", dest |-> "output.ts", save |-> FALSE,
             decode |-> FALSE, frames |-> -1, quality |-> -1]

Init ==
  /\ given \in ArgLists
  /\ argv = given
  /\ opts = Defaults
  /\ rc = 0
  /\ segment = NoSegment
  /\ pmtPid = 0 /\ videoPid = 0
  /\ count = 0 /\ left = 0
  /\ pes = [header |-> NoHeader, have |-> 0]
  /\ scanned = [header |-> NoHeader, have |-> 0, read |-> NoPayload]
  /\ ret = 0
  /\ pc = "parse"

-----------------------------------------------------------------------------
(* Options::parse().  Each action is one turn of the loop over argv. *)

Parsing == pc = "parse" /\ argv # <<>>

OutputName ==
  /\ Parsing
  /\ Head(argv) \notin Flags \cup TooLong /\ Len(argv) = 1
  /\ opts' = [opts EXCEPT !.dest = Head(argv)]
  /\ argv' = <<>>
  /\ UNCHANGED <<given, rc, tableVars, scanVars, ret, pc>>

\* A name that is not the last argument, or one that cannot be an option.
NotRecognized ==
  /\ Parsing
  /\ Head(argv) \in TooLong \/ (Head(argv) \notin Flags /\ Len(argv) > 1)
  /\ ret' = 1
  /\ pc' = "done"
  /\ UNCHANGED <<optionVars, tableVars, scanVars>>

Switch ==
  /\ Parsing
  /\ Head(argv) \in {"-s", "-d"}
  /\ opts' = IF Head(argv) = "-s" THEN [opts EXCEPT !.save = TRUE]
             ELSE [opts EXCEPT !.decode = TRUE]
  /\ argv' = Tail(argv)
  /\ UNCHANGED <<given, rc, tableVars, scanVars, ret, pc>>

TakesValue == {"-i", "-f", "-q"}
Known == TakesValue \cup {"-s", "-d"}

With(flag, value) ==
  CASE flag = "-i" -> [opts EXCEPT !.source = value]
    [] flag = "-f" -> [opts EXCEPT !.frames = Atoi[value]]
    [] flag = "-q" -> [opts EXCEPT !.quality = Atoi[value]]

\* The value is the next argument, whatever it looks like.  A bug of that
\* kind: it is not skipped.
ValueKept ==
  /\ Parsing
  /\ Head(argv) \in TakesValue /\ Len(argv) > 1
  /\ opts' = With(Head(argv), argv[2])
  /\ argv' = Tail(argv)
  /\ UNCHANGED <<given, rc, tableVars, scanVars, ret, pc>>
Value ==
  /\ Parsing
  /\ Head(argv) \in TakesValue /\ Len(argv) > 1
  /\ opts' = With(Head(argv), argv[2])
  /\ argv' = SubSeq(argv, 3, Len(argv))
  /\ UNCHANGED <<given, rc, tableVars, scanVars, ret, pc>>

\* argv[argc] is NULL, which neither std::string nor atoi() can take.
ValueMissing ==
  /\ Parsing
  /\ Head(argv) \in TakesValue /\ Len(argv) = 1
  /\ pc' = "killed"
  /\ UNCHANGED <<optionVars, tableVars, scanVars, ret>>

\* -h, and flags that are no options: the loop goes on.  A bug of that kind: it
\* goes on with the same argument.
HelpAgain ==
  /\ Parsing
  /\ Head(argv) \in Flags \ Known
  /\ rc' = -1
  /\ UNCHANGED <<argv, given, opts, tableVars, scanVars, ret, pc>>
HelpOrInvalid ==
  /\ Parsing
  /\ Head(argv) \in Flags \ Known
  /\ rc' = -1
  /\ argv' = Tail(argv)
  /\ UNCHANGED <<given, opts, tableVars, scanVars, ret, pc>>

Usage ==
  /\ pc = "parse" /\ argv = <<>> /\ rc # 0
  /\ ret' = 1
  /\ pc' = "done"
  /\ UNCHANGED <<optionVars, tableVars, scanVars>>

Parsed ==
  /\ pc = "parse" /\ argv = <<>> /\ rc = 0
  /\ pc' = "open"
  /\ UNCHANGED <<optionVars, tableVars, scanVars, ret>>

Options ==
  \/ OutputName \/ NotRecognized \/ Switch \/ Value \/ ValueMissing
  \/ HelpOrInvalid \/ Usage \/ Parsed

-----------------------------------------------------------------------------
(* openAndMap(), findAndDecodePAT(), findAndDecodePMT() *)

\* No such file, or an empty one, which mmap() refuses.
CannotMap ==
  /\ pc = "open"
  /\ ret' = 3
  /\ pc' = "done"
  /\ UNCHANGED <<optionVars, tableVars, scanVars>>

Load ==
  /\ pc = "open"
  /\ segment' \in Segments
  /\ given' = <<>>
  /\ pc' = "pat"
  /\ UNCHANGED <<argv, opts, rc, pmtPid, videoPid, scanVars, ret>>

GoOn(to) ==
  /\ pc' = to
  /\ UNCHANGED <<optionVars, segment, scanVars, ret>>

Pat == segment.pat[1]
HasPat == segment.pat # <<>> /\ Pat.pusi

FindPat ==
  /\ pc = "pat"
  /\ HasPat /\ Pat.section.ok /\ ~PatGarbled(Pat)
  /\ Len(PmtPids(Pat)) = 1
  /\ PmtPids(Pat)[1] \in DOMAIN segment.pmts
  /\ pmtPid' = PmtPids(Pat)[1]
  /\ UNCHANGED videoPid
  /\ GoOn("pmt")

NoPat ==
  /\ pc = "pat"
  /\ HasPat => /\ ~(Pat.section.ok /\ PatGarbled(Pat))
               /\ Pat.section.ok =>
                    \/ Len(PmtPids(Pat)) # 1
                    \/ PmtPids(Pat)[1] \notin DOMAIN segment.pmts
  /\ UNCHANGED <<pmtPid, videoPid>>
  /\ GoOn("done")

\* Bytes that are no entries are read: the process may be killed, and what they
\* look like decides what is found.
GarbledPat ==
  /\ pc = "pat"
  /\ HasPat /\ Pat.section.ok /\ PatGarbled(Pat)
  /\ UNCHANGED videoPid
  /\ \/ pmtPid' \in DOMAIN segment.pmts /\ GoOn("pmt")
     \/ \E to \in {"done", "killed"} : UNCHANGED pmtPid /\ GoOn(to)

Pmt == segment.pmts[pmtPid]
Videos == OfType(StreamsRead(Pmt), AvcVideo)

FindPmt ==
  /\ pc = "pmt"
  /\ Pmt.pusi /\ Pmt.section.ok /\ ~PmtGarbled(Pmt)
  /\ Len(Videos) = 1
  /\ videoPid' = Videos[1].pid
  /\ UNCHANGED pmtPid
  /\ GoOn("scan")

NoPmt ==
  /\ pc = "pmt"
  /\ Pmt.pusi => /\ ~(Pmt.section.ok /\ PmtGarbled(Pmt))
                 /\ Pmt.section.ok => Len(Videos) # 1
  /\ UNCHANGED <<pmtPid, videoPid>>
  /\ GoOn("done")

GarbledPmt ==
  /\ pc = "pmt"
  /\ Pmt.pusi /\ Pmt.section.ok /\ PmtGarbled(Pmt)
  /\ UNCHANGED pmtPid
  /\ \/ videoPid' \in {Pmt.section.streams[n].pid :
                         n \in DOMAIN Pmt.section.streams} \cup {8191}
        /\ GoOn("scan")
     \/ \E to \in {"done", "killed"} : UNCHANGED videoPid /\ GoOn(to)

TablesAndFile ==
  \/ CannotMap \/ Load \/ FindPat \/ NoPat \/ GarbledPat
  \/ FindPmt \/ NoPmt \/ GarbledPmt

-----------------------------------------------------------------------------
(* Misc::pesScan().  Each action is one turn of the loop over the packets. *)

\* A PES as it is sent: bounded or not, with a PTS or without one.
Header(bounded, stamp, stuffing, body) ==
  LET length == (IF stamp = {} THEN 0 ELSE 5) + stuffing IN
  [id |-> 224, headerLength |-> length, body |-> body, stamp |-> stamp,
   length |-> IF bounded THEN 3 + length + body ELSE 0,
   hasPts |-> stamp # {}, pts |-> IsoBytes(stamp)]
Headers == {Header(bounded, stamp, stuffing, body) :
              bounded \in BOOLEAN, stamp \in Stamps, stuffing \in {0, 3},
              body \in Bodies}

Total(h) == IF h = NoHeader THEN 0 ELSE 9 + h.headerLength + h.body

\* Payload bytes a packet carries, and the packets for up to n bytes: full, with
\* an adaptation field, with one that fills what n leaves empty, or with nothing
\* but such a field.
Carried(p) ==
  IF ~p.payload THEN 0
  ELSE IF p.adaptation THEN PacketSize - TsHeader - 1 - p.field
  ELSE PacketSize - TsHeader
PacketsFor(n) ==
  {p \in [payload: BOOLEAN, adaptation: BOOLEAN,
          field: Fields \cup ({183 - n} \cap Nat)] :
     Carried(p) =< n /\ (p.payload \/ p.adaptation)}

\* A packet with PUSI: the PES gathered goes to the callback and another is
\* begun.  A bug of that kind: pes is not cleared.
StartUncleared(p, h) ==
  /\ pc = "scan" /\ left = 0 /\ count < MaxPes
  /\ p.payload
  /\ scanned' = IF pes.have = 0 THEN scanned
                ELSE [header |-> pes.header, have |-> pes.have,
                      read |-> PES(pes.header, pes.have)]
  /\ pes' = [header |-> h, have |-> pes.have + PayloadLen(p)]
  /\ left' = Total(h) - Carried(p)
  /\ count' = count + 1
  /\ UNCHANGED <<optionVars, tableVars, ret, pc>>
StartPes(p, h) ==
  /\ pc = "scan" /\ left = 0 /\ count < MaxPes
  /\ p.payload
  /\ scanned' = IF pes.have = 0 THEN scanned
                ELSE [header |-> pes.header, have |-> pes.have,
                      read |-> PES(pes.header, pes.have)]
  /\ pes' = [header |-> h, have |-> PayloadLen(p)]
  /\ left' = Total(h) - Carried(p)
  /\ count' = count + 1
  /\ UNCHANGED <<optionVars, tableVars, ret, pc>>

ContinuePes(p) ==
  /\ pc = "scan" /\ left > 0
  /\ pes' = [pes EXCEPT !.have = @ + PayloadLen(p)]
  /\ left' = left - Carried(p)
  /\ UNCHANGED <<optionVars, tableVars, count, scanned, ret, pc>>

\* No packets are left, or the segment is cut off.  What pes holds is dropped.
EndOfScan ==
  /\ pc = "scan"
  /\ pc' = "done"
  /\ UNCHANGED <<optionVars, tableVars, scanVars, ret>>

Scan ==
  \/ \E h \in Headers : \E p \in PacketsFor(Total(h)) : StartPes(p, h)
  \/ \E p \in PacketsFor(left) : ContinuePes(p)
  \/ EndOfScan

Next == Options \/ TablesAndFile \/ Scan

\* One thread runs to the end.
Spec == Init /\ [][Next]_vars /\ WF_vars(Next)

-----------------------------------------------------------------------------
(* Properties *)

\* No more bytes are held than the largest PES has (Misc.cpp:22).
TypeOK ==
  /\ argv \in Seq(STRING)
  /\ rc \in {0, -1}
  /\ opts.frames \in Int /\ opts.quality \in Int
  /\ pmtPid \in Pid /\ videoPid \in Pid
  /\ count \in 0..MaxPes /\ left \in Nat /\ pes.have \in Nat
  /\ pes.header \in Headers \cup {NoHeader}
  /\ \E h \in Headers : pes.have =< Total(h)
  /\ ret \in {0, 1, 3}
  /\ pc \in {"parse", "open", "pat", "pmt", "scan", "done", "killed"}

\* Where the arguments are that are the value of the option before them.
Values ==
  LET values[n \in 0..Len(given)] ==
        IF n = 0 THEN {}
        ELSE IF n > 1 /\ given[n - 1] \in TakesValue /\ n - 1 \notin values[n - 1]
             THEN values[n - 1] \cup {n}
             ELSE values[n - 1]
  IN  values[Len(given)]
Plain == DOMAIN given \ Values
Uses(flag) == {n \in Plain : given[n] = flag}
Latest(positions) == CHOOSE n \in positions : \A m \in positions : m =< n
ValueOf(flag) == given[Latest(Uses(flag)) + 1]

Understood ==
  \A n \in Plain :
    \/ given[n] \in Known
    \/ n = Len(given) /\ given[n] \notin Flags \cup TooLong
Missing == Len(given) \in Plain /\ given[Len(given)] \in TakesValue
Meant ==
  [source  |-> IF Uses("-i") = {} THEN "input.ts" ELSE ValueOf("-i"),
   dest    |-> IF Len(given) \in Plain /\ given[Len(given)] \notin Known
               THEN given[Len(given)] ELSE "output.ts",
   save    |-> Uses("-s") # {},
   decode  |-> Uses("-d") # {},
   frames  |-> IF Uses("-f") = {} THEN -1 ELSE Atoi[ValueOf("-f")],
   quality |-> IF Uses("-q") = {} THEN -1 ELSE Atoi[ValueOf("-q")]]

\* A command line is accepted if every argument is an option, the value of the
\* one before it or, in the last place, the output name; then the options are
\* the ones given last.  The process dies only if a value is missing (lines
\* 18-71).
OptionsMeant ==
  /\ pc = "open" => Understood /\ ~Missing /\ opts = Meant
  /\ pc = "done" /\ ret = 1 => ~Understood
  /\ pc = "killed" /\ segment = NoSegment => Missing

\* What the tables say: their lengths lead from entry to entry to the CRC, and
\* no stream has the PID of the PAT.
PatConforms(p) ==
  p.section.length = 5 + 4 * Len(p.section.programs) + Crc
PmtConforms(p) ==
  /\ p.section.length =
       9 + p.section.info + Crc
         + SumOf(Entries(p.section), Len(p.section.streams))
  /\ \A n \in DOMAIN p.section.streams : p.section.streams[n].pid # 0
TablesConform ==
  /\ segment.pat # <<>> /\ Pat.pusi /\ Pat.section.ok /\ Inside(Pat)
  /\ PatConforms(Pat)
  /\ \A pid \in DOMAIN segment.pmts :
       LET p == segment.pmts[pid] IN
       p.pusi /\ p.section.ok /\ Inside(p) /\ PmtConforms(p)

Programs == Pat.section.programs
PmtIsThere == Len(Programs) = 1 /\ Programs[1].pid \in DOMAIN segment.pmts
NamesOne(streams) ==
  \E n \in DOMAIN streams :
    \A m \in DOMAIN streams : (streams[m].type = AvcVideo) <=> m = n
VideoIsThere ==
  PmtIsThere /\ NamesOne(segment.pmts[Programs[1].pid].section.streams)
\* The video of the program.
IsTheVideo(pid) ==
  \E n \in DOMAIN Pmt.section.streams :
    Pmt.section.streams[n].type = AvcVideo /\ Pmt.section.streams[n].pid = pid

\* With tables that conform the video is found exactly if there is one program
\* entry, its PMT is there and names one AVC stream, and it is that stream: the
\* loops end at the CRC and skip every descriptor (PAT.cpp:28-45, PMT.cpp:33-69).
TablesFound ==
  TablesConform /\ ret = 0 =>
    /\ pc = "scan" =>
         VideoIsThere /\ pmtPid = Programs[1].pid /\ IsTheVideo(videoPid)
    /\ pc = "done" => (videoPid # 0 <=> VideoIsThere)
    /\ pc # "killed"

\* What pesScan gathered and what has not arrived make up the PES, whatever
\* adaptation fields its packets have (Misc.cpp:26-28, TSPacket.cpp:77-84).
Gathered == pes.have + left = Total(pes.header)

\* A callback is given the payload from its first byte on, whatever comes before
\* it in the header; of an unbounded PES it is given all of it and nothing else
\* (PES.cpp:86-92).
UnboundedWhole ==
  LET h == scanned.header
      r == scanned.read
  IN  h # NoHeader => /\ r.at + h.body = scanned.have
                      /\ h.length = 0 => r.len = h.body

\* "Return payload.", with the "payload size if known" (PES.hpp:61-62): what the
\* callback of any PES is given lies inside the bytes gathered and ends with them.
PayloadWhole ==
  scanned.header # NoHeader => scanned.read.at + scanned.read.len = scanned.have

\* The PTS a player finds in the header the remuxer writes for this PES.
Rewritten == IsoStamp(ToBytes(scanned.read.pts))

\* Both ends of the time stamps disagree with ISO/IEC 13818-1 on where bits 22
\* to 29 are, and agree with each other: what is written is less than 2^16
\* ticks from what was read, for stamps below 2^29 (Misc.cpp:37-51, 66-76).
StampNear ==
  scanned.header # NoHeader /\ scanned.header.stamp \subseteq 0..28 =>
    \A b \in 0..6 \cup 16..32 :
      b \in Rewritten <=> b \in scanned.header.stamp

\* "Decode mpeg timestamp field from the given bytes" (Misc.hpp:31): the PTS
\* that goes into the remuxed video is the one that came with the PES.
StampKept ==
  scanned.header # NoHeader => Rewritten = scanned.header.stamp

\* run() gets through its loops.
Ends == <>(pc \in {"done", "killed"})
=============================================================================
