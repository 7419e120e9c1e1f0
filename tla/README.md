# A verification development of MyBe

MyBe ("Make Your Best Effort") lets an HLS player show something of a transport
stream segment that could not be downloaded in time. `recode` rewrites a segment
so that a prefix of it is useful: tables, then a *magic packet* with the sizes of
what follows, then everything but the video, then the first I-frame, then a small
alternate video, then the rest of the original one. `ReferenceDecoder` turns a
prefix of such a file into the best segment it allows.

This directory holds TLA+ models of that program, the TLC runs that check them
and theorems checked by TLAPS. Every definition is translated from `src/recode`;
`PROJECT.json` names the lines each one stands for.

## 1. The system

| component | state | operations |
|---|---|---|
| `ReferenceDecoder` | bytes received, decoded header, four segments made | `add`, five `generate...`, `decodeHeader` |
| `Process_Recode` | the TS, PIDs, the search's bounds, the output file | `run`, `guessInputQuality`, `writeOutputFile` |
| `TS` | every packet in two lists: in file order and per PID | `add`, `removeStream`, `trimPIDStream`, `replaceStream`, `getUnusedPID`, `writePIDStream` |
| `Misc::pesScan` | the PES being gathered | calls a callback with each PES |
| `RemuxH264StreamFrameBoundaryTask` | bytes not yet delivered, current PTS, output packets | `pesCallback`, `deliverComplete`, `deliverAll`, `deliver` |
| `FindIDRTask` | two state machines over bytes, two remembered positions | `pes`, `result` |
| `PES`, `TSPacket` | offsets into a packet | parse, `map`, `getPayload`, `create`, `changePID` |
| `PAT`, `PMT` | PIDs found | parse |
| `Options` | the seven options | `parse` |
| `AlternateVideoTask`, `VideoDecoder`, `VideoEncoder`, `ImagePipeline` | decoder's picture buffers, picture held, counter, pictures in the encoder, packets in the muxer | `run`, `videoIncoming`, `newFrame`, `process`, `restore`, `write` |
| `MyBeLoader` | sessions, a curl multi handle, a shutdown flag, a thread | constructor, destructor, `createSession`, `commitSession`, `abortSession`, three `force...` (assertions that fail), the loop of the thread |
| `Process_PIDSwap`, `ImageWriter`, `VideoDebugTask`, `xlog` | — | a filter on PIDs, debug output, logging |

How they interact. `Process_Recode::run` calls the rest in one thread: it loads
the TS, reads PAT and PMT, takes an unused PID, searches a quality by trial
encodings, has `AlternateVideoTask` decode the video and encode it again into the
same TS, remuxes both videos so that every NALU starts a transport packet, lets
`FindIDRTask` look for the end of the first I-frame in each, and writes the file
with the sizes found. Callbacks connect the parts: packets → `pesScan` →
`pesCallback`; packets → `avioread` → ffmpeg → `videoIncoming` → `newFrame` →
ffmpeg → `write` → `TS::add`. The file is the only thing the writer and
`ReferenceDecoder` share. The loader is the one part with a second thread.

What is hard, and what makes each part correct:

* **ReferenceDecoder.** Bytes arrive in chunks that end anywhere and calls come
  at any time between them; a segment is made once and then kept. Correct: a
  segment handed out is one the bytes received allow, is never changed, and
  comes as soon as its check passes; the sizes are those of the file however the
  text was cut; the checks cover the copies; a complete download gives back the
  original segment.
* **Input.** An option takes the next argument as its value, whatever it looks
  like; tables are walked by lengths they contain; adaptation fields, header
  extensions and the length of a bounded PES move the payload; time stamps are
  put together from five bytes. Correct: the options given last are used, the
  one AVC stream of conforming tables is found, every byte of a PES reaches the
  callback, a time stamp stays what it was.
* **Remux.** Start codes may be cut by packets and PES; a NALU is delivered when
  a later PES shows its end. Correct: no byte lost or doubled, each unit exactly
  one NALU, each with the time stamp of the PES it started in, and the loops end.
* **FindIDR.** Two state machines over bytes cut into PES, zeros before a start
  code moving the remembered position. Correct: the result is the position of
  the NALU behind the first I-frame.
* **Recode.** Trial encodings share a PID with the alternate video; the numbers in
  the magic packet are computed apart from the regions they describe. Correct:
  the two packet lists agree, trials leave nothing behind, the search brackets
  the original size and ends, and each region of the file is where the magic
  packet says.
* **Alternate video.** The pipeline paints over the decoder's own buffers; both
  codecs and the muxer hold things back and may fail. Correct: buffers restored
  before the decoder goes on, each batch shows its first picture, no picture
  dropped or doubled, everything drained in order.
* **MyBeLoader.** Two threads without a lock, sessions deleted and their addresses
  used again, a destructor that waits for a thread. Correct: curl has the handles
  of the sessions that exist and were started, nothing is freed under the thread,
  the destructor returns, a session started is answered.

`PROJECT.json` lists the hazards one by one, with their lines.

## 2. Modules

| module | models | abstracts |
|---|---|---|
| `MyBeFile` | the layout of the recoded file, shared by writer and reader | bytes as positions and slices |
| `BestEffort` | what the decoder promises: which segment may be given out when | — |
| `ReferenceDecoder` | `ReferenceDecoder.hpp` | the header text as line ends; the bytes behind `m_source` |
| `NaluSplit` | what remuxing promises: the next NALU each time | — |
| `RemuxH264` | `pesScan` and the remux task | a byte is 0, 1 or other; a vector is a range |
| `SequenceLoops` | a loop that keeps some elements of a sequence, and one that adds numbers up, as recursive functions | — |
| `NaluPackets` | how remuxed NALUs lie in packets, and NALU types | |
| `FindIDR` | the scanner, with `PES::map` | |
| `TimeStamps` | reading and writing a 33-bit time stamp | a number is the set of its one-bits |
| `PacketPayload` | where the payload of a packet and of a PES is, `TSPacket` and the constructor of `PES` | flags nothing reads |
| `Tables` | the loops of `PAT` and `PMT` | the fixed fields of a section are one flag |
| `RecodeInput` | the command line, the file, the tables and `pesScan`: all of `run()` before the remuxer looks at a byte of H.264 | an argument is one of a few strings; `atoi` is a constant |
| `TransportStream` | `TS` with both lists, as operators | a packet is a record with its PID |
| `Recode` | `Process_Recode::run`, the quality search, the output file | remux and scan by what `RemuxH264` and `FindIDR` are checked to do; ffmpeg |
| `AlternateVideo` | the path of a picture through decoder, pipeline, encoder and muxer | a picture is a number; the codecs' choices are free |
| `MyBeLoader` | application and loader thread | curl: which handles it has; no time |
| `MC...` | constants for TLC | |
| `...Proofs` | theorems | |
| `InductionProofs` | no code: the lemmas about sequences, sums and recursive functions that the theorems share | |

Correspondence. In `ReferenceDecoder`, `source` is `m_source.size()`, `header` the
members `decodeHeader` assigns, `video` the four `m_video_` vectors; `Add`, `Build`,
`Replay`, `Refuse` and `Generate` are the calls; `OverrunHeader` and `OverrunCopy`
are the calls that run off the received bytes and end the process. In
`RemuxH264`, `pes` is the PES being gathered, `buffer` is `m_buffer`, `units` the
PES packets made; `pc` says in which loop the code is, and each action is one
turn of a loop or the code between two. In `FindIDR`, `scanState`, `pesState`,
`pointer`, `pointer2` and `found` are the members of the same names, and each
action is one turn of the byte loop through one branch. In `Recode`, `pc` follows
`run()`, `ts` is `m_ts`, `search` the locals of `guessInputQuality`, and `disk` the
packets sent to the file with what became of each: `WriteOutput` takes for every
packet an outcome of its `write()`, which nobody looks at: whole, torn or missing.
`ret` is what `run()` returns, the bytes counted taken as an int. In
`AlternateVideo`, `pictures` are the decoder's buffers, `held` is `m_y/u/v`,
`counter` and `depth` those of the pipeline, and `NewFrame` the whole of
`newFrame()`: process, encode, restore. Failing is an outcome of every call of a
codec: `DecodeError` and `DrainError` of the decoder, the second branch of
`NewFrame` and `EncoderError` of the encoder; `decoderFailed`, `failed` and
`drainFailed` remember it, since the code does not. In `RecodeInput`, the actions up to
`Parsed` are the turns of the loop over `argv`, those up to `GarbledPmt` the
results of the three functions `run()` calls next, and `StartPes` and
`ContinuePes` the two branches of `pesScan`; `Recode` starts with what these come
to (`CannotStart`, `NoTables`, `FindTables`), and `RemuxH264` has the same loop
again with the H.264 bytes in place of their number. A section whose lengths do
not lead from entry to entry makes the parsers read bytes that are no entries:
`GarbledPat` and `GarbledPmt` then allow every result, the end of the process
included. In `MyBeLoader`, `session` says what is at each address, `members` is
`m_sessions`, `attached` the handles in `m_curl_multi`; application and loader
thread have a program counter each, `app` and `thread`.

Each module has, before some of its definitions, a variant of it with the kind
of mistake that is easy to make there ("StaleScanBase" before "ScanBase"). The
specifications do not use them. They are substituted to see that a property
would notice.

## 3. What the runs check

Passing runs:

| run | properties | shows |
|---|---|---|
| `decoder_download` | `TypeOK`, `HeaderExact`, `ChecksSuffice`, `SegmentsExact`, `ServedWhenComplete`, `BestServesFull`, `WholePacketsSafe`, `PromiseKept` | with chunks that end anywhere and calls at any moment (for the full and the best segment when all is there), every answer is one `BestEffort` allows (a refinement) and cut at the right places, none is refused once all is there, the best one is then the original; the numbers accepted are the file's; the checks cover the copies, but for sums that wrap; a call only kills the process while a packet is cut by the end of the bytes, or in a file whose sizes wrap, and both are behaviours of this run |
| `recode_input` | `TypeOK`, `OptionsMeant`, `TablesFound`, `Gathered`, `UnboundedWhole`, `StampNear`, `Ends` | what is taken from a command line, which stream is found, which bytes are gathered, that the callback gets the payload from its first byte on and all of it when the PES is unbounded, how near a time stamp comes |
| `remux_split` | `TypeOK`, `NoByteLost`, `UnitPts`, `SplitsNalus`, `Ends` | every unit is the next NALU (a refinement of `NaluSplit`), nothing lost, stamps right, the task ends and then its buffer is empty |
| `findidr_scan` | `TypeOK`, `FindsIFrameEnd`, `CutsAtPacket` | the scanner finds the end of the first I-frame, at the packet that starts the next NALU |
| `recode_file` | `TypeOK`, `ListsAgree`, `Bracketed`, `AlternateAlone`, `FileAsStated`, `Ends` | lists, search and file, for several inputs and encoders and disks that take all, part or nothing of it; a file taken whole is the one its magic packet describes |
| `alternate_frames` | `TypeOK`, `Unharmed`, `Batched`, `OneForOne`, `Ends` | buffers, batches and frames, with an encoder that may fail at any picture and when it is drained, and a decoder that may fail at any packet and when it is drained |
| `loader_sessions` | `TypeOK`, `HandlesLive`, `FreedBehindThread`, `DestructorReturns` | sessions created, committed twice, aborted and left, the loader deleted at any moment: which handles curl has, what is freed when, and that the destructor returns |

Runs that disagree with what a comment of the code says (each with a finding in
`PROJECT.json` that quotes it):

| run | property | what happens |
|---|---|---|
| `decoder_partial_full` | `FullOnlyWhenComplete` | the length check of `generateFullVideo` compares the bytes received with themselves, so a truncated "full" segment is served and kept |
| `decoder_cut_header` | `NoFault` | a header cut in the middle of a line is parsed past its end |
| `input_payload` | `PayloadWhole` | the payload of a bounded PES gets the length in its header, which counts three bytes of flags and the header extension too (`PES.cpp:92`) |
| `input_stamps` | `StampKept` | `mpegTimestampFromBytes` shifts the second byte by 23 and the fourth by 8, where ISO/IEC 13818-1 has 22 and 7; `makeUnboundPESSegment` writes them with 23 and 7. The PTS of a remuxed PES is off by up to 2^15 ticks, and a later one may become the earlier one |
| `loader_answer` | `Answered` | nothing drives the transfers and nothing calls the callback, so a session that was started is never answered, not when it is aborted either |

Other things met while modelling, which no run is spent on because one reading of
the lines named shows them. Where one of them limits a property, the comment of
the property says so:

* `ReferenceDecoder.hpp:293` takes `MiscLength=0`, which `Process_Recode.cpp:182` writes
  for a segment with no stream but tables and video, for a missing field: such a
  segment is never served, complete or not, against `src/README.md:54`. The theorems
  on complete files assume that no field is 0 (`FieldsStated`).
* `ReferenceDecoder.hpp:63`, `99` and `140` add the sizes as unsigned ints, and only the
  sum becomes a `size_t`: for sizes that add up to 4 GB or more it is small, the check
  passes, and the copies read bytes that have not arrived and write past the buffer.
  `ChecksSuffice` and `WholePacketsSafe` name this case as their exception, and
  `decoder_download` has a file in which it happens. `decodeHeader` scans as far as the
  number of bytes received as an unsigned int (`:251`), so a file of 4 GB or more may
  never be served (`FilesFit`).
* `Process_Recode.cpp:158` takes one packet off the packets before the NALU behind the
  I-frame. That number was right, so what is put before the alternate video is one
  packet short of "Enough video for first IFrame" (`:148`): the last packet of the I-frame
  lies behind the alternate video. When no end of an I-frame was found, the result 0
  wraps around, and `FirstIFrameKeep` is more than the video has. When that NALU
  starts in the second packet the number is 0, which `TS.cpp:72` takes for "all"
  (`TS.hpp:61` has -1 for that), and the video is written twice. `FileAsStated` asks
  that region and number agree, for files of the first kind.
* `Process_Recode::run` returns "0 on success" (`Process_Recode.hpp:62`), and also 0 when
  it found no tables and made no file (`:298-299` have no else), and when the disk did
  not take a packet: `TS.cpp:76` counts 188 bytes whatever `write()` returned. From 2 GB on
  the bytes counted are a negative int (`:241`), which is returned for a whole file
  (`:340`). `WriteOutput` and `NoTables` do as the code does; no property asks for 0.
* `Misc.cpp:34`: `pesScan` hands a PES over when the next one begins, and the one being
  gathered when the packets end is dropped, where `Misc.hpp:17` has the callback
  "Invoked for each PES packet in the scan." The video loses its last PES. `NoByteLost`
  counts it as not yet handed over, and `Ends` of `RemuxH264` is about what was.
* `VideoEncoder.cpp:133-135`: when encoding fails `newFrame()` returns before `restore()`
  (`:146`), and the decoder goes on predicting from a picture that is painted over,
  against `ImagePipeline.hpp:37-38`. `Unharmed` and `Batched` exempt what lies behind
  a failure.
* `AlternateVideoTask` returns 0 (`AlternateVideoTask.hpp:24`: "0 on success, -ve on
  error.") also when a codec failed and pictures are missing: a decoding error ends
  the loop (`VideoDecoder.cpp:159`), an error while draining is not looked at (`:170`), nor
  is one of the encoder (`VideoEncoder.cpp:133`). `OneForOne` names these cases.
* `ReferenceDecoder.hpp:172` gives the alternate packets PID 257 whatever the PMT says
  (the code marks it as a hack).
* `PES.hpp:77` (`map`) adds the PES header length to the position found for an offset
  without it; right as long as both lie in one packet. `FindIDR` models it so, and
  the positions the scanner remembers are right all the same (`FindsIFrameEnd`).
* `Process_Recode.cpp:310` passes the option on instead of the guessed quality.
* `Options.cpp`: `-i`, `-f` or `-q` as the last argument reads `argv[argc]` and kills
  the process (`ValueMissing`).
* `PAT.cpp` counts the entry of the network PID (program 0) as a program, and a PAT
  with two is not accepted; a section that goes on in a second packet is read to
  the end of the first and beyond (`GarbledPat`).
* `MyBeLoader.cpp:95` logs that it waits for all sessions and does not; sessions left
  are leaked. `commitSession` returns true for a session that was started before,
  where `MyBeLoader.hpp:49` has false. `m_sessions` keeps the addresses of deleted
  sessions. `m_shutdown` is a plain `bool`: a data race, harmless because the
  call of `sleep` makes the compiler read it again.
* `loader_test.cpp` calls `sem_open` with `O_CREAT` but without an initial value.

### Bounds

* *Decoder.* Packets of 10 units (tag 1, each line 2), regions of one to eight
  packets: the checks depend on the order of the region ends only, and regions of
  different sizes in one run tell any two of them apart. Word size 120 in
  `decoder_download`: sixteen files are shorter, one is longer but its regions in front
  of the rest are not, and in one these do not fit either, so that its sum wraps.
  Chunks of one unit and of one packet, so that the download stops at every unit of
  the file. 500 and fewer files and chunks in the two runs about one call.
* *Input.* Every command line of up to three of ten arguments (1111): three are
  needed for an option, its value and what follows it. 169 pairs of tables: no,
  one and two entries, descriptors of 0, 6, 11 and 200 bytes, lengths too short
  and too long, no PUSI, another table. Two PES, of six stamps (none, all bits,
  and bits of every byte), bounded and not, with and without stuffing, over one
  to three packets with every kind of adaptation field. Command line, tables and
  packets do not look at each other, so `SpecApart` varies each while the others
  are the plainest: the product of the three would show nothing that one of them
  does not.
* *Remux.* Six streams of three NALUs (a first, a middle and a last one, with both
  kinds of start code and zeros at ends), up to four PES (a NALU over three PES
  needs three), every cut.
* *FindIDR.* Packets of nine bytes with headers of two and three, every sequence
  of three NALUs of sixteen forms and many of four: start code of either length,
  zeros before it, NALUs of one and several packets.
* *Recode.* PIDs 0..6, five inputs (streams before, between and behind the video,
  a video without tables, tables without a video), qualities 0..5, every encoder that makes less or more
  than the original at each of them but the last, which the search never tries.
  Word size 200, so that the larger of the files count more than half of it and
  `ret` gets negative. The disk
  (`MCTook`) takes all, all but a part or the whole of the magic packet, or nothing
  from the first packet or the one behind the magic packet on, which may itself be
  torn: the count depends on the outcome of the magic packet alone, and nothing
  else on any. I-frames of one to three packets, at the front too, with and
  without an end.
* *Alternate.* Five pictures, AVIO buffers of two, both codecs hold back up to two,
  batches of 1, 2, 3 and depth 0 with a counter of range 4, so that every batch
  length ends within the video and the counter wraps.
* *Loader.* Two addresses and four sessions, so that an address is used again
  while the other one is in use.

Deadlock is not checked: each program ends, or is killed by a fault that the run
is about.

### Fairness

`RecodeInput`, `RemuxH264`, `Recode` and `AlternateVideo` are single-threaded loops
with no wait, so `WF_vars(Next)` says no more than that the processor goes on.
`MyBeLoader` has `WF_vars(Loader)`, the thread runs and `sleep` returns, and
`WF_vars(Joined)`, `pthread_join` returns once the thread has ended; what the
application calls, and whether it calls anything, is free. `ReferenceDecoder` and
`FindIDR` need none: their properties are of safety. No external codec is assumed
to succeed, nor to be drained: that a loop over one ends is since it gives out no
more than it took. `Ends` of `RecodeInput` counts the end of a killed process as one.

## 4. What is proved

Every type invariant, safety invariant and refinement that a passing run checks is
a theorem, for all values of the constants that satisfy the named assumptions of
the module it is about. Eight modules hold theorems. Where a theorem has a
hypothesis besides the specification, it is named here: `SamePid` holds in the run
by its constants, `FieldsStated` too, `FilesFit` for all of its files but the two longest,
and `SpecInTime` is the specification of the run.

**Decoder** (`ReferenceDecoderProofs`).

* `TypeCorrect`, `HeaderIsExact`. Invariant `HeaderInv`: types plus "an accepted header
  is the file's". The step is `DecodedExact`: an accepted header has four non-zero
  fields; a line that was cut leaves the lines behind it at 0 (`LinesInOrder`), so
  only the last line can have been cut, and nothing is cut out by its number.
* `LengthChecksSuffice`: `ChecksSuffice`, without a hypothesis. The model adds as the code
  does, modulo the word size, and the assumptions on files (`FilesAssumption`) only
  bound each size, not their sum. When the copies end below the word size the
  wrapped sums are the true ones (`ChecksAreExact`), so a check that passes covers the
  copies, out of `m_source` and into the new buffer; the other case is the exception
  the property names.
* `SegmentsAreExact`, assuming `SamePid` (the video has the PID the decoder writes).
  The inductive invariant adds to the above that each segment kept is cut from
  bytes that had arrived.
* `PromiseIsKept`: `SpecInTime => Promise!Spec`, assuming `SamePid`. `SpecInTime` is a
  loader that asks for the full and the best segment only when the whole file is
  there; `decoder_partial_full` shows that nothing in the decoder itself sees to
  that. Every step of such a loader maps to a step or a stutter of `BestEffort`.
* `BestIsFull`, assuming `SamePid`, `FieldsStated` (no field of a file is 0), `FilesFit`
  (it is below 4 GB) and such a loader: what the best call returns is the original segment. Invariant `FullInv`:
  a full segment that is kept was made of the whole file.
* `AnswersComplete`, assuming `FieldsStated` and `FilesFit`, for every loader: with the whole file
  there `decodeHeader` succeeds at the latest in the call that asks
  (`DecodesComplete`) and every length check passes (`AllFit`). Without
  `FieldsStated` it is false (`MiscLength=0`, section 3).
* `WholePacketsAreSafe`: `WholePacketsSafe`, for a loader in time (`SpecInTime`). When the
  bytes received are whole packets the header text is there or is not (`NoTextCut`),
  no region ends behind the start of the rest (`ReachNat`), and below the word size a
  copy a check lets through stays inside (`ChecksAreExact`).

**Input** (`RecodeInputProofs`), for every set of arguments, tables, stamps, payload
sizes and adaptation fields that the three assumptions of the module admit.

* `OptionsAreMeant`: `OptionsMeant`, for command lines of any length. The definition
  reads the line as a whole, the code from its front, so the invariant
  (`OptionsInv`) relates the two half-way: when m arguments have been parsed, the
  options are those meant by the first m (`ParsedTo`).
* `TablesAreFound`: `TablesFound`, for tables of any number of entries. The loop goes
  by bytes, the definition by entries; in a section whose length is the sum of its
  entries the loop ends behind the last one (`CountIsLen`), and a PID is found iff
  one stream is AVC (`OneIsKept`). The proof showed what the
  definition of a conforming PMT had left out: a video listed with PID 0, the PID
  of the PAT, cannot be told from `m_video_pid` before the PMT is read.
* `AllGathered`, `UnboundedAreWhole`, `StampsAreNear`, `InputTypes`. Invariant `PesInv`: what
  is gathered and what is left add up to the PES (`GatherInv`), and the PES last
  handed over was complete (`ScannedInv`). `UnboundedAreWhole` says where the payload
  starts of every PES and how long it is of those without a length; of the others
  the length is wrong (`input_payload`).
* `IsoExact`, `RewrittenBits`: the ISO layout is lossless, and exactly which bits a
  stamp has after the code has read it and written it. Both follow from what a
  shift and a field of bits do to one bit (`ShiftBits`, `FieldBits`).

**Remux** (`RemuxH264Proofs`).

* `TypeCorrect`, `NothingLostOrDoubled`. Invariant `Inv`: the units tile the stream up
  to the buffer (`Tiled`), and buffer and pending PES follow without a gap
  (`Joined`). It needs "the buffer is not empty once anything was inserted",
  without which `deliverAll` could emit an empty unit.
* `UnitsAreNalus`: `Spec => SplitsNalus`. The extra invariant `AtNalu` says the buffer
  starts at a NALU and holds no further start code beyond where the code has
  looked; it is what makes "first start code at offset 3 or more" the next NALU
  whatever the cut (`HeaderIsBoundary`, `OneStartCode`).
* `UnitsAreStamped`: `UnitPts`. `UnitPts` chooses a PES out of the history; the
  invariant `StampInv` gives that PES as a witness, which PES that begin later
  leave alone (`StampStays`). It says of the NALU at the head of the buffer what
  `UnitPts` says of a unit, and of the NALUs behind it that their PES has the PTS
  `m_pts` has, or none. Why that holds when a PES continues a NALU is the
  interesting step: what was left in the buffer holds no second start code
  (`AtNalu`), so one found after appending ends in the new PES.

**Scanner** (`FindIDRProofs`), for every stream of NALUs and every size of packets and
headers that has room for a start code.

* `IFrameEndFound`, `CutAtPacket`, `ScannerTypes`. Invariant `ScanInv`. `CodeScanned` says
  for every byte of a NALU where the second state machine is and what the two
  positions point at: zeros at the end of a NALU may have moved them, and the
  start code that follows moves them back before it is complete. `TypesScanned`
  says the first machine has seen an I-frame iff one of the headers read was one,
  and no other NALU after it. `EndFound` says a result, once there, is right.
  Positions are sums over the NALUs before, which `SumOfNext` and `SumOfGrows`
  handle.

**Recode** (`RecodeProofs`), for every input, number of PIDs, word size, encoder and
range of qualities.

* `StoreAgrees`, `SearchBrackets`, `AlternateIsAlone`, `FileDescribed`, `RecodeTypes`. They
  hold together (`RecodeInv`), since each needs another. `AltPidUsed` says when the
  PID of the alternate video is empty, and that it is no other one's: from
  `RecodeAssumption`, a PID is unused, as it is in any input that
  `getUnusedPID` does not search in vain. `TrialKnown` says the packets compared
  are those of the trial at `mid`. `VideosKnown` and `FileKnown` relate the packets
  in the TS to the NALUs whose sizes the magic packet is computed from. Each
  operation of `TS` is proved to keep the two lists in agreement once.
  `FileDescribed` says of a file the disk took, below 4 GB and with a first I-frame of
  at least two packets, that each region holds exactly the packets `m_ts` has for it
  when it is written. It is not all of the input: the SDT is stripped before, and of
  PAT and PMT the first packet is written and no other. What becomes of the files it
  excludes, and that the I-frame in front is one packet short in the others too, is
  in section 3. `WriteOutput` is for every choice of outcomes there; a packet that is torn or missing is told
  from the ones in `m_ts` by its maker (`TakenIsSent`).

**Alternate video** (`AlternateVideoProofs`), for every length of video, depth, delay,
reach of prediction and range of the counter.

* `BuffersRestored`: `Unharmed`. Invariant `BufferInv`: besides, pictures that failed
  were given out. Both are needed to see that a picture predicted from a damaged
  one lies behind the failure (`PredictedSound`).
* `BatchesShown`, `PicturesOneForOne`, `VideoTypes`. Invariant `VideoInv`. `CounterKnown`:
  the counter is the number of pictures given out modulo the batch, also for depth
  0, where the batch is the range of the counter. `HeldKnown`: the held picture is
  the first of its batch, unless something failed in it. `ShownAll`: nothing is
  left in the decoder when the encoder is drained, unless the decoder failed, and
  nothing in the encoder when the muxer is closed, unless that failed. The draining
  of either is not assumed to succeed.

**Loader** (`MyBeLoaderProofs`), for any number of addresses and sessions.

* `TypeCorrect`, `HandlesAreLive`, `NothingFreedUnderThread`. Their conjunction `LoaderInv`
  is inductive: which handles curl has depends on where the application is, and
  that on the thread.

**Induction.** The loops over packets, NALUs and table entries are recursive functions
(`Only`, `SumOf`, `AddedAll`, `Values`), and what they compute is proved for sequences of any length. The
induction theorems of the library take an operator, which the provers at hand cannot
instantiate; `InductionProofs` states induction for a set instead (`LeastElement`,
from the well-foundedness of `<`, then `Induction`): to prove P of all numbers, show
that the set of those with P has 0 and with each n also n + 1. `Recursion` gets from
it that a recursive definition defines a function, `SequenceInduction` the same for
sequences.

**Assumptions.** They say what the program can be given and no more: each size below the
word size, as the field it is stated in, and packets that are not empty
(`PacketAssumption`, `FilesAssumption`), a
header text with its lines in order (`TextAssumption`, `DecoderAssumption`), a stream
that starts with a start code (`StreamAssumption`), NALUs as `NaluSplit` gives them
out (`VideosAssumption`), tables with room in their packet (`SegmentsAssumption`), PIDs
that differ (`RecodeAssumption`), frame rates and options that fit the counter
(`AlternateVideoAssumption`). TLC evaluates each in a run.

Only model-checked: `Ends` of four modules and `DestructorReturns`, which are liveness
under fairness. They are checked on the small instances only. So are the five
disagreements of section 3, which are counterexamples and need no proof.

## 5. Not modelled, and why

* `Process_PIDSwap`: a loop that reads a packet, changes two bytes and writes it, with
  no state from one packet to the next and none shared with the rest. A `read` of
  less than a packet writes whatever else is in the buffer
  (`Process_PIDSwap.cpp:27-38`).
* Input that no multiplexer writes: bytes before the first PUSI (taken as a PES by
  `pesScan`), and the argument `-`, whose third character does not exist.
* The DTS, which nothing uses, and flags of headers nothing reads.
* `harry_fixes.h`: definitions for building another tool.
* The codecs, the muxer and curl: external; only what the code relies on.
* `ImageWriter`, `VideoDebugTask`, `xlog`: debug output and logging.
* `add_stream` and the `init` functions: they set ffmpeg up; failing is a branch of
  `Recode`.
* Memory: allocations and leaks are not in any model.

## 6. Plan

1. *(done)* `MyBeFile`, `BestEffort`, `ReferenceDecoder` and its proofs: the part a
   player depends on.
2. *(done)* `NaluSplit`, `RemuxH264` and its proofs; `NaluPackets`, `FindIDR`.
3. *(done)* `TransportStream`, `Recode`; `AlternateVideo`.
4. *(done)* `MyBeLoader` and its proofs.
5. *(done)* `TimeStamps`, `PacketPayload`, `Tables`, `RecodeInput` and their proofs.
6. *(done)* Theorems on the decoder's answers and faults, on the time stamps of units
   and on the decoder's picture buffers.
7. *(done)* Theorems on `TransportStream`, `Recode`, `FindIDR`, the command line and the
   tables, and on the pictures that come out: all safety properties of the runs.
8. Composition: remux, scan and writer in one module whose file `ReferenceDecoder`
   reads, to replace `Remuxed` and `Result` in `Recode` by the models they stand for; then
   that a decoder with the whole file gives back the segment `run()` was given, as
   a theorem from `FileDescribed` and `BestIsFull`.
9. When `MyBeLoader` drives its transfers: callbacks from the loader thread against
   calls of the application, and `Answered` as a property of a passing run.

## Running

    tlc -config decoder_download.cfg MCReferenceDecoder
    tlapm RemuxH264Proofs.tla
