---------------------------- MODULE MCRecodeInput ----------------------------
(***************************************************************************)
(* Command lines of up to three arguments, 169 pairs of tables, and PES    *)
(* packets of one to three transport packets.                              *)
(***************************************************************************)
EXTENDS RecodeInput

MCFlags == {"-h", "-s", "-d", "-q", "-f", "-i", "-x"}
MCTooLong == {"--all"}
Arguments == MCFlags \cup MCTooLong \cup {"7", "name"}
MCArgLists == UNION {[1..n -> Arguments] : n \in 0..3}
MCAtoi == [a \in Arguments |-> IF a = "7" THEN 7 ELSE 0]

Packet(pusi, room, section) ==
  [pusi |-> pusi, room |-> room, pointer |-> 0, section |-> section]

\* A PAT with two entries (the network PID is one) has none for the video; the
\* last three are shorter than an empty one, of another table, and too long.
Program(number, pid) == [number |-> number, pid |-> pid]
PatSection(ok, length, programs) ==
  [ok |-> ok, length |-> length, programs |-> programs]
PatSections ==
  {PatSection(TRUE, 13, <<Program(1, 32)>>),
   PatSection(TRUE, 17, <<Program(0, 16), Program(1, 32)>>),
   PatSection(TRUE, 13, <<Program(1, 33)>>),
   PatSection(TRUE, 5, <<>>),
   PatSection(FALSE, 13, <<Program(1, 32)>>),
   PatSection(TRUE, 17, <<Program(1, 32)>>)}

Stream(type, pid, info) == [type |-> type, pid |-> pid, info |-> info]
PmtSection(length, info, streams) ==
  [ok |-> TRUE, length |-> length, info |-> info, streams |-> streams]
Conforming(info, streams) ==
  PmtSection(FoldLeft(LAMBDA len, s : len + 5 + s.info, 13 + info, streams),
             info, streams)
PmtSections ==
  {Conforming(info, streams) :
     info \in {0, 6},
     streams \in {<<Stream(27, 256, 0)>>,
                  <<Stream(15, 257, 6), Stream(27, 256, 0)>>,
                  <<Stream(27, 256, 11), Stream(15, 257, 0)>>,
                  <<Stream(27, 256, 0), Stream(27, 258, 0)>>,
                  <<Stream(15, 257, 200)>>, <<>>}} \cup
  {PmtSection(15, 6, <<Stream(27, 256, 0)>>)}

MCSegments ==
  {[pat |-> <<Packet(pusi, 184, pat)>>, pmts |-> (32 :> Packet(TRUE, 184, pmt))] :
     pusi \in BOOLEAN, pat \in PatSections, pmt \in PmtSections}
  \cup {[pat |-> <<>>, pmts |-> (32 :> Packet(TRUE, 184, pmt))] :
          pmt \in PmtSections}

\* None, bits of every byte, and one with all of them.
MCStamps == {{}, {0, 6, 7}, {14, 15, 22}, {16, 21, 23, 28}, {29, 32}, 0..32}
FewStamps == {{}, {0, 16}, {6, 13}}

\* The command line, the tables and the packets do not look at each other: each
\* is varied while the others are the plainest.
PlainTables ==
  [pat |-> <<Packet(TRUE, 184, PatSection(TRUE, 13, <<Program(1, 32)>>))>>,
   pmts |-> (32 :> Packet(TRUE, 184, Conforming(0, <<Stream(27, 256, 0)>>)))]
NextApart ==
  /\ Next
  /\ pc = "open" /\ pc' = "pat" => given = <<>>
  /\ pc = "scan" /\ pc' = "scan" => segment = PlainTables
SpecApart == Init /\ [][NextApart]_vars /\ WF_vars(NextApart)

\* Time stamps only.
NoArguments == {<<>>}
PlainSegment == {PlainTables}
=============================================================================
