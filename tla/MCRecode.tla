------------------------------ MODULE MCRecode ------------------------------
(***************************************************************************)
(* PIDs: 0 PAT, 1 PMT, 2 SDT, 3 the video, 4 and 5 the rest from           *)
(* LowestAlternate on, 6 null packets.                                     *)
(***************************************************************************)
EXTENDS Recode

\* Tables and audio before, between and behind the video; a second PAT; audio
\* on the first PID the alternate video could have had; no PMT; no video, so that
\* the PMT names the first unused PID.
MCInputs == {<<0, 1, 3, 3>>, <<0, 1, 2, 4, 3, 6, 3, 4, 0>>,
             <<3, 0, 1, 5, 3, 2>>, <<0, 3, 3>>, <<0, 1, 4>>}

MCOptions == {-1, 4}

\* Sizes around that of the video, which has two packets; the last quality is
\* never tried.
MCSizes == {s \in [0..5 -> {1, 3}] : s[5] = 1}

Nalu(type, packets) == [type |-> type, packets |-> packets]

\* Parameter sets, an I-frame of one or two slices, other frames; the stream
\* may end before or with the NALU behind the I-frame.
MCVideos ==
  {<<Nalu(9, 1), Nalu(5, n)>> \o tail :
     n \in {1, 2},
     tail \in {<<>>, <<Nalu(9, 1)>>, <<Nalu(9, 1), Nalu(9, 2)>>,
               <<Nalu(5, 1), Nalu(9, 2), Nalu(9, 1)>>}}
  \cup {<<>>, <<Nalu(5, 1), Nalu(9, 1), Nalu(9, 1)>>}
MCAlternates == {<<Nalu(9, 1), Nalu(5, 1), Nalu(9, 1), Nalu(9, 1)>>}

\* The disk takes everything, all but the magic packet, or nothing from a packet
\* on that it may take a part of: the first, or the one behind the magic packet.
MCTook ==
  LET all == [n \in DOMAIN Content |-> "whole"]
      none == [n \in DOMAIN all |-> "missing"]
  IN  {all}
      \cup {[all EXCEPT ![MagicAt] = how] : how \in Outcomes \ {"whole"}}
      \cup {SubSeq(all, 1, from) \o SubSeq(<<how>> \o none, 1, Len(all) - from) :
              how \in Outcomes \ {"whole"}, from \in {0, 3}}

MCNext == Step \/ \E took \in MCTook : WriteOutput(took)
MCSpec == Init /\ [][MCNext]_vars /\ WF_vars(MCNext)
=============================================================================
