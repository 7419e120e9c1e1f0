----------------------------- MODULE MCFindIDR ------------------------------
(***************************************************************************)
(* Streams of three or four NALUs in packets of 9 bytes, 7 of them payload *)
(* and 3 of those for the PES header: a NALU takes one packet, filled or   *)
(* stuffed, or two.  Some NALUs end in zeros.                              *)
(***************************************************************************)
EXTENDS FindIDR

Codes == {<<0, 0, 1>>, <<0, 0, 0, 1>>}
Bodies == {<<>>, <<9, 0>>, <<9, 0, 0>>, <<5, 0, 0, 9, 1>>}

MCNalus == {c \o <<t>> \o b : c \in Codes, t \in {5, 9}, b \in Bodies}
FewNalus == {n \in MCNalus : Len(n) \in {5, 7}}

MCVideos ==
  {<<a, b, c>> : a \in MCNalus, b \in MCNalus, c \in MCNalus} \cup
  {<<a, b, c, d>> : a \in FewNalus, b \in FewNalus, c \in FewNalus,
                    d \in FewNalus}
=============================================================================
