---------------------------- MODULE MCRemuxH264 -----------------------------
(***************************************************************************)
(* Streams of three NALUs, the last of which is in the PES pesScan drops   *)
(* or is cut by it.  A NALU has a short or a long start code, or a zero    *)
(* behind its byte that makes the start code after it look long.           *)
(***************************************************************************)
EXTENDS RemuxH264

NaluForms == {<<0, 0, 1, 2>>, <<0, 0, 0, 1, 2>>, <<0, 0, 1, 2, 0>>}

MCStreams == {a \o b \o <<0, 0, 1, 2>> :
                a \in NaluForms, b \in NaluForms \ {<<0, 0, 1, 2>>}}
=============================================================================
