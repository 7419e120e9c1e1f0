------------------------- MODULE MCReferenceDecoder -------------------------
(***************************************************************************)
(* Instances of ReferenceDecoder with packets of 10 units: the tag takes 1 *)
(* unit of the magic packet, each field line 2.                            *)
(***************************************************************************)
EXTENDS ReferenceDecoder

MCFieldEnd == <<3, 5, 7, 9>>

\* Segments with audio: PAT and PMT, then regions of one or two packets.
AudioFiles ==
  [hdr: {20}, misc: {10, 20}, keep: {10, 20}, total: {10, 20},
   altKeep: {10}, rest: {10, 20}, videoPid: {257}]

\* One segment, whose sizes all differ, for chunks of any length.
OneFile == {[hdr |-> 20, misc |-> 10, keep |-> 20, total |-> 30,
             altKeep |-> 10, rest |-> 60, videoPid |-> 257]}

\* One segment whose sizes do not add up to an unsigned int below 120.
WrappedFile == {[f EXCEPT !.total = 80] : f \in OneFile}

DownloadFiles == AudioFiles \cup OneFile \cup WrappedFile
=============================================================================
