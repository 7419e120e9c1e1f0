---------------------------- MODULE BestEffort -----------------------------
(***************************************************************************)
(* What a loader promises of a MyBe segment (README.md:42-54 and the       *)
(* comments on the generate functions of ReferenceDecoder.hpp): a segment  *)
(* of a kind is handed out only when every byte of it has been received,   *)
(* it is made of exactly the regions of the file that kind is made of, and *)
(* a kind handed out once is never handed out differently.                 *)
(***************************************************************************)
EXTENDS MyBeFile

VARIABLES
  file,        \* the file being downloaded
  received,    \* how many bytes of it have arrived
  given        \* for each kind, the segment handed out, or NoSegment

vars == <<file, received, given>>

\* Where the last region that a segment of kind k needs ends.
Need(k) ==
  [no |-> IFrameAt(file), single |-> AlternateAt(file),
   alternate |-> RestAt(file), full |-> FileSize(file)][k]

Header == Slice(0, file.hdr, 0)
Misc   == Slice(MiscAt(file), file.misc, 0)
IFrame == Slice(IFrameAt(file), Whole(file.keep), 0)

\* The alternate stream replaces the video, so it carries the video's PID.
Content(k) ==
  [no        |-> <<Header, Misc>>,
   single    |-> <<Header, Misc, IFrame>>,
   alternate |-> <<Header, Misc,
                   Slice(AlternateAt(file), file.total, file.videoPid)>>,
   full      |-> <<Header, Misc, IFrame,
                   Slice(RestAt(file), file.rest, 0)>>][k]

Init ==
  /\ file \in Files
  /\ received = 0
  /\ given = [k \in Kinds |-> NoSegment]

Receive ==
  /\ received' \in (received + 1)..FileSize(file)
  /\ UNCHANGED <<file, given>>

HandOut(k) ==
  /\ given[k] = NoSegment
  /\ Need(k) =< received
  /\ given' = [given EXCEPT ![k] = Content(k)]
  /\ UNCHANGED <<file, received>>

Next == Receive \/ \E k \in Kinds : HandOut(k)

Spec == Init /\ [][Next]_vars
=============================================================================
