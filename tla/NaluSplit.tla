----------------------------- MODULE NaluSplit ------------------------------
(***************************************************************************)
(* What splitting an H.264 byte stream into NALUs promises: one NALU after *)
(* the other is given out, none is skipped, repeated or cut in two, and    *)
(* only the last one may end where the bytes that arrived end.  A byte is  *)
(* 0, 1, or 2 for any other value; positions are 0-based and ranges        *)
(* exclude their end.                                                      *)
(***************************************************************************)
EXTENDS Integers, Sequences

VARIABLES
  bytes,    \* the stream
  limit,    \* how many of them have arrived
  nalus     \* the NALUs given out, ranges of bytes

vars == <<bytes, limit, nalus>>

\* The start code 00 00 01 is at position p.
StartCode(p) ==
  /\ p + 3 =< Len(bytes)
  /\ bytes[p + 1] = 0 /\ bytes[p + 2] = 0 /\ bytes[p + 3] = 1

\* A NALU starts at its start code or at the zero that may stand before it.
Boundary(p) ==
  \/ StartCode(p)
  \/ p < Len(bytes) /\ bytes[p + 1] = 0 /\ StartCode(p + 1)

From == IF nalus = <<>> THEN 0 ELSE nalus[Len(nalus)].to

Init == limit = 0 /\ nalus = <<>>

\* The range holds one start code, the one it begins with.  A range that ends
\* at no boundary is the last one: the next would begin at none.
Give(to) ==
  /\ Boundary(From)
  /\ Boundary(to) \/ to = limit
  /\ \A p \in (From + 2)..(to - 3) : ~StartCode(p)
  /\ nalus' = Append(nalus, [from |-> From, to |-> to])

\* More bytes arrive, or a NALU that has arrived is given out, or both.
Next ==
  /\ limit' \in limit..Len(bytes)
  /\ \/ \E to \in (From + 1)..limit' : Give(to)
     \/ UNCHANGED nalus
  /\ UNCHANGED bytes

Spec == Init /\ [][Next]_vars
=============================================================================
