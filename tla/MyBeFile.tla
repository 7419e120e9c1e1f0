----------------------------- MODULE MyBeFile ------------------------------
(***************************************************************************)
(* The layout of a MyBe segment, as Process_Recode::writeOutputFile writes *)
(* it and ReferenceDecoder reads it:                                       *)
(*                                                                         *)
(*   PAT, PMT | magic packet | misc | first I-frame | alternate | rest     *)
(*                                                                         *)
(* A file is a record of the lengths of its regions; positions are byte    *)
(* offsets.  The magic packet states misc, keep, total and altKeep.        *)
(***************************************************************************)
EXTENDS Integers, Sequences

CONSTANTS
  PacketSize,    \* bytes of a transport packet: 188
  WordMod,       \* 2^32, the range of an unsigned int
  Files          \* the files considered

\* (n + 187) / 188 * 188 on unsigned ints: n rounded up to whole packets.
Whole(n) == (((n + PacketSize - 1) % WordMod) \div PacketSize) * PacketSize

MiscAt(f)      == f.hdr + PacketSize
IFrameAt(f)    == MiscAt(f) + f.misc
AlternateAt(f) == IFrameAt(f) + Whole(f.keep)
RestAt(f)      == AlternateAt(f) + f.total
FileSize(f)    == RestAt(f) + f.rest

(***************************************************************************)
(* What a file written by the recoder looks like: the packets before the   *)
(* magic one are whole, and each of the four sizes is an unsigned int, the *)
(* I-frame's also when it is rounded up.  Their sum need not be one.       *)
(* altKeep is stated in the file and used by nobody.                       *)
(***************************************************************************)
FileType == [hdr: Nat, misc: Nat, keep: Nat, total: Nat, altKeep: Nat,
             rest: Nat, videoPid: Nat]

ASSUME PacketAssumption == PacketSize \in Nat \ {0} /\ WordMod \in Nat \ {0}

ASSUME FilesAssumption ==
  /\ Files \subseteq FileType
  /\ \A f \in Files : /\ f.hdr % PacketSize = 0
                      /\ f.hdr + PacketSize < WordMod
                      /\ f.keep + PacketSize =< WordMod
                      /\ {f.misc, f.total, f.altKeep} \subseteq 0..(WordMod - 1)

(***************************************************************************)
(* A segment handed to the player is a sequence of slices of the file.     *)
(* pid is the PID written over the packets of the slice, 0 when they are   *)
(* copied as they are.                                                     *)
(***************************************************************************)
Slice(at, len, pid) == [at |-> at, len |-> len, pid |-> pid]

Kinds == {"no", "single", "alternate", "full"}

NoSegment == <<>>
=============================================================================
