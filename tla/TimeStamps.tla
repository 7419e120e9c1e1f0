----------------------------- MODULE TimeStamps -----------------------------
(***************************************************************************)
(* The 33-bit time stamps of a PES header: how Misc reads them out of its  *)
(* five bytes and how makeUnboundPESSegment writes them.  A number is the  *)
(* set of the positions of its one-bits, so a byte is a subset of 0..7, a  *)
(* mask is an intersection, a shift moves the positions and | is a union.  *)
(***************************************************************************)
EXTENDS Integers

Shift(bits, n) == {b + n : b \in bits}

\* Bits from..to of a number, as a number of their own.
Field(bits, from, to) == Shift(bits \cap (from..to), -from)

\* Misc::mpegTimestampFromBytes().  A bug of that kind: the second byte is put
\* where ISO/IEC 13818-1 has it, in the reader and not in the writer.
FromBytesIso(bytes) ==
  UNION {Shift(Field(bytes[1], 1, 3), 30),
         Shift(bytes[2], 22),
         Shift(Field(bytes[3], 1, 7), 15),
         Shift(bytes[4], 8),
         Field(bytes[5], 1, 7)}
FromBytes(bytes) ==
  UNION {Shift(Field(bytes[1], 1, 3), 30),
         Shift(bytes[2], 23),
         Shift(Field(bytes[3], 1, 7), 15),
         Shift(bytes[4], 8),
         Field(bytes[5], 1, 7)}

\* The five bytes makeUnboundPESSegment() writes for a PTS without a DTS.
ToBytes(stamp) ==
  <<{5, 0} \cup Shift(Field(stamp, 30, 32), 1),
    Field(stamp, 23, 30),
    Shift(Field(stamp, 15, 21), 1),
    Field(stamp, 7, 14),
    Shift(Field(stamp, 0, 6), 1) \cup {0}>>

\* ISO/IEC 13818-1, 2.4.3.6: three, fifteen and fifteen bits, each group with
\* a marker bit behind it.  External: what other programs write and read.
IsoBytes(stamp) ==
  <<{5, 0} \cup Shift(Field(stamp, 30, 32), 1),
    Field(stamp, 22, 29),
    Shift(Field(stamp, 15, 21), 1) \cup {0},
    Field(stamp, 7, 14),
    Shift(Field(stamp, 0, 6), 1) \cup {0}>>
IsoStamp(bytes) ==
  UNION {Shift(Field(bytes[1], 1, 3), 30),
         Shift(bytes[2], 22),
         Shift(Field(bytes[3], 1, 7), 15),
         Shift(bytes[4], 7),
         Field(bytes[5], 1, 7)}
=============================================================================
