---------------------------- MODULE PacketPayload ----------------------------
(***************************************************************************)
(* Class TSPacket as a reader of packets, and class PES.  A transport      *)
(* packet is a record: pusi, whether it has a payload and an adaptation    *)
(* field, and the first byte of that field, its length.  The header of a   *)
(* PES is a record of its fields, with the bytes of its time stamps.       *)
(***************************************************************************)
EXTENDS TimeStamps

PacketSize == 188
TsHeader == 4

\* headerLen()
HeaderLen(p) == TsHeader + (IF p.adaptation THEN p.field + 1 ELSE 0)

\* field_len in getPayload() is a byte.  A bug of that kind: the byte that
\* holds the length is not counted.
AdaptationLenShort(p) == IF p.adaptation THEN p.field % 256 ELSE 0
AdaptationLen(p) == IF p.adaptation THEN (p.field + 1) % 256 ELSE 0

\* getPayload(): the length; a negative one is a size_t that wrapped around.
PayloadLen(p) ==
  IF p.payload THEN PacketSize - TsHeader - AdaptationLen(p) ELSE 0

-----------------------------------------------------------------------------
(* Class PES *)

NoPayload == [at |-> 0, len |-> 0, hasPts |-> FALSE, pts |-> {}]

HasExtension(id) == id \in (189..239) \ {190, 191}

\* The constructor, on have bytes that begin with header h.  A bounded PES says
\* how long the rest of it is, the extension of the header included.  A bug of
\* that kind: the length of the extension is forgotten.
PayloadLengthFixed(h, have) == IF h.length = 0 THEN have - 9 ELSE h.length
PayloadLength(h, have) ==
  IF h.length = 0 THEN have - 9 - h.headerLength ELSE h.length

PES(h, have) ==
  IF \/ have =< 6 \/ ~HasExtension(h.id)
     \/ have < 9 \/ have < 9 + h.headerLength
  THEN NoPayload
  ELSE [at |-> 9 + h.headerLength, len |-> PayloadLength(h, have),
        hasPts |-> h.hasPts,
        pts |-> IF h.hasPts THEN FromBytes(h.pts) ELSE {}]
=============================================================================
