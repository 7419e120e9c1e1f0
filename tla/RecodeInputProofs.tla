-------------------------- MODULE RecodeInputProofs --------------------------
(***************************************************************************)
(* What Process_Recode::run is given, whatever that is: options are the    *)
(* ones meant for command lines of any length, the video of tables that    *)
(* conform is found, pesScan has gathered every byte of a PES when it      *)
(* hands it to its callback, and the time stamp the callback reads has the *)
(* bits of the one sent but for seven to fifteen.                          *)
(***************************************************************************)
EXTENDS RecodeInput, InductionProofs

-----------------------------------------------------------------------------
(* What the reader and the writer of time stamps do to the 33 bits of one *)

\* Bits of a shifted number and of a field.
LEMMA ShiftBits ==
  ASSUME NEW S \in SUBSET Int, NEW n \in Int
  PROVE  /\ Shift(S, n) \in SUBSET Int
         /\ \A b \in Int : b \in Shift(S, n) <=> b - n \in S
BY DEF Shift

LEMMA FieldBits ==
  ASSUME NEW S \in SUBSET Int, NEW from \in Int, NEW to \in Int
  PROVE  /\ Field(S, from, to) \in SUBSET Int
         /\ \A b \in Int : b \in Field(S, from, to)
                             <=> b + from \in S /\ 0 =< b /\ b =< to - from
<1>1. S \cap (from..to) \in SUBSET Int /\ -from \in Int
  OBVIOUS
<1> QED
  BY <1>1, ShiftBits DEF Field

\* What stands in the five bytes of a time stamp, whoever reads them.
Bytes == [1..5 -> SUBSET Int]

\* The bytes the input has.
LEMMA IsoBytesBits ==
  ASSUME NEW t \in SUBSET (0..32)
  PROVE  /\ IsoBytes(t) \in Bytes
         /\ \A b \in 1..3 : b \in IsoBytes(t)[1] <=> b + 29 \in t
         /\ \A b \in Int : b \in IsoBytes(t)[2] <=> b + 22 \in t /\ b \in 0..7
         /\ \A b \in 1..7 : b \in IsoBytes(t)[3] <=> b + 14 \in t
         /\ \A b \in Int : b \in IsoBytes(t)[4] <=> b + 7 \in t /\ b \in 0..7
         /\ \A b \in 1..7 : b \in IsoBytes(t)[5] <=> b - 1 \in t
<1>0. t \in SUBSET Int
  OBVIOUS
<1> DEFINE f1 == Field(t, 30, 32)
           f3 == Field(t, 15, 21)
           f5 == Field(t, 0, 6)
<1>1. /\ f1 \in SUBSET Int /\ f3 \in SUBSET Int /\ f5 \in SUBSET Int
      /\ \A b \in Int : b \in f1 <=> b + 30 \in t /\ 0 =< b /\ b =< 2
      /\ \A b \in Int : b \in f3 <=> b + 15 \in t /\ 0 =< b /\ b =< 6
      /\ \A b \in Int : b \in f5 <=> b + 0 \in t /\ 0 =< b /\ b =< 6
  BY <1>0, FieldBits
<1>2. /\ Field(t, 22, 29) \in SUBSET Int /\ Field(t, 7, 14) \in SUBSET Int
      /\ \A b \in Int : b \in Field(t, 22, 29) <=> b + 22 \in t /\ 0 =< b /\ b =< 7
      /\ \A b \in Int : b \in Field(t, 7, 14) <=> b + 7 \in t /\ 0 =< b /\ b =< 7
  BY <1>0, FieldBits
<1> HIDE DEF f1, f3, f5
<1>3. /\ Shift(f1, 1) \in SUBSET Int /\ \A b \in Int : b \in Shift(f1, 1) <=> b - 1 \in f1
      /\ Shift(f3, 1) \in SUBSET Int /\ \A b \in Int : b \in Shift(f3, 1) <=> b - 1 \in f3
      /\ Shift(f5, 1) \in SUBSET Int /\ \A b \in Int : b \in Shift(f5, 1) <=> b - 1 \in f5
  BY <1>1, ShiftBits
<1>4. IsoBytes(t) = <<{5, 0} \cup Shift(f1, 1), Field(t, 22, 29), Shift(f3, 1) \cup {0},
                      Field(t, 7, 14), Shift(f5, 1) \cup {0}>>
  BY DEF IsoBytes, f1, f3, f5
<1>5. IsoBytes(t) \in Bytes
  BY <1>2, <1>3, <1>4 DEF Bytes
<1>6. \A b \in 1..3 : b \in IsoBytes(t)[1] <=> b + 29 \in t
  <2>1. TAKE b \in 1..3
  <2>2. b \in IsoBytes(t)[1] <=> b - 1 \in f1
    BY <1>3, <1>4
  <2>3. b - 1 \in f1 <=> (b - 1) + 30 \in t
    BY <1>1
  <2> QED
    BY <2>2, <2>3
<1>7. \A b \in 1..7 : b \in IsoBytes(t)[3] <=> b + 14 \in t
  <2>1. TAKE b \in 1..7
  <2>2. b \in IsoBytes(t)[3] <=> b - 1 \in f3
    BY <1>3, <1>4
  <2>3. b - 1 \in f3 <=> (b - 1) + 15 \in t
    BY <1>1
  <2> QED
    BY <2>2, <2>3
<1>8. \A b \in 1..7 : b \in IsoBytes(t)[5] <=> b - 1 \in t
  <2>1. TAKE b \in 1..7
  <2>2. b \in IsoBytes(t)[5] <=> b - 1 \in f5
    BY <1>3, <1>4
  <2>3. b - 1 \in f5 <=> (b - 1) + 0 \in t
    BY <1>1
  <2> QED
    BY <2>2, <2>3
<1> QED
  BY <1>2, <1>4, <1>5, <1>6, <1>7, <1>8

\* The bytes the remuxer writes.
LEMMA ToBytesBits ==
  ASSUME NEW t \in SUBSET Int
  PROVE  /\ ToBytes(t) \in Bytes
         /\ \A b \in 1..3 : b \in ToBytes(t)[1] <=> b + 29 \in t
         /\ \A b \in Int : b \in ToBytes(t)[2] <=> b + 23 \in t /\ b \in 0..7
         /\ \A b \in 1..7 : b \in ToBytes(t)[3] <=> b + 14 \in t
         /\ \A b \in Int : b \in ToBytes(t)[4] <=> b + 7 \in t /\ b \in 0..7
         /\ \A b \in 1..7 : b \in ToBytes(t)[5] <=> b - 1 \in t
<1> DEFINE f1 == Field(t, 30, 32)
           f3 == Field(t, 15, 21)
           f5 == Field(t, 0, 6)
<1>1. /\ f1 \in SUBSET Int /\ f3 \in SUBSET Int /\ f5 \in SUBSET Int
      /\ \A b \in Int : b \in f1 <=> b + 30 \in t /\ 0 =< b /\ b =< 2
      /\ \A b \in Int : b \in f3 <=> b + 15 \in t /\ 0 =< b /\ b =< 6
      /\ \A b \in Int : b \in f5 <=> b + 0 \in t /\ 0 =< b /\ b =< 6
  BY FieldBits
<1>2. /\ Field(t, 23, 30) \in SUBSET Int /\ Field(t, 7, 14) \in SUBSET Int
      /\ \A b \in Int : b \in Field(t, 23, 30) <=> b + 23 \in t /\ 0 =< b /\ b =< 7
      /\ \A b \in Int : b \in Field(t, 7, 14) <=> b + 7 \in t /\ 0 =< b /\ b =< 7
  BY FieldBits
<1> HIDE DEF f1, f3, f5
<1>3. /\ Shift(f1, 1) \in SUBSET Int /\ \A b \in Int : b \in Shift(f1, 1) <=> b - 1 \in f1
      /\ Shift(f3, 1) \in SUBSET Int /\ \A b \in Int : b \in Shift(f3, 1) <=> b - 1 \in f3
      /\ Shift(f5, 1) \in SUBSET Int /\ \A b \in Int : b \in Shift(f5, 1) <=> b - 1 \in f5
  BY <1>1, ShiftBits
<1>4. ToBytes(t) = <<{5, 0} \cup Shift(f1, 1), Field(t, 23, 30), Shift(f3, 1),
                      Field(t, 7, 14), Shift(f5, 1) \cup {0}>>
  BY DEF ToBytes, f1, f3, f5
<1>5. ToBytes(t) \in Bytes
  BY <1>2, <1>3, <1>4 DEF Bytes
<1>6. \A b \in 1..3 : b \in ToBytes(t)[1] <=> b + 29 \in t
  <2>1. TAKE b \in 1..3
  <2>2. b \in ToBytes(t)[1] <=> b - 1 \in f1
    BY <1>3, <1>4
  <2>3. b - 1 \in f1 <=> (b - 1) + 30 \in t
    BY <1>1
  <2> QED
    BY <2>2, <2>3
<1>7. \A b \in 1..7 : b \in ToBytes(t)[3] <=> b + 14 \in t
  <2>1. TAKE b \in 1..7
  <2>2. b \in ToBytes(t)[3] <=> b - 1 \in f3
    BY <1>3, <1>4
  <2>3. b - 1 \in f3 <=> (b - 1) + 15 \in t
    BY <1>1
  <2> QED
    BY <2>2, <2>3
<1>8. \A b \in 1..7 : b \in ToBytes(t)[5] <=> b - 1 \in t
  <2>1. TAKE b \in 1..7
  <2>2. b \in ToBytes(t)[5] <=> b - 1 \in f5
    BY <1>3, <1>4
  <2>3. b - 1 \in f5 <=> (b - 1) + 0 \in t
    BY <1>1
  <2> QED
    BY <2>2, <2>3
<1> QED
  BY <1>2, <1>4, <1>5, <1>6, <1>7, <1>8

\* The bits the two readers make of five bytes.
LEMMA FromBytesBits ==
  ASSUME NEW x \in Bytes
  PROVE  /\ FromBytes(x) \in SUBSET Int
         /\ \A b \in Int :
              b \in FromBytes(x) <=>
                \/ b \in 30..32 /\ b - 29 \in x[1]
                \/ b - 23 \in x[2]
                \/ b \in 15..21 /\ b - 14 \in x[3]
                \/ b - 8 \in x[4]
                \/ b \in 0..6 /\ b + 1 \in x[5]
<1> DEFINE f1 == Field(x[1], 1, 3)
           f3 == Field(x[3], 1, 7)
           f5 == Field(x[5], 1, 7)
<1>1. x[1] \in SUBSET Int /\ x[2] \in SUBSET Int /\ x[3] \in SUBSET Int
      /\ x[4] \in SUBSET Int /\ x[5] \in SUBSET Int
  BY DEF Bytes
<1>2. /\ f1 \in SUBSET Int /\ f3 \in SUBSET Int /\ f5 \in SUBSET Int
      /\ \A b \in Int : b \in f1 <=> b + 1 \in x[1] /\ 0 =< b /\ b =< 2
      /\ \A b \in Int : b \in f3 <=> b + 1 \in x[3] /\ 0 =< b /\ b =< 6
      /\ \A b \in Int : b \in f5 <=> b + 1 \in x[5] /\ 0 =< b /\ b =< 6
  BY <1>1, FieldBits
<1>3. FromBytes(x) = UNION {Shift(f1, 30), Shift(x[2], 23), Shift(f3, 15),
                            Shift(x[4], 8), f5}
  BY DEF FromBytes, f1, f3, f5
<1> HIDE DEF f1, f3, f5
<1>4. /\ Shift(f1, 30) \in SUBSET Int
      /\ \A b \in Int : b \in Shift(f1, 30) <=> b - 30 \in f1
      /\ Shift(x[2], 23) \in SUBSET Int
      /\ \A b \in Int : b \in Shift(x[2], 23) <=> b - 23 \in x[2]
      /\ Shift(f3, 15) \in SUBSET Int
      /\ \A b \in Int : b \in Shift(f3, 15) <=> b - 15 \in f3
      /\ Shift(x[4], 8) \in SUBSET Int
      /\ \A b \in Int : b \in Shift(x[4], 8) <=> b - 8 \in x[4]
  BY <1>1, <1>2, ShiftBits
<1>5. FromBytes(x) \in SUBSET Int
  BY <1>2, <1>3, <1>4
<1>6. ASSUME NEW b \in Int
      PROVE  b \in FromBytes(x) <=>
               \/ b \in 30..32 /\ b - 29 \in x[1]
               \/ b - 23 \in x[2]
               \/ b \in 15..21 /\ b - 14 \in x[3]
               \/ b - 8 \in x[4]
               \/ b \in 0..6 /\ b + 1 \in x[5]
  <2>1. b \in FromBytes(x) <=>
          \/ b \in Shift(f1, 30) \/ b \in Shift(x[2], 23)
          \/ b \in Shift(f3, 15) \/ b \in Shift(x[4], 8)
          \/ b \in f5
    BY <1>3
  <2>2. b \in Shift(f1, 30) <=> b \in 30..32 /\ (b - 30) + 1 \in x[1]
    BY <1>2, <1>4
  <2>3. b \in Shift(f3, 15) <=> b \in 15..21 /\ (b - 15) + 1 \in x[3]
    BY <1>2, <1>4
  <2>4. b \in f5 <=> b \in 0..6 /\ b + 1 \in x[5]
    BY <1>2
  <2>5. (b - 30) + 1 = b - 29 /\ (b - 15) + 1 = b - 14
    OBVIOUS
  <2>6. /\ b \in Shift(x[2], 23) <=> b - 23 \in x[2]
        /\ b \in Shift(x[4], 8) <=> b - 8 \in x[4]
    BY <1>4
  <2> QED
    BY <2>1, <2>2, <2>3, <2>4, <2>5, <2>6
<1> QED
  BY <1>5, <1>6

\* The bits the two readers make of five bytes.
LEMMA IsoStampBits ==
  ASSUME NEW x \in Bytes
  PROVE  /\ IsoStamp(x) \in SUBSET Int
         /\ \A b \in Int :
              b \in IsoStamp(x) <=>
                \/ b \in 30..32 /\ b - 29 \in x[1]
                \/ b - 22 \in x[2]
                \/ b \in 15..21 /\ b - 14 \in x[3]
                \/ b - 7 \in x[4]
                \/ b \in 0..6 /\ b + 1 \in x[5]
<1> DEFINE f1 == Field(x[1], 1, 3)
           f3 == Field(x[3], 1, 7)
           f5 == Field(x[5], 1, 7)
<1>1. x[1] \in SUBSET Int /\ x[2] \in SUBSET Int /\ x[3] \in SUBSET Int
      /\ x[4] \in SUBSET Int /\ x[5] \in SUBSET Int
  BY DEF Bytes
<1>2. /\ f1 \in SUBSET Int /\ f3 \in SUBSET Int /\ f5 \in SUBSET Int
      /\ \A b \in Int : b \in f1 <=> b + 1 \in x[1] /\ 0 =< b /\ b =< 2
      /\ \A b \in Int : b \in f3 <=> b + 1 \in x[3] /\ 0 =< b /\ b =< 6
      /\ \A b \in Int : b \in f5 <=> b + 1 \in x[5] /\ 0 =< b /\ b =< 6
  BY <1>1, FieldBits
<1>3. IsoStamp(x) = UNION {Shift(f1, 30), Shift(x[2], 22), Shift(f3, 15),
                            Shift(x[4], 7), f5}
  BY DEF IsoStamp, f1, f3, f5
<1> HIDE DEF f1, f3, f5
<1>4. /\ Shift(f1, 30) \in SUBSET Int
      /\ \A b \in Int : b \in Shift(f1, 30) <=> b - 30 \in f1
      /\ Shift(x[2], 22) \in SUBSET Int
      /\ \A b \in Int : b \in Shift(x[2], 22) <=> b - 22 \in x[2]
      /\ Shift(f3, 15) \in SUBSET Int
      /\ \A b \in Int : b \in Shift(f3, 15) <=> b - 15 \in f3
      /\ Shift(x[4], 7) \in SUBSET Int
      /\ \A b \in Int : b \in Shift(x[4], 7) <=> b - 7 \in x[4]
  BY <1>1, <1>2, ShiftBits
<1>5. IsoStamp(x) \in SUBSET Int
  BY <1>2, <1>3, <1>4
<1>6. ASSUME NEW b \in Int
      PROVE  b \in IsoStamp(x) <=>
               \/ b \in 30..32 /\ b - 29 \in x[1]
               \/ b - 22 \in x[2]
               \/ b \in 15..21 /\ b - 14 \in x[3]
               \/ b - 7 \in x[4]
               \/ b \in 0..6 /\ b + 1 \in x[5]
  <2>1. b \in IsoStamp(x) <=>
          \/ b \in Shift(f1, 30) \/ b \in Shift(x[2], 22)
          \/ b \in Shift(f3, 15) \/ b \in Shift(x[4], 7)
          \/ b \in f5
    BY <1>3
  <2>2. b \in Shift(f1, 30) <=> b \in 30..32 /\ (b - 30) + 1 \in x[1]
    BY <1>2, <1>4
  <2>3. b \in Shift(f3, 15) <=> b \in 15..21 /\ (b - 15) + 1 \in x[3]
    BY <1>2, <1>4
  <2>4. b \in f5 <=> b \in 0..6 /\ b + 1 \in x[5]
    BY <1>2
  <2>5. (b - 30) + 1 = b - 29 /\ (b - 15) + 1 = b - 14
    OBVIOUS
  <2>6. /\ b \in Shift(x[2], 22) <=> b - 22 \in x[2]
        /\ b \in Shift(x[4], 7) <=> b - 7 \in x[4]
    BY <1>4
  <2> QED
    BY <2>1, <2>2, <2>3, <2>4, <2>5, <2>6
<1> QED
  BY <1>5, <1>6

-----------------------------------------------------------------------------
\* A time stamp sent as ISO/IEC 13818-1 wants it is read as it was.
THEOREM IsoExact == \A t \in SUBSET (0..32) : IsoStamp(IsoBytes(t)) = t
<1>1. TAKE t \in SUBSET (0..32)
<1>2. /\ IsoStamp(IsoBytes(t)) \in SUBSET Int
      /\ \A b \in Int : b \in IsoStamp(IsoBytes(t)) <=>
            \/ b \in 30..32 /\ b - 29 \in IsoBytes(t)[1]
            \/ b - 22 \in IsoBytes(t)[2]
            \/ b \in 15..21 /\ b - 14 \in IsoBytes(t)[3]
            \/ b - 7 \in IsoBytes(t)[4]
            \/ b \in 0..6 /\ b + 1 \in IsoBytes(t)[5]
  <2>1. IsoBytes(t) \in Bytes
    BY IsoBytesBits
  <2> QED
    BY <2>1, IsoStampBits
<1>3. ASSUME NEW b \in Int PROVE b \in IsoStamp(IsoBytes(t)) <=> b \in t
  <2>1. b \in 30..32 => (b - 29 \in IsoBytes(t)[1] <=> (b - 29) + 29 \in t)
    BY IsoBytesBits
  <2>2. b - 22 \in IsoBytes(t)[2] <=> (b - 22) + 22 \in t /\ b - 22 \in 0..7
    BY IsoBytesBits
  <2>3. b \in 15..21 => (b - 14 \in IsoBytes(t)[3] <=> (b - 14) + 14 \in t)
    BY IsoBytesBits
  <2>4. b - 7 \in IsoBytes(t)[4] <=> (b - 7) + 7 \in t /\ b - 7 \in 0..7
    BY IsoBytesBits
  <2>5. b \in 0..6 => (b + 1 \in IsoBytes(t)[5] <=> (b + 1) - 1 \in t)
    BY IsoBytesBits
  <2>6. b \in t => b \in 0..32
    OBVIOUS
  <2> QED
    BY <1>2, <2>1, <2>2, <2>3, <2>4, <2>5, <2>6
<1>4. t \in SUBSET Int
  OBVIOUS
<1> QED
  BY <1>2, <1>3, <1>4

\* What MyBe reads: bits 7 to 14 and 22 to 29 are one place too high.
LEMMA ReadBits ==
  ASSUME NEW t \in SUBSET (0..32)
  PROVE  /\ FromBytes(IsoBytes(t)) \in SUBSET Int
         /\ \A b \in Int : b \in FromBytes(IsoBytes(t)) <=>
              \/ b \in 0..6 \cup 15..21 \cup 30..32 /\ b \in t
              \/ b \in 8..15 \cup 23..30 /\ b - 1 \in t
<1>1. /\ FromBytes(IsoBytes(t)) \in SUBSET Int
      /\ \A b \in Int : b \in FromBytes(IsoBytes(t)) <=>
            \/ b \in 30..32 /\ b - 29 \in IsoBytes(t)[1]
            \/ b - 23 \in IsoBytes(t)[2]
            \/ b \in 15..21 /\ b - 14 \in IsoBytes(t)[3]
            \/ b - 8 \in IsoBytes(t)[4]
            \/ b \in 0..6 /\ b + 1 \in IsoBytes(t)[5]
  <2>1. IsoBytes(t) \in Bytes
    BY IsoBytesBits
  <2> QED
    BY <2>1, FromBytesBits
<1>2. ASSUME NEW b \in Int
      PROVE  b \in FromBytes(IsoBytes(t)) <=>
               \/ b \in 0..6 \cup 15..21 \cup 30..32 /\ b \in t
               \/ b \in 8..15 \cup 23..30 /\ b - 1 \in t
  <2>1. b \in 30..32 => (b - 29 \in IsoBytes(t)[1] <=> (b - 29) + 29 \in t)
    BY IsoBytesBits
  <2>2. b - 23 \in IsoBytes(t)[2] <=> (b - 23) + 22 \in t /\ b - 23 \in 0..7
    BY IsoBytesBits
  <2>3. b \in 15..21 => (b - 14 \in IsoBytes(t)[3] <=> (b - 14) + 14 \in t)
    BY IsoBytesBits
  <2>4. b - 8 \in IsoBytes(t)[4] <=> (b - 8) + 7 \in t /\ b - 8 \in 0..7
    BY IsoBytesBits
  <2>5. b \in 0..6 => (b + 1 \in IsoBytes(t)[5] <=> (b + 1) - 1 \in t)
    BY IsoBytesBits
  <2>6. /\ (b - 29) + 29 = b /\ (b - 23) + 22 = b - 1 /\ (b - 14) + 14 = b
        /\ (b - 8) + 7 = b - 1 /\ (b + 1) - 1 = b
    OBVIOUS
  <2> QED
    BY <1>1, <2>1, <2>2, <2>3, <2>4, <2>5, <2>6
<1> QED
  BY <1>1, <1>2

\* What a player reads of a stamp the remuxer wrote.
LEMMA WrittenBits ==
  ASSUME NEW s \in SUBSET Int
  PROVE  /\ IsoStamp(ToBytes(s)) \in SUBSET Int
         /\ \A b \in Int : b \in IsoStamp(ToBytes(s)) <=>
              \/ b \in 0..21 \cup 30..32 /\ b \in s
              \/ b \in 22..29 /\ b + 1 \in s
<1>1. /\ IsoStamp(ToBytes(s)) \in SUBSET Int
      /\ \A b \in Int : b \in IsoStamp(ToBytes(s)) <=>
            \/ b \in 30..32 /\ b - 29 \in ToBytes(s)[1]
            \/ b - 22 \in ToBytes(s)[2]
            \/ b \in 15..21 /\ b - 14 \in ToBytes(s)[3]
            \/ b - 7 \in ToBytes(s)[4]
            \/ b \in 0..6 /\ b + 1 \in ToBytes(s)[5]
  <2>1. ToBytes(s) \in Bytes
    BY ToBytesBits
  <2> QED
    BY <2>1, IsoStampBits
<1>2. ASSUME NEW b \in Int
      PROVE  b \in IsoStamp(ToBytes(s)) <=>
               \/ b \in 0..21 \cup 30..32 /\ b \in s
               \/ b \in 22..29 /\ b + 1 \in s
  <2>1. b \in 30..32 => (b - 29 \in ToBytes(s)[1] <=> (b - 29) + 29 \in s)
    BY ToBytesBits
  <2>2. b - 22 \in ToBytes(s)[2] <=> (b - 22) + 23 \in s /\ b - 22 \in 0..7
    BY ToBytesBits
  <2>3. b \in 15..21 => (b - 14 \in ToBytes(s)[3] <=> (b - 14) + 14 \in s)
    BY ToBytesBits
  <2>4. b - 7 \in ToBytes(s)[4] <=> (b - 7) + 7 \in s /\ b - 7 \in 0..7
    BY ToBytesBits
  <2>5. b \in 0..6 => (b + 1 \in ToBytes(s)[5] <=> (b + 1) - 1 \in s)
    BY ToBytesBits
  <2>6. /\ (b - 29) + 29 = b /\ (b - 22) + 23 = b + 1 /\ (b - 14) + 14 = b
        /\ (b - 7) + 7 = b /\ (b + 1) - 1 = b
    OBVIOUS
  <2> QED
    BY <1>1, <2>1, <2>2, <2>3, <2>4, <2>5, <2>6
<1> QED
  BY <1>1, <1>2

\* A time stamp that is read and written again keeps bits 0 to 6 and, below
\* 2^29, those from 16 on; bits 7 to 14 move up by one, into bit 15 too.
THEOREM RewrittenBits ==
  ASSUME NEW t \in SUBSET (0..32)
  PROVE  \A b \in Int : b \in IsoStamp(ToBytes(FromBytes(IsoBytes(t)))) <=>
           \/ b \in 0..6 \cup 15..32 /\ b \in t
           \/ b \in 8..15 /\ b - 1 \in t
           \/ b = 29 /\ 30 \in t
           \/ b = 30 /\ 29 \in t
<1> DEFINE s == FromBytes(IsoBytes(t))
<1>1. /\ s \in SUBSET Int
      /\ \A b \in Int : b \in s <=>
           \/ b \in 0..6 \cup 15..21 \cup 30..32 /\ b \in t
           \/ b \in 8..15 \cup 23..30 /\ b - 1 \in t
  BY ReadBits
<1> HIDE DEF s
<1>2. \A b \in Int : b \in IsoStamp(ToBytes(s)) <=>
        \/ b \in 0..21 \cup 30..32 /\ b \in s
        \/ b \in 22..29 /\ b + 1 \in s
  BY <1>1, WrittenBits
<1>3. ASSUME NEW b \in Int
      PROVE  b \in IsoStamp(ToBytes(s)) <=>
               \/ b \in 0..6 \cup 15..32 /\ b \in t
               \/ b \in 8..15 /\ b - 1 \in t
               \/ b = 29 /\ 30 \in t
               \/ b = 30 /\ 29 \in t
  <2>1. b \in s <=>
          \/ b \in 0..6 \cup 15..21 \cup 30..32 /\ b \in t
          \/ b \in 8..15 \cup 23..30 /\ b - 1 \in t
    BY <1>1
  <2>2. b + 1 \in s <=>
          \/ b + 1 \in 0..6 \cup 15..21 \cup 30..32 /\ b + 1 \in t
          \/ b + 1 \in 8..15 \cup 23..30 /\ (b + 1) - 1 \in t
    BY <1>1
  <2>3. (b + 1) - 1 = b
    OBVIOUS
  <2>4. b \in IsoStamp(ToBytes(s)) <=>
          \/ b \in 0..21 \cup 30..32 /\ b \in s
          \/ b \in 22..29 /\ b + 1 \in s
    BY <1>2
  <2>5. b \in 0..21 \cup 30..32 /\ b \in s <=>
          \/ b \in 0..6 \cup 15..21 \cup 30..32 /\ b \in t
          \/ b \in 8..15 /\ b - 1 \in t
          \/ b = 30 /\ 29 \in t
    BY <2>1
  <2>6. b \in 22..29 /\ b + 1 \in s <=>
          \/ b \in 22..29 /\ b \in t
          \/ b = 29 /\ 30 \in t
    BY <2>2, <2>3
  <2> QED
    BY <2>4, <2>5, <2>6
<1> QED
  BY <1>3 DEF s

-----------------------------------------------------------------------------
(* The packets of the input *)

LEMMA HeaderFacts ==
  ASSUME NEW h \in Headers
  PROVE  /\ h # NoHeader
         /\ h.id = 224
         /\ h.headerLength \in 0..8
         /\ h.body \in Nat
         /\ h.stamp \in SUBSET (0..32)
         /\ h.hasPts = (h.stamp # {})
         /\ h.pts = IsoBytes(h.stamp)
         /\ h.length \in {0, 3 + h.headerLength + h.body}
         /\ Total(h) = 9 + h.headerLength + h.body
<1>1. PICK bounded \in BOOLEAN, stamp \in Stamps, stuffing \in {0, 3}, body \in Bodies :
        h = Header(bounded, stamp, stuffing, body)
  BY DEF Headers
<1> DEFINE len == (IF stamp = {} THEN 0 ELSE 5) + stuffing
<1>2. len \in 0..8
  OBVIOUS
<1> HIDE DEF len
<1>3. h = [id |-> 224, headerLength |-> len, body |-> body, stamp |-> stamp,
           length |-> IF bounded THEN 3 + len + body ELSE 0,
           hasPts |-> stamp # {}, pts |-> IsoBytes(stamp)]
  BY <1>1 DEF Header, len
<1>4. /\ h.id = 224 /\ h.headerLength = len /\ h.body = body /\ h.stamp = stamp
      /\ h.length \in {0, 3 + len + body}
      /\ h.hasPts = (stamp # {}) /\ h.pts = IsoBytes(stamp)
  BY <1>3
<1>5. h # NoHeader
  BY <1>4 DEF NoHeader
<1> QED
  BY <1>2, <1>4, <1>5, InputAssumption DEF Total

\* getPayload() returns what a packet carries (TSPacket.cpp:69-89).
LEMMA PayloadIsCarried ==
  ASSUME NEW n \in Nat, NEW p \in PacketsFor(n)
  PROVE  PayloadLen(p) = Carried(p) /\ Carried(p) \in 0..n
<1>1. /\ p.payload \in BOOLEAN /\ p.adaptation \in BOOLEAN
      /\ p.field \in 0..183 /\ Carried(p) =< n
  <2>1. /\ p \in [payload: BOOLEAN, adaptation: BOOLEAN,
                  field: Fields \cup ({183 - n} \cap Nat)]
        /\ Carried(p) =< n
    BY DEF PacketsFor
  <2>2. Fields \cup ({183 - n} \cap Nat) \subseteq 0..183
    BY InputAssumption
  <2> QED
    BY <2>1, <2>2
<1>2. AdaptationLen(p) = IF p.adaptation THEN p.field + 1 ELSE 0
  BY <1>1 DEF AdaptationLen
<1> QED
  BY <1>1, <1>2 DEF PayloadLen, Carried, PacketSize, TsHeader

-----------------------------------------------------------------------------
(* The inductive invariant: Gathered, and that a PES goes to the callback    *)
(* when all of it has arrived.                                               *)

GatherInv ==
  /\ left \in Nat
  /\ pes \in [header: Headers \cup {NoHeader}, have: Nat]
  /\ Gathered

ScannedInv ==
  \/ scanned.header = NoHeader
  \/ /\ scanned.header \in Headers
     /\ scanned.have = Total(scanned.header)
     /\ scanned.read = PES(scanned.header, scanned.have)

PesInv == GatherInv /\ ScannedInv

LEMMA InitPesInv == Init => PesInv
BY DEF Init, PesInv, GatherInv, ScannedInv, Gathered, Total

LEMMA StepPesInv ==
  ASSUME PesInv, [Next]_vars
  PROVE  PesInv'
<1>0. GatherInv /\ ScannedInv
  BY DEF PesInv
<1>1. ASSUME UNCHANGED scanVars PROVE PesInv'
  BY <1>0, <1>1 DEF PesInv, GatherInv, ScannedInv, Gathered, scanVars
<1>2. CASE Options
  BY <1>1, <1>2 DEF Options, OutputName, NotRecognized, Switch, Value,
                    ValueMissing, HelpOrInvalid, Usage, Parsed
<1>3. CASE TablesAndFile
  BY <1>1, <1>3 DEF TablesAndFile, CannotMap, Load, FindPat, NoPat, GarbledPat,
                    FindPmt, NoPmt, GarbledPmt, GoOn
<1>4. ASSUME NEW h \in Headers, NEW p \in PacketsFor(Total(h)), StartPes(p, h)
      PROVE  PesInv'
  <2>1. Total(h) \in Nat
    BY HeaderFacts
  <2>2. PayloadLen(p) = Carried(p) /\ Carried(p) \in 0..Total(h)
    BY <2>1, PayloadIsCarried
  <2>3. GatherInv'
    BY <1>4, <2>1, <2>2 DEF StartPes, GatherInv, Gathered
  <2>4. ScannedInv'
    <3>1. CASE pes.have = 0
      BY <1>0, <1>4, <3>1 DEF StartPes, ScannedInv
    <3>2. CASE pes.have # 0
      <4>1. pes.have = Total(pes.header)
        BY <1>0, <1>4 DEF StartPes, GatherInv, Gathered
      <4>2. pes.header \in Headers
        BY <1>0, <3>2, <4>1 DEF GatherInv, Total
      <4>3. scanned' = [header |-> pes.header, have |-> pes.have,
                        read |-> PES(pes.header, pes.have)]
        BY <1>4, <3>2 DEF StartPes
      <4> QED
        BY <4>1, <4>2, <4>3 DEF ScannedInv
    <3> QED
      BY <3>1, <3>2
  <2> QED
    BY <2>3, <2>4 DEF PesInv
<1>5. ASSUME NEW p \in PacketsFor(left), ContinuePes(p)
      PROVE  PesInv'
  <2>1. PayloadLen(p) = Carried(p) /\ Carried(p) \in 0..left
    BY <1>0, PayloadIsCarried DEF GatherInv
  <2>2. Total(pes.header) \in Nat
    BY <1>0, HeaderFacts DEF GatherInv, Gathered
  <2>3. GatherInv'
    BY <1>0, <1>5, <2>1, <2>2 DEF ContinuePes, GatherInv, Gathered
  <2> QED
    BY <1>0, <1>5, <2>3 DEF PesInv, ScannedInv, ContinuePes
<1>6. CASE EndOfScan
  BY <1>1, <1>6 DEF EndOfScan
<1>7. CASE UNCHANGED vars
  BY <1>1, <1>7 DEF vars
<1> QED
  BY <1>2, <1>3, <1>4, <1>5, <1>6, <1>7 DEF Next, Scan

THEOREM PesCorrect == Spec => []PesInv
BY InitPesInv, StepPesInv, PTL DEF Spec

-----------------------------------------------------------------------------
(* What follows from it *)

\* No byte of a PES is lost, doubled or taken from an adaptation field.
THEOREM AllGathered == Spec => []Gathered
<1>1. PesInv => Gathered
  BY DEF PesInv, GatherInv
<1> QED
  BY <1>1, PesCorrect, PTL

\* What the constructor of PES makes of a whole PES (PES.cpp:29-93).
LEMMA WholePes ==
  ASSUME NEW h \in Headers
  PROVE  PES(h, Total(h)) =
           [at |-> 9 + h.headerLength,
            len |-> IF h.length = 0 THEN h.body ELSE h.length,
            hasPts |-> h.hasPts,
            pts |-> IF h.hasPts THEN FromBytes(h.pts) ELSE {}]
<1>1. /\ h.id = 224 /\ h.headerLength \in 0..8 /\ h.body \in Nat
      /\ Total(h) = 9 + h.headerLength + h.body
  BY HeaderFacts
<1>2. HasExtension(h.id)
  BY <1>1 DEF HasExtension
<1>3. PayloadLength(h, Total(h)) = IF h.length = 0 THEN h.body ELSE h.length
  BY <1>1 DEF PayloadLength
<1> QED
  BY <1>1, <1>2, <1>3 DEF PES

\* The payload given to the callback begins at its first byte, and that of an
\* unbounded PES is all of it and nothing else.
THEOREM UnboundedAreWhole == Spec => []UnboundedWhole
<1>1. ScannedInv => UnboundedWhole
  <2> SUFFICES ASSUME ScannedInv, scanned.header # NoHeader
               PROVE  UnboundedWhole
    BY DEF UnboundedWhole
  <2>1. /\ scanned.header \in Headers
        /\ scanned.have = Total(scanned.header)
        /\ scanned.read = PES(scanned.header, scanned.have)
    BY DEF ScannedInv
  <2> DEFINE h == scanned.header
  <2>2. /\ h.headerLength \in 0..8 /\ h.body \in Nat
        /\ Total(h) = 9 + h.headerLength + h.body
        /\ h.length \in {0, 3 + h.headerLength + h.body}
    BY <2>1, HeaderFacts
  <2>3. /\ scanned.read.at = 9 + h.headerLength
        /\ scanned.read.len = IF h.length = 0 THEN h.body ELSE h.length
    BY <2>1, WholePes
  <2> QED
    BY <2>1, <2>2, <2>3 DEF UnboundedWhole
<1> QED
  BY <1>1, PesCorrect, PTL DEF PesInv

\* Below 2^29 a time stamp comes out less than 2^16 ticks from where it was.
THEOREM StampsAreNear == Spec => []StampNear
<1>1. ScannedInv => StampNear
  <2> SUFFICES ASSUME ScannedInv, scanned.header # NoHeader,
                      scanned.header.stamp \subseteq 0..28,
                      NEW b \in 0..6 \cup 16..32
               PROVE  b \in Rewritten <=> b \in scanned.header.stamp
    BY DEF StampNear
  <2> DEFINE h == scanned.header
             t == h.stamp
  <2>1. /\ h \in Headers
        /\ scanned.read = PES(h, Total(h))
    BY DEF ScannedInv
  <2>2. /\ t \in SUBSET (0..32) /\ h.hasPts = (t # {}) /\ h.pts = IsoBytes(t)
    BY <2>1, HeaderFacts
  <2>3. scanned.read.pts = IF t # {} THEN FromBytes(IsoBytes(t)) ELSE {}
    <3>1. scanned.read.pts = IF h.hasPts THEN FromBytes(h.pts) ELSE {}
      BY <2>1, WholePes, SMTT(30)
    <3>2. h.hasPts <=> t # {}
      BY <2>2
    <3> QED
      BY <2>2, <3>1, <3>2
  <2>4. CASE t # {}
    <3>1. Rewritten = IsoStamp(ToBytes(FromBytes(IsoBytes(t))))
      BY <2>3, <2>4 DEF Rewritten
    <3>2. b \in Rewritten <=> \/ b \in 0..6 \cup 15..32 /\ b \in t
                              \/ b \in 8..15 /\ b - 1 \in t
                              \/ b = 29 /\ 30 \in t
                              \/ b = 30 /\ 29 \in t
      BY <2>2, <3>1, RewrittenBits
    <3> QED
      BY <3>2
  <2>5. CASE t = {}
    <3>1. Rewritten = IsoStamp(ToBytes({}))
      BY <2>3, <2>5 DEF Rewritten
    <3>2. {} \in SUBSET Int /\ b \in Int
      OBVIOUS
    <3> QED
      BY <2>5, <3>1, <3>2, WrittenBits
  <2> QED
    BY <2>4, <2>5
<1> QED
  BY <1>1, PesCorrect, PTL DEF PesInv

-----------------------------------------------------------------------------
(* The options.  When the first m arguments are parsed, the options are the  *)
(* ones meant by them.                                                       *)

UsesBy(flag, m) == {n \in Uses(flag) : n =< m}
ValueBy(flag, m) == given[Latest(UsesBy(flag, m)) + 1]

SourceBy(m) == IF UsesBy("-i", m) = {} THEN "input.ts" ELSE ValueBy("-i", m)
DestBy(m) == IF m = Len(given) /\ m \in Plain /\ given[m] \notin Flags \cup TooLong
             THEN given[m] ELSE "output.ts"
FramesBy(m) == IF UsesBy("-f", m) = {} THEN -1 ELSE Atoi[ValueBy("-f", m)]
QualityBy(m) == IF UsesBy("-q", m) = {} THEN -1 ELSE Atoi[ValueBy("-q", m)]

MeantBy(m) ==
  [source |-> SourceBy(m), dest |-> DestBy(m),
   save |-> UsesBy("-s", m) # {}, decode |-> UsesBy("-d", m) # {},
   frames |-> FramesBy(m), quality |-> QualityBy(m)]

\* What rc says of the first m arguments.
Accepted(m) ==
  \A n \in Plain : n =< m =>
    \/ given[n] \in Known
    \/ n = Len(given) /\ given[n] \notin Flags \cup TooLong
Refused(m) == \E n \in Plain : n =< m /\ given[n] \in Flags \ Known

\* The first m arguments were parsed, with these are left, this rc and these
\* options.
ParsedTo(m, rest, code, options) ==
  /\ m \in 0..Len(given)
  /\ rest = SubSeq(given, m + 1, Len(given))
  /\ m < Len(given) => m + 1 \in Plain
  /\ \A n \in Plain : n =< m /\ given[n] \in TakesValue => n < m
  /\ \/ code = 0 /\ Accepted(m)
     \/ code = -1 /\ Refused(m)
  /\ options = MeantBy(m)

OptionsInv ==
  /\ given \in ArgLists \cup {<<>>}
  /\ pc \in {"parse", "open"} =>
       \E m \in 0..Len(given) : ParsedTo(m, argv, rc, opts)
  /\ pc = "open" => argv = <<>> /\ rc = 0
  /\ pc # "done" => ret = 0
  /\ pc = "done" /\ ret = 1 => ~Understood
  /\ pc = "killed" /\ segment = NoSegment => Missing
  /\ pc \in {"parse", "open"} => segment = NoSegment
  /\ pc = "pmt" => pmtPid \in DOMAIN segment.pmts

\* Where a value is, from argument to argument.
IsValues(f) ==
  /\ f \in [0..Len(given) -> SUBSET Nat]
  /\ f[0] = {}
  /\ \A n \in 1..Len(given) :
       f[n] = IF n > 1 /\ given[n - 1] \in TakesValue /\ n - 1 \notin f[n - 1]
              THEN f[n - 1] \cup {n} ELSE f[n - 1]
  /\ Values = f[Len(given)]

LEMMA ValuesFunction ==
  ASSUME Len(given) \in Nat
  PROVE  \E f : IsValues(f)
<1> DEFINE N == Len(given)
           Q == SUBSET Nat
           Turn(q, n) ==
             IF n > 1 /\ given[n - 1] \in TakesValue /\ n - 1 \notin q
             THEN q \cup {n} ELSE q
           step == [n \in 1..N |-> [q \in Q |-> Turn(q, n)]]
           Body(f, n) ==
             IF n = 0 THEN {}
             ELSE IF n > 1 /\ given[n - 1] \in TakesValue /\ n - 1 \notin f[n - 1]
                  THEN f[n - 1] \cup {n} ELSE f[n - 1]
           values == CHOOSE f : f = [n \in 0..N |-> Body(f, n)]
<1>1. /\ N \in Nat /\ {} \in Q /\ 0 \in 0..N
      /\ \A n \in 0..N : n = 0 \/ n \in 1..N
      /\ \A n \in 1..N : n \in 0..N /\ n - 1 \in 0..N /\ n # 0
      /\ \A n \in 1..N, q \in Q : Turn(q, n) \in Q
  OBVIOUS
<1>2. \A f, n : n # 0 => Body(f, n) = Turn(f[n - 1], n)
  OBVIOUS
<1>3. \A f : Body(f, 0) = {}
  OBVIOUS
<1> HIDE DEF Turn
<1>4. step \in [1..N -> [Q -> Q]]
  BY <1>1
<1> HIDE DEF N, Q
<1>5. PICK f : IsRecursive(f, N, Q, {}, step)
  <2> HIDE DEF step
  <2> QED BY <1>1, <1>4, Recursion
<1> HIDE DEF Body
<1>6. f = [n \in 0..N |-> Body(f, n)]
  <2>1. ASSUME NEW n \in 1..N
        PROVE  f[n] = Turn(f[n - 1], n)
    <3>1. f[n - 1] \in Q
      BY <1>1, <1>5 DEF IsRecursive
    <3>2. step[n][f[n - 1]] = Turn(f[n - 1], n)
      BY <3>1
    <3> QED BY <1>5, <3>2 DEF IsRecursive
  <2>2. \A n \in 0..N : f[n] = Body(f, n)
    BY <1>1, <1>2, <1>3, <1>5, <2>1 DEF IsRecursive
  <2>3. f = [n \in 0..N |-> f[n]]
    BY <1>5 DEF IsRecursive
  <2> QED BY <2>2, <2>3, Zenon
<1>7. values = [n \in 0..N |-> Body(values, n)]
  BY <1>6, Zenon
<1>8. Values = values[N]
  BY DEF Values, values, N, Body
<1> HIDE DEF values
<1>9. \A n \in 0..N : values[n] = Body(values, n)
  BY <1>7, Zenon
<1>10. \A n \in 1..N : values[n] = Turn(values[n - 1], n)
  BY <1>1, <1>2, <1>9
<1>11. values[0] = {}
  BY <1>1, <1>3, <1>9
<1>12. values \in [0..N -> Q]
  <2> DEFINE T == {n \in 0..N : values[n] \in Q}
  <2>1. 0 \in T
    <3>1. {} \in Q /\ 0 \in 0..N
      BY <1>1
    <3> QED BY <1>11, <3>1
  <2>2. ASSUME NEW n \in 1..N, n - 1 \in T
        PROVE  n \in T
    BY <1>1, <1>10, <2>2
  <2>3. 0..N \subseteq T
    <3> HIDE DEF T
    <3> QED BY <1>1, <2>1, <2>2, BoundedInduction
  <2>4. \A n \in 0..N : values[n] \in Q
    BY <2>3
  <2>5. values = [n \in 0..N |-> values[n]]
    BY <1>7, Zenon
  <2> QED BY <2>4, <2>5, Zenon
<1> QED BY <1>8, <1>10, <1>11, <1>12 DEF N, Q, Turn, IsValues

(* An argument is a value if it follows an option that takes one and is none
   itself. *)
LEMMA ValuesAre ==
  ASSUME Len(given) \in Nat
  PROVE  /\ Values \subseteq 1..Len(given)
         /\ \A n \in 1..Len(given) :
              n \in Values <=> /\ n > 1 /\ given[n - 1] \in TakesValue
                               /\ n - 1 \notin Values
<1> DEFINE N == Len(given)
<1>1. PICK f : IsValues(f)
  BY ValuesFunction
<1>2. /\ N \in Nat /\ f \in [0..N -> SUBSET Nat] /\ f[0] = {}
      /\ \A n \in 1..N :
           f[n] = IF n > 1 /\ given[n - 1] \in TakesValue /\ n - 1 \notin f[n - 1]
                  THEN f[n - 1] \cup {n} ELSE f[n - 1]
      /\ Values = f[N]
  BY <1>1 DEF IsValues
<1> HIDE DEF N
\* Later values do not matter.
<1> DEFINE Upto(n) == /\ f[n] \subseteq 1..n
                      /\ \A m \in 1..n : m \in f[n] <=> m \in f[m]
           T == {n \in 0..N : Upto(n)}
<1>3. 0 \in T
  BY <1>2
<1>4. ASSUME NEW n \in 1..N, n - 1 \in T
      PROVE  n \in T
  <2>1. Upto(n - 1) /\ n \in 0..N
    BY <1>2, <1>4
  <2>2. f[n] = f[n - 1] \cup {n} \/ f[n] = f[n - 1]
    BY <1>2
  <2>3. f[n] \subseteq 1..n
    BY <2>1, <2>2
  <2>4. ASSUME NEW m \in 1..n
        PROVE  m \in f[n] <=> m \in f[m]
    <3>1. CASE m = n
      BY <3>1
    <3>2. CASE m \in 1..(n - 1)
      BY <2>1, <2>2, <3>2
    <3> QED BY <3>1, <3>2
  <2> QED BY <2>1, <2>3, <2>4
<1>5. 0..N \subseteq T
  <2> HIDE DEF T
  <2> QED BY <1>2, <1>3, <1>4, BoundedInduction
<1>6. \A n \in 0..N : Upto(n)
  BY <1>5
<1>7. Values \subseteq 1..N
  BY <1>2, <1>6
<1>8. ASSUME NEW n \in 1..N
      PROVE  n \in Values <=> /\ n > 1 /\ given[n - 1] \in TakesValue
                              /\ n - 1 \notin Values
  <2>1. n \in Values <=> n \in f[n]
    BY <1>2, <1>6
  <2>2. n \in f[n] <=> n > 1 /\ given[n - 1] \in TakesValue /\ n - 1 \notin f[n - 1]
    <3>1. n \notin f[n - 1]
      BY <1>2, <1>6
    <3> QED BY <1>2, <3>1
  <2>3. n > 1 => (n - 1 \in Values <=> n - 1 \in f[n - 1])
    BY <1>2, <1>6
  <2> QED BY <2>1, <2>2, <2>3
<1> QED BY <1>7, <1>8 DEF N

\* The arguments that are no values: the first is one, and of two that follow
\* each other one is.
LEMMA PlainAre ==
  ASSUME given \in Seq(STRING)
  PROVE  /\ Len(given) \in Nat /\ DOMAIN given = 1..Len(given)
         /\ Plain \subseteq 1..Len(given)
         /\ 0 < Len(given) => 1 \in Plain
         /\ \A n \in 1..(Len(given) - 1) :
              n + 1 \in Plain <=> n \notin Plain \/ given[n] \notin TakesValue
<1>1. Len(given) \in Nat /\ DOMAIN given = 1..Len(given)
  OBVIOUS
<1>2. /\ Values \subseteq 1..Len(given)
      /\ \A n \in 1..Len(given) :
           n \in Values <=> /\ n > 1 /\ given[n - 1] \in TakesValue
                            /\ n - 1 \notin Values
  BY <1>1, ValuesAre
<1>3. Plain = 1..Len(given) \ Values
  BY <1>1 DEF Plain
<1>4. ASSUME NEW n \in 1..(Len(given) - 1)
      PROVE  n + 1 \in Plain <=> n \notin Plain \/ given[n] \notin TakesValue
  <2>1. n + 1 \in 1..Len(given) /\ n \in 1..Len(given) /\ (n + 1) - 1 = n /\ n + 1 > 1
    BY <1>1
  <2>2. n + 1 \in Values <=> given[n] \in TakesValue /\ n \notin Values
    BY <1>2, <2>1
  <2> QED BY <1>3, <2>1, <2>2
<1>5. 0 < Len(given) => 1 \in Plain
  BY <1>1, <1>2, <1>3
<1> QED BY <1>1, <1>3, <1>4, <1>5

\* Where an option is used, with one or two more arguments parsed.
LEMMA UsesOfMore ==
  ASSUME given \in Seq(STRING), NEW m \in Nat, m + 1 \in Plain, NEW flag
  PROVE  /\ given[m + 1] # flag => UsesBy(flag, m + 1) = UsesBy(flag, m)
         /\ given[m + 1] = flag => UsesBy(flag, m + 1) = UsesBy(flag, m) \cup {m + 1}
         /\ m + 2 \notin Plain => UsesBy(flag, m + 2) = UsesBy(flag, m + 1)
<1>1. Plain \subseteq 1..Len(given) /\ Len(given) \in Nat
  BY PlainAre
<1>2. \A n \in Plain : n \in Nat
  BY <1>1
<1>3. \A n \in Plain : n =< m + 1 <=> n =< m \/ n = m + 1
  BY <1>2
<1>4. \A n \in Plain : n =< m + 2 <=> n =< m + 1 \/ n = m + 2
  BY <1>2
<1> QED BY <1>3, <1>4 DEF UsesBy, Uses

\* The latest use is the one just parsed.
LEMMA LatestIs ==
  ASSUME NEW S \in SUBSET Nat, NEW m \in Nat, \A n \in S : n =< m
  PROVE  Latest(S \cup {m + 1}) = m + 1
<1> DEFINE P(n) == n \in S \cup {m + 1} /\ \A k \in S \cup {m + 1} : k =< n
<1>1. P(m + 1)
  OBVIOUS
<1>2. \A n : P(n) => n = m + 1
  OBVIOUS
<1>3. Latest(S \cup {m + 1}) = CHOOSE n \in S \cup {m + 1} :
                                 \A k \in S \cup {m + 1} : k =< n
  BY DEF Latest
<1> DEFINE l == CHOOSE n : P(n)
<1>4. l = Latest(S \cup {m + 1})
  BY DEF Latest
<1>5. P(l)
  BY <1>1, Zenon
<1> HIDE DEF l, P
<1> QED BY <1>2, <1>4, <1>5

LEMMA LatestUse ==
  ASSUME given \in Seq(STRING), NEW m \in Nat, m + 1 \in Plain, NEW flag,
         given[m + 1] = flag
  PROVE  Latest(UsesBy(flag, m + 1)) = m + 1
<1>1. UsesBy(flag, m) \in SUBSET Nat /\ \A n \in UsesBy(flag, m) : n =< m
  BY PlainAre DEF UsesBy, Uses
<1>2. UsesBy(flag, m + 1) = UsesBy(flag, m) \cup {m + 1}
  BY UsesOfMore
<1> QED BY <1>1, <1>2, LatestIs

\* The strings that are names of options are different.
LEMMA FlagsApart ==
  /\ TakesValue = {"-i", "-f", "-q"} /\ Known = {"-i", "-f", "-q", "-s", "-d"}
  /\ Known \subseteq Flags /\ "-h" \in Flags /\ "-h" \notin Known
  /\ "-s" \notin TakesValue /\ "-d" \notin TakesValue
  /\ "-i" # "-f" /\ "-i" # "-q" /\ "-f" # "-q" /\ "-s" # "-d"
BY ArgumentsAssumption DEF TakesValue, Known

\* What is read of the arguments that are left.
LEMMA RestIs ==
  ASSUME given \in Seq(STRING), NEW m \in 0..Len(given),
         NEW rest, rest = SubSeq(given, m + 1, Len(given))
  PROVE  /\ rest \in Seq(STRING) /\ Len(rest) = Len(given) - m
         /\ rest = <<>> <=> m = Len(given)
         /\ m < Len(given) => /\ Head(rest) = given[m + 1]
                              /\ Tail(rest) = SubSeq(given, (m + 1) + 1, Len(given))
         /\ m + 1 < Len(given) =>
              /\ rest[2] = given[m + 2]
              /\ SubSeq(rest, 3, Len(rest)) = SubSeq(given, (m + 2) + 1, Len(given))
<1>1. /\ rest \in Seq(STRING) /\ Len(rest) = Len(given) - m
      /\ \A j \in 1..Len(rest) : rest[j] = given[m + j]
  OBVIOUS
<1>2. rest = <<>> <=> m = Len(given)
  <2>1. Len(given) \in Nat
    OBVIOUS
  <2>2. Len(rest) = 0 <=> m = Len(given)
    BY <1>1, <2>1
  <2>3. \A s \in Seq(STRING) : s = <<>> <=> Len(s) = 0
    OBVIOUS
  <2> QED BY <1>1, <2>2, <2>3, Zenon
<1>3. ASSUME m < Len(given)
      PROVE  /\ Head(rest) = given[m + 1]
             /\ Tail(rest) = SubSeq(given, (m + 1) + 1, Len(given))
  <2>1. rest # <<>> /\ 1 \in 1..Len(rest)
    <3>1. Len(rest) \in Nat \ {0}
      BY <1>1, <1>3
    <3>2. m # Len(given)
      BY <1>3
    <3> QED BY <1>2, <3>1, <3>2
  <2> QED BY <1>1, <1>3, <2>1
<1>4. ASSUME m + 1 < Len(given)
      PROVE  /\ rest[2] = given[m + 2]
             /\ SubSeq(rest, 3, Len(rest)) = SubSeq(given, (m + 2) + 1, Len(given))
  BY <1>1, <1>4
<1> QED BY <1>1, <1>2, <1>3, <1>4

\* An argument that takes no value.
LEMMA OneParsed ==
  ASSUME given \in Seq(STRING), NEW m, NEW rest, NEW code, NEW options,
         ParsedTo(m, rest, code, options),
         m < Len(given), given[m + 1] \notin TakesValue
  PROVE  /\ m + 1 \in 0..Len(given) /\ m + 1 \in Plain
         /\ m + 1 < Len(given) => (m + 1) + 1 \in Plain
         /\ \A n \in Plain : n =< m + 1 /\ given[n] \in TakesValue => n < m + 1
         /\ Accepted(m) /\ (\/ given[m + 1] \in Known
                            \/ /\ m + 1 = Len(given)
                               /\ given[m + 1] \notin Flags \cup TooLong)
              => Accepted(m + 1)
         /\ Refused(m) => Refused(m + 1)
         /\ given[m + 1] \in Flags \ Known => Refused(m + 1)
<1>1. /\ m \in 0..Len(given) /\ Len(given) \in Nat /\ m + 1 \in Plain
      /\ Plain \subseteq 1..Len(given)
      /\ \A n \in Plain : n =< m /\ given[n] \in TakesValue => n < m
  BY PlainAre DEF ParsedTo
<1>2. \A n \in Plain : n =< m + 1 <=> n =< m \/ n = m + 1
  BY <1>1
<1>3. m + 1 < Len(given) => (m + 1) + 1 \in Plain
  BY <1>1, PlainAre
<1>4. \A n \in Plain : n =< m => n < m + 1
  BY <1>1
<1> QED BY <1>1, <1>2, <1>3, <1>4 DEF Accepted, Refused

LEMMA OneMeant ==
  ASSUME given \in Seq(STRING), NEW m \in Nat, m + 1 \in Plain,
         given[m + 1] \notin TakesValue
  PROVE  /\ SourceBy(m + 1) = SourceBy(m)
         /\ FramesBy(m + 1) = FramesBy(m)
         /\ QualityBy(m + 1) = QualityBy(m)
         /\ DestBy(m) = "output.ts"
         /\ DestBy(m + 1) =
              IF m + 1 = Len(given) /\ given[m + 1] \notin Flags \cup TooLong
              THEN given[m + 1] ELSE "output.ts"
         /\ \A flag : UsesBy(flag, m + 1) # {}
                        <=> UsesBy(flag, m) # {} \/ given[m + 1] = flag
<1>1. \A flag : given[m + 1] # flag => UsesBy(flag, m + 1) = UsesBy(flag, m)
  BY UsesOfMore
<1>2. \A flag : given[m + 1] = flag
                  => UsesBy(flag, m + 1) = UsesBy(flag, m) \cup {m + 1}
  BY UsesOfMore
<1>3. given[m + 1] \notin {"-i", "-f", "-q"}
  BY FlagsApart
<1>4. m # Len(given)
  <2>1. Plain \subseteq 1..Len(given) /\ Len(given) \in Nat
    BY PlainAre
  <2>2. m + 1 \in 1..Len(given)
    BY <2>1
  <2> QED BY <2>1, <2>2
<1> QED BY <1>1, <1>2, <1>3, <1>4
        DEF SourceBy, FramesBy, QualityBy, DestBy, ValueBy

\* An option and its value.
LEMMA TwoParsed ==
  ASSUME given \in Seq(STRING), NEW m, NEW rest, NEW code, NEW options,
         ParsedTo(m, rest, code, options),
         m + 1 < Len(given), given[m + 1] \in TakesValue
  PROVE  /\ m + 2 \in 0..Len(given) /\ m + 1 \in Plain /\ m + 2 \notin Plain
         /\ m + 2 < Len(given) => (m + 2) + 1 \in Plain
         /\ \A n \in Plain : n =< m + 2 /\ given[n] \in TakesValue => n < m + 2
         /\ Accepted(m) => Accepted(m + 2)
         /\ Refused(m) => Refused(m + 2)
<1>1. /\ m \in 0..Len(given) /\ Len(given) \in Nat /\ m + 1 \in Plain
      /\ Plain \subseteq 1..Len(given)
      /\ \A n \in Plain : n =< m /\ given[n] \in TakesValue => n < m
  BY PlainAre DEF ParsedTo
<1>2. /\ m + 1 \in 1..(Len(given) - 1) /\ (m + 1) + 1 = m + 2
      /\ m + 2 < Len(given) => m + 2 \in 1..(Len(given) - 1)
  BY <1>1
<1>3. m + 2 \notin Plain
  BY <1>1, <1>2, PlainAre
<1>4. m + 2 < Len(given) => (m + 2) + 1 \in Plain
  BY <1>2, <1>3, PlainAre
<1>5. \A n \in Plain : n =< m + 2 <=> n =< m \/ n = m + 1
  BY <1>1, <1>3
<1>6. \A n \in Plain : n =< m + 2 => n < m + 2
  BY <1>1, <1>3
<1>7. given[m + 1] \in Known
  BY FlagsApart
<1> QED BY <1>1, <1>3, <1>4, <1>5, <1>6, <1>7 DEF Accepted, Refused

LEMMA TwoMeant ==
  ASSUME given \in Seq(STRING), NEW m \in Nat, m + 1 \in Plain, m + 2 \notin Plain,
         NEW flag, given[m + 1] = flag, flag \in TakesValue
  PROVE  /\ SourceBy(m + 2) = IF flag = "-i" THEN given[m + 2] ELSE SourceBy(m)
         /\ FramesBy(m + 2) = IF flag = "-f" THEN Atoi[given[m + 2]] ELSE FramesBy(m)
         /\ QualityBy(m + 2) = IF flag = "-q" THEN Atoi[given[m + 2]]
                               ELSE QualityBy(m)
         /\ DestBy(m) = "output.ts" /\ DestBy(m + 2) = "output.ts"
         /\ UsesBy("-s", m + 2) = UsesBy("-s", m)
         /\ UsesBy("-d", m + 2) = UsesBy("-d", m)
<1>1. \A f : given[m + 1] # f => UsesBy(f, m + 2) = UsesBy(f, m)
  BY UsesOfMore
<1>2. UsesBy(flag, m + 2) = UsesBy(flag, m + 1) /\ UsesBy(flag, m + 2) # {}
  BY UsesOfMore
<1>3. Latest(UsesBy(flag, m + 2)) = m + 1
  BY <1>2, LatestUse
<1>4. ValueBy(flag, m + 2) = given[m + 2]
  BY <1>3 DEF ValueBy
<1>5. m # Len(given)
  <2>1. Plain \subseteq 1..Len(given) /\ Len(given) \in Nat
    BY PlainAre
  <2>2. m + 1 \in 1..Len(given)
    BY <2>1
  <2> QED BY <2>1, <2>2
<1>6. flag \in {"-i", "-f", "-q"} /\ flag # "-s" /\ flag # "-d"
  BY FlagsApart
<1> QED BY <1>1, <1>2, <1>4, <1>5, <1>6
        DEF SourceBy, FramesBy, QualityBy, DestBy, ValueBy

\* What is parsed does not look at anything else.
LEMMA SameGiven ==
  ASSUME given' = given
  PROVE  /\ Understood' = Understood /\ Missing' = Missing
         /\ \A m, rest, code, options :
              ParsedTo(m, rest, code, options)' <=> ParsedTo(m, rest, code, options)
<1>1. Values' = Values
  BY DEF Values
<1>2. Plain' = Plain
  BY <1>1 DEF Plain
<1>3. \A flag : Uses(flag)' = Uses(flag)
  BY <1>2 DEF Uses
<1>4. \A flag, m : UsesBy(flag, m)' = UsesBy(flag, m)
  BY <1>3 DEF UsesBy
<1>5. \A m : MeantBy(m)' = MeantBy(m)
  BY <1>2, <1>4 DEF MeantBy, SourceBy, DestBy, FramesBy, QualityBy, ValueBy
<1>6. \A m : (Accepted(m)' <=> Accepted(m)) /\ (Refused(m)' <=> Refused(m))
  BY <1>2 DEF Accepted, Refused
<1>7. Understood' = Understood /\ Missing' = Missing
  BY <1>2 DEF Understood, Missing
<1> QED BY <1>2, <1>5, <1>6, <1>7 DEF ParsedTo

\* All arguments are parsed.
LEMMA AllParsed ==
  ASSUME given \in Seq(STRING), NEW m, NEW code, NEW options,
         ParsedTo(m, <<>>, code, options)
  PROVE  /\ m = Len(given)
         /\ code = 0 => Understood /\ ~Missing /\ options = Meant
         /\ code # 0 => ~Understood
<1>1. /\ m \in 0..Len(given) /\ <<>> = SubSeq(given, m + 1, Len(given))
      /\ \A n \in Plain : n =< m /\ given[n] \in TakesValue => n < m
      /\ \/ code = 0 /\ Accepted(m)
         \/ code = -1 /\ Refused(m)
      /\ options = MeantBy(m)
  BY DEF ParsedTo
<1>2. m = Len(given)
  BY <1>1, RestIs
<1>3. Plain \subseteq 1..Len(given) /\ Len(given) \in Nat
  BY PlainAre
<1>4. \A n \in Plain : n =< m /\ n \in Nat
  BY <1>2, <1>3
<1>5. ASSUME code = 0
      PROVE  Understood /\ ~Missing /\ options = Meant
  <2>1. Accepted(m)
    BY <1>1, <1>5
  <2>2. Understood
    BY <1>4, <2>1 DEF Understood, Accepted
  <2>3. ~Missing
    BY <1>1, <1>2, <1>4 DEF Missing
  <2>4. \A flag : UsesBy(flag, m) = Uses(flag)
    BY <1>4 DEF UsesBy, Uses
  <2>5. \A flag : ValueBy(flag, m) = ValueOf(flag)
    BY <2>4 DEF ValueBy, ValueOf
  <2>6. DestBy(m) = IF Len(given) \in Plain /\ given[Len(given)] \notin Known
                    THEN given[Len(given)] ELSE "output.ts"
    <3>1. Len(given) \in Plain /\ given[Len(given)] \notin Known
            => given[Len(given)] \notin Flags \cup TooLong
      BY <1>2, <1>4, <2>1 DEF Accepted
    <3>2. Known \subseteq Flags
      BY FlagsApart
    <3> QED BY <1>2, <3>1, <3>2 DEF DestBy
  <2>7. options = Meant
    BY <1>1, <2>4, <2>5, <2>6 DEF MeantBy, Meant, SourceBy, FramesBy, QualityBy
  <2> QED BY <2>2, <2>3, <2>7
<1>6. ASSUME code # 0
      PROVE  ~Understood
  <2>1. PICK n \in Plain : given[n] \in Flags \ Known
    BY <1>1, <1>6 DEF Refused
  <2> QED BY <2>1 DEF Understood
<1> QED BY <1>2, <1>5, <1>6

LEMMA GivenIs == OptionsInv => given \in Seq(STRING)
<1>1. <<>> \in Seq(STRING)
  OBVIOUS
<1> QED BY <1>1, ArgumentsAssumption DEF OptionsInv

\* The turns of the loop.
LEMMA StepOptions ==
  ASSUME OptionsInv, Parsing
  PROVE  \E m \in 0..(Len(given) - 1) :
           /\ ParsedTo(m, argv, rc, opts) /\ given \in Seq(STRING)
           /\ m \in Nat /\ m < Len(given) /\ m + 1 \in Plain
           /\ Len(argv) = Len(given) - m
           /\ Head(argv) = given[m + 1]
           /\ Tail(argv) = SubSeq(given, (m + 1) + 1, Len(given))
           /\ m + 1 < Len(given) =>
                /\ argv[2] = given[m + 2]
                /\ SubSeq(argv, 3, Len(argv)) = SubSeq(given, (m + 2) + 1, Len(given))
<1>1. given \in Seq(STRING)
  BY GivenIs
<1>2. PICK m \in 0..Len(given) : ParsedTo(m, argv, rc, opts)
  BY DEF Parsing, OptionsInv
<1>3. /\ Len(given) \in Nat /\ argv = SubSeq(given, m + 1, Len(given))
      /\ m < Len(given) => m + 1 \in Plain
  BY <1>1, <1>2 DEF ParsedTo
<1>4. m # Len(given)
  <2>1. argv # <<>>
    BY DEF Parsing
  <2>2. argv = <<>> <=> m = Len(given)
    <3>1. \A rest : rest = SubSeq(given, m + 1, Len(given)) =>
            (rest = <<>> <=> m = Len(given))
      BY <1>1, RestIs
    <3> QED BY <1>3, <3>1, Zenon
  <2> QED BY <2>1, <2>2
<1>5. m \in 0..(Len(given) - 1) /\ m \in Nat /\ m < Len(given)
  BY <1>3, <1>4
<1> HIDE DEF Parsing
<1>6. /\ Len(argv) = Len(given) - m
      /\ Head(argv) = given[m + 1]
      /\ Tail(argv) = SubSeq(given, (m + 1) + 1, Len(given))
      /\ m + 1 < Len(given) =>
           /\ argv[2] = given[m + 2]
           /\ SubSeq(argv, 3, Len(argv)) = SubSeq(given, (m + 2) + 1, Len(given))
  <2>1. \A rest : rest = SubSeq(given, m + 1, Len(given)) =>
          /\ Len(rest) = Len(given) - m
          /\ Head(rest) = given[m + 1]
          /\ Tail(rest) = SubSeq(given, (m + 1) + 1, Len(given))
          /\ m + 1 < Len(given) =>
               /\ rest[2] = given[m + 2]
               /\ SubSeq(rest, 3, Len(rest)) = SubSeq(given, (m + 2) + 1, Len(given))
    BY <1>1, <1>5, RestIs
  <2> QED BY <1>3, <2>1, Zenon
<1> QED BY <1>1, <1>2, <1>3, <1>5, <1>6, Zenon

\* What a step has to show while arguments are parsed.
LEMMA StillParsing ==
  ASSUME OptionsInv, pc \in {"parse", "open"}, pc' \in {"parse", "open"},
         UNCHANGED <<given, tableVars, ret>>,
         NEW m \in Nat, ParsedTo(m, argv', rc', opts'),
         pc' = "open" => argv' = <<>> /\ rc' = 0
  PROVE  OptionsInv'
<1>1. /\ given \in ArgLists \cup {<<>>}
      /\ ret = 0 /\ segment = NoSegment
  BY DEF OptionsInv
<1>2. given' = given /\ segment' = segment /\ ret' = ret
  BY DEF tableVars
<1>3. ParsedTo(m, argv', rc', opts') <=> ParsedTo(m, argv, rc, opts)'
  BY <1>2, SameGiven
<1>4. m \in 0..Len(given)
  BY DEF ParsedTo
<1>5. \E k \in 0..Len(given) : ParsedTo(k, argv, rc, opts)'
  BY <1>3, <1>4
<1>6. (\E k \in 0..Len(given) : ParsedTo(k, argv, rc, opts))'
  BY <1>2, <1>5
<1>7. pc' # "done" /\ pc' # "killed" /\ pc' # "pmt"
  OBVIOUS
<1> QED BY <1>1, <1>2, <1>6, <1>7 DEF OptionsInv

\* And what one at which parsing ends.
LEMMA EndsParsing ==
  ASSUME OptionsInv, pc \in {"parse", "open"}, pc' \in {"done", "killed"},
         UNCHANGED <<given, tableVars>>,
         pc' = "done" => ret' \in {0, 3} \/ ~Understood,
         pc' = "killed" => ret' = ret /\ Missing
  PROVE  OptionsInv'
<1>1. /\ given \in ArgLists \cup {<<>>}
      /\ ret = 0 /\ segment = NoSegment
  BY DEF OptionsInv
<1>2. given' = given /\ segment' = segment
  BY DEF tableVars
<1>3. Understood' = Understood /\ Missing' = Missing
  BY <1>2, SameGiven
<1> QED BY <1>1, <1>2, <1>3 DEF OptionsInv

\* And a step behind.
LEMMA BehindParsing ==
  ASSUME OptionsInv, pc' \notin {"parse", "open"}, pc' = "done" => ret' # 1,
         given' = given \/ given' = <<>>, pc' # "done" => ret' = 0,
         pc' = "killed" => segment' # NoSegment,
         pc' = "pmt" => pmtPid' \in DOMAIN segment'.pmts
  PROVE  OptionsInv'
BY DEF OptionsInv

LEMMA InitOptions == Init => OptionsInv
<1> SUFFICES ASSUME Init PROVE OptionsInv  OBVIOUS
<1>1. /\ given \in ArgLists /\ argv = given /\ opts = Defaults /\ rc = 0
      /\ segment = NoSegment /\ ret = 0 /\ pc = "parse"
  BY DEF Init
<1>2. given \in Seq(STRING)
  BY <1>1, ArgumentsAssumption
<1>3. Len(given) \in Nat /\ argv = SubSeq(given, 0 + 1, Len(given)) /\ 0 \in 0..Len(given)
  BY <1>1, <1>2
<1>4. \A n \in Plain : ~(n =< 0)
  BY <1>2, PlainAre
<1>5. 0 < Len(given) => 0 + 1 \in Plain
  BY <1>2, PlainAre
<1>6. \A flag : UsesBy(flag, 0) = {}
  BY <1>4 DEF UsesBy, Uses
<1>7. MeantBy(0) = Defaults
  <2>1. DestBy(0) = "output.ts"
    BY <1>4 DEF DestBy
  <2> QED BY <1>6, <2>1 DEF MeantBy, Defaults, SourceBy, FramesBy, QualityBy
<1>8. ParsedTo(0, argv, rc, opts)
  BY <1>1, <1>3, <1>4, <1>5, <1>7 DEF ParsedTo, Accepted
<1> QED BY <1>1, <1>3, <1>8 DEF OptionsInv

LEMMA DestSet ==
  ASSUME NEW source, NEW dest, NEW save, NEW decode, NEW frames, NEW quality, NEW name
  PROVE  [[source |-> source, dest |-> dest, save |-> save, decode |-> decode,
           frames |-> frames, quality |-> quality] EXCEPT !.dest = name]
         = [source |-> source, dest |-> name, save |-> save, decode |-> decode,
            frames |-> frames, quality |-> quality]
OBVIOUS

LEMMA NextOptions == OptionsInv /\ [Next]_vars => OptionsInv'
<1> SUFFICES ASSUME OptionsInv, [Next]_vars PROVE OptionsInv'  OBVIOUS
<1>1. given \in Seq(STRING) /\ Len(given) \in Nat
  BY GivenIs
<1>2. CASE OutputName
  <2>1. /\ Parsing /\ Head(argv) \notin Flags \cup TooLong /\ Len(argv) = 1
        /\ opts' = [opts EXCEPT !.dest = Head(argv)] /\ argv' = <<>>
        /\ UNCHANGED <<given, rc, tableVars, ret, pc>>
    BY <1>2 DEF OutputName
  <2>2. PICK m \in 0..(Len(given) - 1) :
           /\ ParsedTo(m, argv, rc, opts)
           /\ m \in Nat /\ m < Len(given) /\ m + 1 \in Plain
           /\ Len(argv) = Len(given) - m
           /\ Head(argv) = given[m + 1]
           /\ Tail(argv) = SubSeq(given, (m + 1) + 1, Len(given))
    BY <2>1, StepOptions
  <2>3. m + 1 = Len(given) /\ given[m + 1] \notin Flags \cup TooLong
    <3>1. Len(given) - m = 1 /\ m \in Nat
      BY <2>1, <2>2, Zenon
    <3>2. m + 1 = Len(given)
      BY <1>1, <3>1
    <3>3. given[m + 1] \notin Flags \cup TooLong
      BY <2>1, <2>2, Zenon
    <3> QED BY <3>2, <3>3
  <2>4. given[m + 1] \notin TakesValue /\ given[m + 1] \notin {"-s", "-d"}
    BY <2>3, FlagsApart
  <2>5. <<>> = SubSeq(given, (m + 1) + 1, Len(given))
    BY <1>1, <2>3
  <2>6. MeantBy(m + 1) = [MeantBy(m) EXCEPT !.dest = given[m + 1]]
    <3>1. /\ SourceBy(m + 1) = SourceBy(m) /\ FramesBy(m + 1) = FramesBy(m)
          /\ QualityBy(m + 1) = QualityBy(m)
          /\ DestBy(m + 1) = IF m + 1 = Len(given)
                                /\ given[m + 1] \notin Flags \cup TooLong
                             THEN given[m + 1] ELSE "output.ts"
          /\ \A flag : UsesBy(flag, m + 1) # {}
                         <=> UsesBy(flag, m) # {} \/ given[m + 1] = flag
      BY <1>1, <2>2, <2>4, OneMeant
    <3>2. DestBy(m + 1) = given[m + 1]
      BY <2>3, <3>1
    <3>3. /\ (UsesBy("-s", m + 1) # {}) = (UsesBy("-s", m) # {})
          /\ (UsesBy("-d", m + 1) # {}) = (UsesBy("-d", m) # {})
      BY <2>4, <3>1
    <3> DEFINE save == UsesBy("-s", m) # {}
               decode == UsesBy("-d", m) # {}
    <3>4. MeantBy(m + 1) =
            [source |-> SourceBy(m), dest |-> given[m + 1], save |-> save,
             decode |-> decode, frames |-> FramesBy(m), quality |-> QualityBy(m)]
      BY <3>1, <3>2, <3>3, Zenon DEF MeantBy
    <3>5. MeantBy(m) = [source |-> SourceBy(m), dest |-> DestBy(m), save |-> save,
                        decode |-> decode, frames |-> FramesBy(m),
                        quality |-> QualityBy(m)]
      BY Zenon DEF MeantBy
    <3> HIDE DEF save, decode
    <3> QED BY <3>4, <3>5, DestSet
  <2>7. ParsedTo(m + 1, argv', rc', opts')
    BY <1>1, <2>1, <2>2, <2>3, <2>4, <2>5, <2>6, OneParsed DEF ParsedTo
  <2>8. pc = "parse" /\ pc' = "parse" /\ m + 1 \in Nat
    BY <2>1, <2>2 DEF Parsing
  <2> QED BY <2>1, <2>7, <2>8, StillParsing
<1>3. CASE NotRecognized
  <2>1. /\ Parsing
        /\ \/ Head(argv) \in TooLong
           \/ Head(argv) \notin Flags /\ Len(argv) > 1
        /\ pc' = "done" /\ UNCHANGED <<given, tableVars>>
    BY <1>3 DEF NotRecognized, optionVars
  <2>2. PICK m \in 0..(Len(given) - 1) :
           /\ m \in Nat /\ m + 1 \in Plain /\ Len(argv) = Len(given) - m
           /\ Head(argv) = given[m + 1]
    BY <2>1, StepOptions
  <2>3. given[m + 1] \notin Known
    <3>1. Flags \cap TooLong = {} /\ Known \subseteq Flags
      BY ArgumentsAssumption, FlagsApart
    <3> QED BY <2>1, <2>2, <3>1
  <2>4. ~(m + 1 = Len(given) /\ given[m + 1] \notin Flags \cup TooLong)
    BY <1>1, <2>1, <2>2
  <2>5. ~Understood
    BY <2>2, <2>3, <2>4 DEF Understood
  <2> QED BY <2>1, <2>5, EndsParsing DEF Parsing
<1>4. CASE Switch
  <2>1. /\ Parsing /\ Head(argv) \in {"-s", "-d"} /\ argv' = Tail(argv)
        /\ opts' = IF Head(argv) = "-s" THEN [opts EXCEPT !.save = TRUE]
                   ELSE [opts EXCEPT !.decode = TRUE]
        /\ UNCHANGED <<given, rc, tableVars, ret, pc>>
    BY <1>4 DEF Switch
  <2>2. PICK m \in 0..(Len(given) - 1) :
           /\ ParsedTo(m, argv, rc, opts)
           /\ m \in Nat /\ m < Len(given) /\ m + 1 \in Plain
           /\ Head(argv) = given[m + 1]
           /\ Tail(argv) = SubSeq(given, (m + 1) + 1, Len(given))
    BY <2>1, StepOptions
  <2>3. /\ given[m + 1] \notin TakesValue /\ given[m + 1] \in Known
        /\ given[m + 1] \in Flags
    BY <2>1, <2>2, FlagsApart
  <2>4. MeantBy(m + 1) = IF given[m + 1] = "-s" THEN [MeantBy(m) EXCEPT !.save = TRUE]
                         ELSE [MeantBy(m) EXCEPT !.decode = TRUE]
    <3>1. /\ SourceBy(m + 1) = SourceBy(m) /\ FramesBy(m + 1) = FramesBy(m)
          /\ QualityBy(m + 1) = QualityBy(m) /\ DestBy(m + 1) = DestBy(m)
          /\ \A flag : UsesBy(flag, m + 1) # {}
                         <=> UsesBy(flag, m) # {} \/ given[m + 1] = flag
      BY <1>1, <2>2, <2>3, OneMeant
    <3>2. CASE given[m + 1] = "-s"
      <4>1. /\ (UsesBy("-s", m + 1) # {}) = TRUE
            /\ (UsesBy("-d", m + 1) # {}) = (UsesBy("-d", m) # {})
        BY <3>1, <3>2, FlagsApart
      <4> QED BY <3>1, <3>2, <4>1 DEF MeantBy
    <3>3. CASE given[m + 1] = "-d"
      <4>1. /\ (UsesBy("-d", m + 1) # {}) = TRUE
            /\ (UsesBy("-s", m + 1) # {}) = (UsesBy("-s", m) # {})
            /\ given[m + 1] # "-s"
        BY <3>1, <3>3, FlagsApart
      <4> QED BY <3>1, <3>3, <4>1 DEF MeantBy
    <3> QED BY <2>1, <2>2, <3>2, <3>3
  <2>5. opts' = MeantBy(m + 1)
    BY <2>1, <2>2, <2>4 DEF ParsedTo
  <2>6. ParsedTo(m + 1, argv', rc', opts')
    BY <1>1, <2>1, <2>2, <2>3, <2>5, OneParsed DEF ParsedTo
  <2>7. pc = "parse" /\ pc' = "parse" /\ m + 1 \in Nat
    BY <2>1, <2>2 DEF Parsing
  <2> QED BY <2>1, <2>6, <2>7, StillParsing
<1>5. CASE Value
  <2>1. /\ Parsing /\ Head(argv) \in TakesValue /\ Len(argv) > 1
        /\ opts' = With(Head(argv), argv[2])
        /\ argv' = SubSeq(argv, 3, Len(argv))
        /\ UNCHANGED <<given, rc, tableVars, ret, pc>>
    BY <1>5 DEF Value
  <2>2. PICK m \in 0..(Len(given) - 1) :
           /\ ParsedTo(m, argv, rc, opts)
           /\ m \in Nat /\ m < Len(given) /\ m + 1 \in Plain
           /\ Len(argv) = Len(given) - m
           /\ Head(argv) = given[m + 1]
           /\ m + 1 < Len(given) =>
                /\ argv[2] = given[m + 2]
                /\ SubSeq(argv, 3, Len(argv)) = SubSeq(given, (m + 2) + 1, Len(given))
    BY <2>1, StepOptions
  <2>3. m + 1 < Len(given) /\ given[m + 1] \in TakesValue
    BY <1>1, <2>1, <2>2
  <2>4. m + 2 \notin Plain
    BY <1>1, <2>2, <2>3, TwoParsed
  <2>5. opts' = MeantBy(m + 2)
    <3> DEFINE flag == given[m + 1]
    <3>1. flag \in {"-i", "-f", "-q"} /\ "-i" # "-f" /\ "-i" # "-q" /\ "-f" # "-q"
      BY <2>3, FlagsApart
    <3>2. /\ SourceBy(m + 2) = IF flag = "-i" THEN given[m + 2] ELSE SourceBy(m)
          /\ FramesBy(m + 2) = IF flag = "-f" THEN Atoi[given[m + 2]] ELSE FramesBy(m)
          /\ QualityBy(m + 2) = IF flag = "-q" THEN Atoi[given[m + 2]]
                                ELSE QualityBy(m)
          /\ DestBy(m + 2) = DestBy(m)
          /\ UsesBy("-s", m + 2) = UsesBy("-s", m)
          /\ UsesBy("-d", m + 2) = UsesBy("-d", m)
      BY <1>1, <2>2, <2>3, <2>4, TwoMeant
    <3>3. opts = MeantBy(m)
      BY <2>2 DEF ParsedTo
    <3>4. opts' = With(flag, given[m + 2])
      BY <2>1, <2>2, <2>3
    <3> HIDE DEF flag
    <3>5. CASE flag = "-i"
      BY <3>1, <3>2, <3>3, <3>4, <3>5 DEF MeantBy, With
    <3>6. CASE flag = "-f"
      BY <3>1, <3>2, <3>3, <3>4, <3>6 DEF MeantBy, With
    <3>7. CASE flag = "-q"
      BY <3>1, <3>2, <3>3, <3>4, <3>7 DEF MeantBy, With
    <3> QED BY <3>1, <3>5, <3>6, <3>7
  <2>6. ParsedTo(m + 2, argv', rc', opts')
    BY <1>1, <2>1, <2>2, <2>3, <2>5, TwoParsed DEF ParsedTo
  <2> QED BY <2>1, <2>2, <2>6, StillParsing DEF Parsing
<1>6. CASE ValueMissing
  <2>1. /\ Parsing /\ Head(argv) \in TakesValue /\ Len(argv) = 1
        /\ pc' = "killed" /\ UNCHANGED <<given, tableVars, ret>>
    BY <1>6 DEF ValueMissing, optionVars
  <2>2. PICK m \in 0..(Len(given) - 1) :
           /\ m \in Nat /\ m + 1 \in Plain /\ Len(argv) = Len(given) - m
           /\ Head(argv) = given[m + 1]
    BY <2>1, StepOptions
  <2>3. m + 1 = Len(given)
    <3>1. Len(given) - m = 1 /\ m \in Nat
      BY <2>1, <2>2, Zenon
    <3> QED BY <1>1, <3>1
  <2>4. Missing
    BY <2>1, <2>2, <2>3 DEF Missing
  <2> QED BY <2>1, <2>4, EndsParsing DEF Parsing
<1>7. CASE HelpOrInvalid
  <2>1. /\ Parsing /\ Head(argv) \in Flags \ Known
        /\ rc' = -1 /\ argv' = Tail(argv)
        /\ UNCHANGED <<given, opts, tableVars, ret, pc>>
    BY <1>7 DEF HelpOrInvalid
  <2>2. PICK m \in 0..(Len(given) - 1) :
           /\ ParsedTo(m, argv, rc, opts)
           /\ m \in Nat /\ m < Len(given) /\ m + 1 \in Plain
           /\ Head(argv) = given[m + 1]
           /\ Tail(argv) = SubSeq(given, (m + 1) + 1, Len(given))
    BY <2>1, StepOptions
  <2>3. /\ given[m + 1] \notin TakesValue /\ given[m + 1] \in Flags \ Known
        /\ given[m + 1] \notin {"-s", "-d"}
    BY <2>1, <2>2, FlagsApart
  <2>4. MeantBy(m + 1) = MeantBy(m)
    BY <1>1, <2>2, <2>3, OneMeant DEF MeantBy
  <2>5. opts' = MeantBy(m + 1)
    BY <2>1, <2>2, <2>4 DEF ParsedTo
  <2>6. ParsedTo(m + 1, argv', rc', opts')
    BY <1>1, <2>1, <2>2, <2>3, <2>5, OneParsed DEF ParsedTo
  <2>7. pc = "parse" /\ pc' = "parse" /\ m + 1 \in Nat
    BY <2>1, <2>2 DEF Parsing
  <2> QED BY <2>1, <2>6, <2>7, StillParsing
<1>8. CASE Usage
  <2>1. /\ pc = "parse" /\ argv = <<>> /\ rc # 0 /\ pc' = "done"
        /\ UNCHANGED <<given, tableVars>>
    BY <1>8 DEF Usage, optionVars
  <2>2. PICK m \in 0..Len(given) : ParsedTo(m, <<>>, rc, opts)
    BY <2>1 DEF OptionsInv
  <2>3. ~Understood
    BY <1>1, <2>1, <2>2, AllParsed
  <2> QED BY <2>1, <2>3, EndsParsing
<1>9. CASE Parsed
  <2>1. /\ pc = "parse" /\ argv = <<>> /\ rc = 0 /\ pc' = "open"
        /\ UNCHANGED <<argv, given, opts, rc, tableVars, ret>>
    BY <1>9 DEF Parsed, optionVars
  <2>2. PICK m \in 0..Len(given) : ParsedTo(m, argv, rc, opts)
    BY <2>1 DEF OptionsInv
  <2>3. ParsedTo(m, argv', rc', opts') /\ m \in Nat
    BY <1>1, <2>1, <2>2
  <2> QED BY <2>1, <2>3, StillParsing
<1>10. CASE CannotMap
  <2>1. pc = "open" /\ pc' = "done" /\ ret' = 3 /\ UNCHANGED <<given, tableVars>>
    BY <1>10 DEF CannotMap, optionVars
  <2> QED BY <2>1, EndsParsing
<1>11. CASE Load
  <2>1. pc = "open" /\ pc' = "pat" /\ given' = <<>> /\ ret' = ret
    BY <1>11 DEF Load
  <2>2. ret = 0
    BY <2>1 DEF OptionsInv
  <2> QED BY <2>1, <2>2, BehindParsing
<1>12. CASE FindPat \/ NoPat \/ GarbledPat
  <2>1. /\ pc = "pat" /\ UNCHANGED <<given, segment, ret>>
        /\ pc' \in {"pmt", "done", "killed"}
    BY <1>12 DEF FindPat, NoPat, GarbledPat, GoOn, optionVars
  <2>2. ret = 0
    BY <2>1 DEF OptionsInv
  <2>3. pc' = "pmt" => pmtPid' \in DOMAIN segment.pmts
    BY <1>12 DEF FindPat, NoPat, GarbledPat, GoOn
  <2>4. pc' = "killed" => segment # NoSegment
    BY <1>12 DEF FindPat, NoPat, GarbledPat, GoOn, HasPat, NoSegment
  <2> QED BY <2>1, <2>2, <2>3, <2>4, BehindParsing
<1>13. CASE FindPmt \/ NoPmt \/ GarbledPmt
  <2>1. /\ pc = "pmt" /\ UNCHANGED <<given, segment, ret>>
        /\ pc' \in {"scan", "done", "killed"}
    BY <1>13 DEF FindPmt, NoPmt, GarbledPmt, GoOn, optionVars
  <2>2. ret = 0 /\ pmtPid \in DOMAIN segment.pmts
    BY <2>1 DEF OptionsInv
  <2>3. segment # NoSegment
    <3>1. DOMAIN NoSegment.pmts = {}
      BY DEF NoSegment
    <3> QED BY <2>2, <3>1
  <2> QED BY <2>1, <2>2, <2>3, BehindParsing
<1>14. CASE Scan
  <2>1. pc = "scan" /\ pc' \in {"scan", "done"} /\ UNCHANGED <<given, ret>>
    BY <1>14 DEF Scan, StartPes, ContinuePes, EndOfScan, optionVars
  <2>2. ret = 0
    BY <2>1 DEF OptionsInv
  <2> QED BY <2>1, <2>2, BehindParsing
<1>15. CASE UNCHANGED vars
  <2>1. UNCHANGED <<argv, given, opts, rc, segment, pmtPid, ret, pc>>
    BY <1>15 DEF vars, optionVars, tableVars
  <2>2. Understood' = Understood /\ Missing' = Missing
        /\ \A m, rest, code, options :
             ParsedTo(m, rest, code, options)' <=> ParsedTo(m, rest, code, options)
    BY <2>1, SameGiven
  <2>3. ASSUME pc \in {"parse", "open"}
        PROVE  (\E m \in 0..Len(given) : ParsedTo(m, argv, rc, opts))'
    <3>1. PICK m \in 0..Len(given) : ParsedTo(m, argv, rc, opts)
      BY <2>3 DEF OptionsInv
    <3>2. ParsedTo(m, argv', rc', opts')
      BY <2>1, <3>1
    <3>3. ParsedTo(m, argv, rc, opts)'
      BY <2>2, <3>2
    <3> QED BY <2>1, <3>1, <3>3
  <2> QED BY <2>1, <2>2, <2>3 DEF OptionsInv
<1> QED
  BY <1>2, <1>3, <1>4, <1>5, <1>6, <1>7, <1>8, <1>9, <1>10, <1>11, <1>12, <1>13,
     <1>14, <1>15
  DEF Next, Options, TablesAndFile

LEMMA OptionsInvHolds == Spec => []OptionsInv
<1> QED BY InitOptions, NextOptions, PTL DEF Spec

(* A command line is accepted exactly if every argument is an option, the
   value of one or, in the last place, the output name, and the options are
   then the ones given last (Options::parse). *)
THEOREM OptionsAreMeant == Spec => []OptionsMeant
<1>1. OptionsInv => OptionsMeant
  <2> SUFFICES ASSUME OptionsInv PROVE OptionsMeant  OBVIOUS
  <2>1. ASSUME pc = "open"
        PROVE  Understood /\ ~Missing /\ opts = Meant
    <3>1. PICK m \in 0..Len(given) : ParsedTo(m, <<>>, rc, opts)
      BY <2>1 DEF OptionsInv
    <3>2. rc = 0
      BY <2>1 DEF OptionsInv
    <3> QED BY <3>1, <3>2, AllParsed, GivenIs
  <2> QED BY <2>1 DEF OptionsInv, OptionsMeant
<1> QED BY <1>1, OptionsInvHolds, PTL

LEMMA EntriesAre ==
  ASSUME NEW section \in PmtType
  PROVE  /\ section.streams \in Seq(StreamType) /\ Len(section.streams) \in Nat
         /\ DOMAIN section.streams = 1..Len(section.streams)
         /\ \A n \in 1..Len(section.streams) :
              Entries(section)[n] \in Nat /\ Entries(section)[n] >= 5
<1>1. /\ section.streams \in Seq(StreamType) /\ Len(section.streams) \in Nat
      /\ DOMAIN section.streams = 1..Len(section.streams)
  BY DEF PmtType
<1>2. \A n \in 1..Len(section.streams) : section.streams[n].info \in Nat
  <2> TAKE n \in 1..Len(section.streams)
  <2>1. section.streams[n] \in StreamType
    BY <1>1
  <2> QED BY <2>1 DEF StreamType
<1>3. \A n \in 1..Len(section.streams) :
        Entries(section)[n] = 5 + section.streams[n].info
  BY <1>1 DEF Entries
<1> QED BY <1>1, <1>2, <1>3

\* The lengths of a PMT that conforms lead to its last stream.
LEMMA CountIsLen ==
  ASSUME NEW section \in PmtType,
         section.length = 9 + section.info + Crc
                            + SumOf(Entries(section), Len(section.streams))
  PROVE  StreamCounts(section) = {Len(section.streams)}
<1> DEFINE N == Len(section.streams)
           E == Entries(section)
<1>1. N \in Nat /\ \A n \in 1..N : E[n] \in Nat /\ E[n] >= 5
  BY EntriesAre
<1>2. section.info \in Nat /\ Crc = 4
  BY DEF PmtType, Crc
<1>3. section.length = 9 + section.info + Crc + SumOf(E, N)
  OBVIOUS
<1>4. \A k : PmtBytes(section, k) =
               section.length - Crc - 5 - 4 - section.info - SumOf(E, k)
  BY DEF PmtBytes
<1> HIDE DEF N, E
<1>5. \A k \in 0..N : SumOf(E, k) \in Nat /\ SumOf(E, k) =< SumOf(E, N)
  <2> TAKE k \in 0..N
  <2>1. k \in Nat /\ \A n \in 1..k : E[n] \in Nat
    BY <1>1
  <2> QED BY <1>1, <2>1, SumOfNat, SumOfGrows
<1>6. \A k \in 0..N : PmtBytes(section, k) = SumOf(E, N) - SumOf(E, k)
  <2> TAKE k \in 0..N
  <2>1. SumOf(E, k) \in Nat /\ SumOf(E, N) \in Nat
    BY <1>1, <1>5
  <2>2. PmtBytes(section, k) =
          section.length - Crc - 5 - 4 - section.info - SumOf(E, k)
    BY <1>4
  <2> QED BY <1>2, <1>3, <2>1, <2>2
<1>7. PmtBytes(section, N) = 0
  <2>1. N \in 0..N
    BY <1>1
  <2> QED BY <1>5, <1>6, <2>1
<1>8. ASSUME NEW k \in 0..(N - 1)
      PROVE  PmtBytes(section, k) >= 5
  <2>1. k \in Nat /\ k \in 0..N /\ k + 1 \in 0..N /\ k + 1 \in 1..N
        /\ \A n \in 1..(k + 1) : E[n] \in Nat
    BY <1>1
  <2>2. SumOf(E, k + 1) = SumOf(E, k) + E[k + 1]
    BY <2>1, SumOfNext
  <2>3. SumOf(E, k + 1) =< SumOf(E, N) /\ SumOf(E, k) \in Nat /\ SumOf(E, N) \in Nat
    BY <1>1, <1>5, <2>1
  <2>4. E[k + 1] \in Nat /\ E[k + 1] >= 5
    BY <1>1, <2>1
  <2>5. PmtBytes(section, k) = SumOf(E, N) - SumOf(E, k)
    BY <1>6, <2>1
  <2> QED BY <2>2, <2>3, <2>4, <2>5
<1>9. EndsBehind(section, N)
  BY <1>7, <1>8 DEF EndsBehind
<1>10. ASSUME NEW k \in 0..N, EndsBehind(section, k)
       PROVE  k = N
  <2>1. PmtBytes(section, k) \in 0..4
    BY <1>10 DEF EndsBehind
  <2>2. k # N => k \in 0..(N - 1)
    BY <1>1
  <2>3. k # N => PmtBytes(section, k) >= 5
    BY <2>2, <1>8
  <2> QED BY <2>1, <2>3
<1>11. StreamCounts(section) = {k \in 0..N : EndsBehind(section, k)}
  BY DEF StreamCounts, N
<1>12. N \in 0..N
  BY <1>1
<1>13. StreamCounts(section) = {N}
  BY <1>9, <1>10, <1>11, <1>12
<1> QED BY <1>13 DEF N

LEMMA AllStreamsRead ==
  ASSUME NEW p, p.section \in PmtType, StreamCounts(p.section) = {Len(p.section.streams)}
  PROVE  StreamsRead(p) = p.section.streams
<1>1. (CHOOSE k \in StreamCounts(p.section) : TRUE) = Len(p.section.streams)
  OBVIOUS
<1>2. \A s \in Seq(StreamType) : SubSeq(s, 1, Len(s)) = s
  OBVIOUS
<1>3. p.section.streams \in Seq(StreamType)
  BY EntriesAre
<1> QED BY <1>1, <1>2, <1>3 DEF StreamsRead

\* What is read of any PMT that is not garbled.
LEMMA StreamsAreRead ==
  ASSUME NEW p, p.section \in PmtType, StreamCounts(p.section) # {}
  PROVE  StreamsRead(p) \in Seq(StreamType)
<1>1. p.section.streams \in Seq(StreamType)
  BY EntriesAre
<1>2. PICK k \in 0..Len(p.section.streams) :
        StreamsRead(p) = SubSeq(p.section.streams, 1, k)
  BY DEF StreamsRead, StreamCounts
<1>3. \A s \in Seq(StreamType), n \in 0..Len(p.section.streams) :
        Len(s) = Len(p.section.streams) => SubSeq(s, 1, n) \in Seq(StreamType)
  OBVIOUS
<1> QED BY <1>1, <1>2, <1>3

\* And of a PAT that conforms.
LEMMA AllProgramsRead ==
  ASSUME NEW p, p.section \in PatType, Inside(p), PatConforms(p)
  PROVE  /\ ~PatGarbled(p) /\ Len(PmtPids(p)) = Len(p.section.programs)
         /\ Len(PmtPids(p)) = 1 => PmtPids(p)[1] = p.section.programs[1].pid
<1> DEFINE N == Len(p.section.programs)
<1>1. N \in Nat
  BY DEF PatType
<1>2. p.section.length = 5 + 4 * N + 4
  BY DEF PatConforms, Crc
<1>3. PatBytes(p.section) = p.section.length - 4 - 5
  BY DEF PatBytes, Crc
<1>4. ProgramsRead(p.section) = PatBytes(p.section) \div 4
  BY DEF ProgramsRead
<1> HIDE DEF N
<1>5. PatBytes(p.section) = N * 4 + 0
  BY <1>1, <1>2, <1>3
<1>6. (N * 4 + 0) \div 4 = N
  <2>1. 4 \in Nat \ {0} /\ 0 \in 0..(4 - 1)
    OBVIOUS
  <2> QED BY <1>1, <2>1, DivWhole
<1>7. ProgramsRead(p.section) = N /\ PatBytes(p.section) >= 0
  BY <1>1, <1>4, <1>5, <1>6
<1>8. ~PatGarbled(p)
  <2>1. PatBytes(p.section) \in Nat
    BY <1>1, <1>5
  <2>2. ProgramsRead(p.section) = Len(p.section.programs) /\ Len(p.section.programs) \in Nat
    BY <1>1, <1>7 DEF N
  <2>3. ~(PatBytes(p.section) < 0)
    BY <2>1
  <2>4. ~(ProgramsRead(p.section) > Len(p.section.programs))
    BY <2>2
  <2> QED BY <2>3, <2>4 DEF PatGarbled
<1>9. PmtPids(p) = [n \in 1..N |-> p.section.programs[n].pid]
  BY <1>7 DEF PmtPids
<1>10. Len(PmtPids(p)) = N /\ (N = 1 => PmtPids(p)[1] = p.section.programs[1].pid)
  BY <1>1, <1>9
<1> QED BY <1>8, <1>10 DEF N

-----------------------------------------------------------------------------
(* The tables.  What has been found when conforming ones are read, and what  *)
(* is found in any.                                                          *)

TablesInv ==
  /\ segment \in Segments \cup {NoSegment}
  /\ pc \in {"parse", "open"} => segment = NoSegment
  /\ pc = "pmt" => pmtPid \in DOMAIN segment.pmts
  /\ pc \in {"parse", "open", "pat", "pmt"} => videoPid = 0
  /\ TablesConform =>
       /\ pc = "pmt" => PmtIsThere /\ pmtPid = Programs[1].pid
       /\ pc = "scan" =>
            /\ VideoIsThere /\ pmtPid = Programs[1].pid
            /\ IsTheVideo(videoPid) /\ videoPid # 0
       /\ pc = "done" /\ ret = 0 => (videoPid # 0 <=> VideoIsThere)
       /\ pc # "killed"

TypeInv ==
  /\ argv \in Seq(STRING)
  /\ rc \in {0, -1}
  /\ opts.frames \in Int /\ opts.quality \in Int
  /\ pmtPid \in Pid /\ videoPid \in Pid
  /\ count \in 0..MaxPes
  /\ ret \in {0, 1, 3}
  /\ pc \in {"parse", "open", "pat", "pmt", "scan", "done", "killed"}

LEMMA VideosRead ==
  ASSUME NEW p, p.section \in PmtType, StreamCounts(p.section) = {Len(p.section.streams)},
         NEW videos, videos = OfType(StreamsRead(p), AvcVideo)
  PROVE  /\ Len(videos) = 1 <=> NamesOne(p.section.streams)
         /\ Len(videos) = 1 =>
              \E n \in DOMAIN p.section.streams :
                /\ p.section.streams[n].type = AvcVideo
                /\ p.section.streams[n].pid = videos[1].pid
<1> DEFINE s == p.section.streams
           S == {x \in ToSet(s) : x.type = AvcVideo}
<1>1. s \in Seq(StreamType)
  BY EntriesAre
<1>2. StreamsRead(p) = s
  BY AllStreamsRead
<1>3. videos = Only(s, S)
  BY <1>2 DEF OfType
<1> HIDE DEF s
<1>4. \A n \in DOMAIN s : s[n] \in S <=> s[n].type = AvcVideo
  BY DEF ToSet
<1> HIDE DEF S
<1>5. /\ Len(videos) = 1 <=> HasOne(s, S)
      /\ Len(videos) = 1 => \E n \in DOMAIN s : s[n] \in S /\ s[n] = videos[1]
  BY <1>1, <1>3, OneIsKept
<1>6. HasOne(s, S) <=> NamesOne(s)
  BY <1>4 DEF HasOne, HasOneIn, NamesOne
<1>7. Len(videos) = 1 =>
        \E n \in DOMAIN s : s[n].type = AvcVideo /\ s[n].pid = videos[1].pid
  BY <1>4, <1>5
<1> QED BY <1>5, <1>6, <1>7 DEF s

\* The properties of the tables look at nothing but the segment.
LEMMA SameSegment ==
  ASSUME segment' = segment
  PROVE  /\ TablesConform' = TablesConform /\ Programs' = Programs
         /\ PmtIsThere' = PmtIsThere /\ VideoIsThere' = VideoIsThere
<1>1. Pat' = Pat
  BY DEF Pat
<1>2. TablesConform' = TablesConform
  BY <1>1 DEF TablesConform
<1>3. Programs' = Programs
  BY <1>1 DEF Programs
<1>4. PmtIsThere' = PmtIsThere /\ VideoIsThere' = VideoIsThere
  BY <1>3 DEF PmtIsThere, VideoIsThere
<1> QED BY <1>2, <1>3, <1>4

LEMMA NoTablesConform == segment = NoSegment => ~TablesConform
BY DEF NoSegment, TablesConform

\* What is read of tables that conform.
LEMMA ConformingPat ==
  ASSUME TablesInv, TablesConform
  PROVE  /\ HasPat /\ Pat.section.ok /\ ~PatGarbled(Pat)
         /\ Len(PmtPids(Pat)) = Len(Programs)
         /\ Len(PmtPids(Pat)) = 1 => PmtPids(Pat)[1] = Programs[1].pid
<1>1. segment \in Segments
  BY NoTablesConform DEF TablesInv
<1>2. segment.pat \in Seq(PacketWith(PatType)) /\ segment.pat # <<>>
  BY <1>1, SegmentsAssumption DEF TablesConform
<1>3. Pat \in PacketWith(PatType)
  BY <1>2 DEF Pat
<1>4. Pat.section \in PatType
  BY <1>3 DEF PacketWith
<1>5. Pat.pusi /\ Pat.section.ok /\ Inside(Pat) /\ PatConforms(Pat)
  BY DEF TablesConform
<1> QED BY <1>2, <1>4, <1>5, AllProgramsRead DEF HasPat, Programs

LEMMA PmtIs ==
  ASSUME TablesInv, pmtPid \in DOMAIN segment.pmts
  PROVE  Pmt.section \in PmtType /\ pmtPid \in Pid
<1>1. segment \in Segments
  <2>1. DOMAIN NoSegment.pmts = {}
    BY DEF NoSegment
  <2> QED BY <2>1 DEF TablesInv
<1>2. Pmt \in PacketWith(PmtType) /\ pmtPid \in Pid
  BY <1>1, SegmentsAssumption DEF Pmt
<1> QED BY <1>2 DEF PacketWith

LEMMA ConformingPmt ==
  ASSUME TablesInv, TablesConform, pmtPid \in DOMAIN segment.pmts
  PROVE  /\ Pmt.pusi /\ Pmt.section.ok /\ ~PmtGarbled(Pmt)
         /\ Len(Videos) = 1 <=> NamesOne(Pmt.section.streams)
         /\ Len(Videos) = 1 => IsTheVideo(Videos[1].pid) /\ Videos[1].pid # 0
<1>1. Pmt.section \in PmtType
  BY PmtIs
<1>2. Pmt.pusi /\ Pmt.section.ok /\ Inside(Pmt) /\ PmtConforms(Pmt)
  BY DEF TablesConform, Pmt
<1>3. StreamCounts(Pmt.section) = {Len(Pmt.section.streams)}
  BY <1>1, <1>2, CountIsLen DEF PmtConforms
<1>4. ~PmtGarbled(Pmt)
  BY <1>2, <1>3 DEF PmtGarbled
<1>5. /\ Len(Videos) = 1 <=> NamesOne(Pmt.section.streams)
      /\ Len(Videos) = 1 =>
           \E n \in DOMAIN Pmt.section.streams :
             /\ Pmt.section.streams[n].type = AvcVideo
             /\ Pmt.section.streams[n].pid = Videos[1].pid
  <2>1. Videos = OfType(StreamsRead(Pmt), AvcVideo)
    BY DEF Videos
  <2> HIDE DEF Videos, Pmt
  <2> QED BY <1>1, <1>3, <2>1, VideosRead
<1>6. \A n \in DOMAIN Pmt.section.streams : Pmt.section.streams[n].pid # 0
  BY <1>2 DEF PmtConforms
<1> HIDE DEF Videos, Pmt
<1> QED BY <1>2, <1>4, <1>5, <1>6 DEF IsTheVideo

LEMMA StillNothingFound ==
  ASSUME TablesInv, segment = NoSegment, UNCHANGED <<segment, videoPid>>,
         pc \in {"parse", "open"}, pc' \in {"parse", "open", "done", "killed"}
  PROVE  TablesInv'
<1>1. ~TablesConform'
  BY NoTablesConform, SameSegment
<1> QED BY <1>1 DEF TablesInv

LEMMA NextTables == TablesInv /\ [Next]_vars => TablesInv'
<1> SUFFICES ASSUME TablesInv, [Next]_vars PROVE TablesInv'  OBVIOUS
<1>1. CASE Options \/ CannotMap
  <2>1. /\ pc \in {"parse", "open"} /\ pc' \in {"parse", "open", "done", "killed"}
        /\ UNCHANGED <<segment, videoPid>>
    BY <1>1 DEF Options, OutputName, NotRecognized, Switch, Value, ValueMissing,
                HelpOrInvalid, Usage, Parsed, CannotMap, Parsing, tableVars
  <2>2. segment = NoSegment
    BY <2>1 DEF TablesInv
  <2> QED BY <2>1, <2>2, StillNothingFound
<1>2. CASE Load
  BY <1>2 DEF Load, TablesInv
<1>3. CASE FindPat
  <2>1. /\ pc = "pat" /\ pc' = "pmt" /\ UNCHANGED <<segment, videoPid>>
        /\ Len(PmtPids(Pat)) = 1 /\ PmtPids(Pat)[1] \in DOMAIN segment.pmts
        /\ pmtPid' = PmtPids(Pat)[1]
    BY <1>3 DEF FindPat, GoOn
  <2>2. TablesConform' = TablesConform /\ PmtIsThere' = PmtIsThere /\ Programs' = Programs
    BY <2>1, SameSegment
  <2>3. TablesConform => PmtIsThere /\ pmtPid' = Programs[1].pid
    BY <2>1, ConformingPat DEF PmtIsThere
  <2> QED BY <2>1, <2>2, <2>3 DEF TablesInv
<1>4. CASE NoPat
  <2>1. /\ pc = "pat" /\ pc' = "done" /\ UNCHANGED <<segment, videoPid>>
        /\ HasPat => /\ ~(Pat.section.ok /\ PatGarbled(Pat))
                     /\ Pat.section.ok =>
                          \/ Len(PmtPids(Pat)) # 1
                          \/ PmtPids(Pat)[1] \notin DOMAIN segment.pmts
    BY <1>4 DEF NoPat, GoOn
  <2>2. TablesConform' = TablesConform /\ VideoIsThere' = VideoIsThere
    BY <2>1, SameSegment
  <2>3. TablesConform => ~VideoIsThere
    BY <2>1, ConformingPat DEF PmtIsThere, VideoIsThere
  <2>4. videoPid = 0
    BY <2>1 DEF TablesInv
  <2> QED BY <2>1, <2>2, <2>3, <2>4 DEF TablesInv
<1>5. CASE GarbledPat
  <2>1. /\ pc = "pat" /\ UNCHANGED <<segment, videoPid>> /\ PatGarbled(Pat)
        /\ \/ pc' = "pmt" /\ pmtPid' \in DOMAIN segment.pmts
           \/ pc' \in {"done", "killed"}
    BY <1>5 DEF GarbledPat, GoOn
  <2>2. ~TablesConform'
    BY <2>1, ConformingPat, SameSegment
  <2> QED BY <2>1, <2>2 DEF TablesInv
<1>6. CASE FindPmt
  <2>1. /\ pc = "pmt" /\ pc' = "scan" /\ UNCHANGED <<segment, pmtPid>>
        /\ Len(Videos) = 1 /\ videoPid' = Videos[1].pid
    BY <1>6 DEF FindPmt, GoOn
  <2>2. pmtPid \in DOMAIN segment.pmts
    BY <2>1 DEF TablesInv
  <2>3. /\ TablesConform' = TablesConform /\ VideoIsThere' = VideoIsThere
        /\ Programs' = Programs
    BY <2>1, SameSegment
  <2>4. ASSUME TablesConform
        PROVE  /\ VideoIsThere /\ pmtPid = Programs[1].pid
               /\ IsTheVideo(videoPid') /\ videoPid' # 0
    <3>1. PmtIsThere /\ pmtPid = Programs[1].pid
      BY <2>1, <2>4 DEF TablesInv
    <3>2. NamesOne(Pmt.section.streams) /\ IsTheVideo(videoPid') /\ videoPid' # 0
      BY <2>1, <2>2, <2>4, ConformingPmt
    <3> QED BY <3>1, <3>2 DEF VideoIsThere, Pmt
  <2>5. IsTheVideo(videoPid)' = IsTheVideo(videoPid')
    BY <2>1 DEF IsTheVideo, Pmt
  <2> QED BY <2>1, <2>3, <2>4, <2>5 DEF TablesInv
<1>7. CASE NoPmt
  <2>1. /\ pc = "pmt" /\ pc' = "done" /\ UNCHANGED <<segment, pmtPid, videoPid>>
        /\ Pmt.pusi => /\ ~(Pmt.section.ok /\ PmtGarbled(Pmt))
                       /\ Pmt.section.ok => Len(Videos) # 1
    BY <1>7 DEF NoPmt, GoOn
  <2>2. pmtPid \in DOMAIN segment.pmts /\ videoPid = 0
    BY <2>1 DEF TablesInv
  <2>3. TablesConform' = TablesConform /\ VideoIsThere' = VideoIsThere
    BY <2>1, SameSegment
  <2>4. ASSUME TablesConform PROVE ~VideoIsThere
    <3>1. pmtPid = Programs[1].pid
      BY <2>1, <2>4 DEF TablesInv
    <3>2. ~NamesOne(Pmt.section.streams)
      BY <2>1, <2>2, <2>4, ConformingPmt
    <3> QED BY <3>1, <3>2 DEF VideoIsThere, Pmt
  <2> QED BY <2>1, <2>2, <2>3, <2>4 DEF TablesInv
<1>8. CASE GarbledPmt
  <2>1. /\ pc = "pmt" /\ UNCHANGED segment /\ PmtGarbled(Pmt)
        /\ pc' \in {"scan", "done", "killed"}
    BY <1>8 DEF GarbledPmt, GoOn
  <2>2. pmtPid \in DOMAIN segment.pmts
    BY <2>1 DEF TablesInv
  <2>3. ~TablesConform'
    BY <2>1, <2>2, ConformingPmt, SameSegment
  <2> QED BY <2>1, <2>3 DEF TablesInv
<1>9. CASE Scan
  <2>1. /\ pc = "scan" /\ pc' \in {"scan", "done"} /\ UNCHANGED tableVars
    BY <1>9 DEF Scan, StartPes, ContinuePes, EndOfScan
  <2>2. UNCHANGED <<segment, pmtPid, videoPid>>
    BY <2>1 DEF tableVars
  <2>3. /\ TablesConform' = TablesConform /\ VideoIsThere' = VideoIsThere
        /\ Programs' = Programs
    BY <2>2, SameSegment
  <2>4. IsTheVideo(videoPid)' = IsTheVideo(videoPid)
    BY <2>2 DEF IsTheVideo, Pmt
  <2> QED BY <2>1, <2>2, <2>3, <2>4 DEF TablesInv
<1>10. CASE UNCHANGED vars
  <2>1. UNCHANGED <<segment, pmtPid, videoPid, ret, pc>>
    BY <1>10 DEF vars, tableVars
  <2>2. /\ TablesConform' = TablesConform /\ VideoIsThere' = VideoIsThere
        /\ Programs' = Programs /\ PmtIsThere' = PmtIsThere
    BY <2>1, SameSegment
  <2>3. IsTheVideo(videoPid)' = IsTheVideo(videoPid)
    BY <2>1 DEF IsTheVideo, Pmt
  <2> QED BY <2>1, <2>2, <2>3 DEF TablesInv
<1> QED
  BY <1>1, <1>2, <1>3, <1>4, <1>5, <1>6, <1>7, <1>8, <1>9, <1>10
  DEF Next, TablesAndFile

LEMMA TablesInvHolds == Spec => []TablesInv
<1>1. Init => TablesInv
  <2>1. Init => segment = NoSegment /\ pc = "parse" /\ videoPid = 0
    BY DEF Init
  <2> QED BY <2>1, NoTablesConform DEF TablesInv
<1> QED BY <1>1, NextTables, PTL DEF Spec

(* With tables that conform to ISO/IEC 13818-1 the video is found exactly if
   there is one program entry whose PMT is there and names one AVC stream
   (PAT::PAT, PMT::PMT, findAndDecodePAT, findAndDecodePMT). *)
THEOREM TablesAreFound == Spec => []TablesFound
<1>1. TablesInv => TablesFound
  BY DEF TablesInv, TablesFound
<1> QED BY <1>1, TablesInvHolds, PTL

\* What Options::parse() does to the numbers among the options.
LEMMA NumbersSet ==
  ASSUME NEW source, NEW dest, NEW save, NEW decode, NEW frames, NEW quality,
         NEW o, NEW x,
         o = [source |-> source, dest |-> dest, save |-> save, decode |-> decode,
              frames |-> frames, quality |-> quality]
  PROVE  /\ [o EXCEPT !.dest = x].frames = frames
         /\ [o EXCEPT !.dest = x].quality = quality
         /\ [o EXCEPT !.save = x].frames = frames
         /\ [o EXCEPT !.save = x].quality = quality
         /\ [o EXCEPT !.decode = x].frames = frames
         /\ [o EXCEPT !.decode = x].quality = quality
         /\ [o EXCEPT !.source = x].frames = frames
         /\ [o EXCEPT !.source = x].quality = quality
         /\ [o EXCEPT !.frames = x].frames = x
         /\ [o EXCEPT !.frames = x].quality = quality
         /\ [o EXCEPT !.quality = x].frames = frames
         /\ [o EXCEPT !.quality = x].quality = x
OBVIOUS

LEMMA NumbersKept ==
  ASSUME OptionsInv, Parsing, NEW x
  PROVE  /\ [opts EXCEPT !.dest = x].frames = opts.frames
         /\ [opts EXCEPT !.dest = x].quality = opts.quality
         /\ [opts EXCEPT !.save = x].frames = opts.frames
         /\ [opts EXCEPT !.save = x].quality = opts.quality
         /\ [opts EXCEPT !.decode = x].frames = opts.frames
         /\ [opts EXCEPT !.decode = x].quality = opts.quality
         /\ [opts EXCEPT !.source = x].frames = opts.frames
         /\ [opts EXCEPT !.source = x].quality = opts.quality
         /\ [opts EXCEPT !.frames = x].frames = x
         /\ [opts EXCEPT !.frames = x].quality = opts.quality
         /\ [opts EXCEPT !.quality = x].frames = opts.frames
         /\ [opts EXCEPT !.quality = x].quality = x
<1>1. PICK m \in 0..Len(given) : opts = MeantBy(m)
  BY DEF OptionsInv, Parsing, ParsedTo
<1>2. PICK source, dest, save, decode, frames, quality :
        opts = [source |-> source, dest |-> dest, save |-> save, decode |-> decode,
                frames |-> frames, quality |-> quality]
  BY <1>1, Zenon DEF MeantBy
<1>3. opts.frames = frames /\ opts.quality = quality
  BY <1>2
<1> QED BY <1>2, <1>3, NumbersSet

LEMMA NextTypes == OptionsInv /\ TablesInv /\ TypeInv /\ [Next]_vars => TypeInv'
<1> SUFFICES ASSUME OptionsInv, TablesInv, TypeInv, [Next]_vars
             PROVE  TypeInv'
  OBVIOUS
<1>1. argv # <<>> => Tail(argv) \in Seq(STRING)
  BY DEF TypeInv
<1>2. CASE OutputName
  <2>1. /\ Parsing /\ argv' = <<>> /\ opts' = [opts EXCEPT !.dest = Head(argv)]
        /\ UNCHANGED <<rc, pmtPid, videoPid, count, ret, pc>>
    BY <1>2 DEF OutputName, tableVars, scanVars
  <2>2. opts'.frames = opts.frames /\ opts'.quality = opts.quality
    BY <2>1, NumbersKept
  <2>3. argv' \in Seq(STRING)
    BY <2>1
  <2> QED BY <2>1, <2>2, <2>3 DEF TypeInv
<1>3. CASE Switch
  <2>1. /\ Parsing /\ argv' = Tail(argv)
        /\ \/ opts' = [opts EXCEPT !.save = TRUE]
           \/ opts' = [opts EXCEPT !.decode = TRUE]
        /\ UNCHANGED <<rc, pmtPid, videoPid, count, ret, pc>>
    BY <1>3 DEF Switch, tableVars, scanVars
  <2>2. opts'.frames = opts.frames /\ opts'.quality = opts.quality
    <3>1. \A x : /\ [opts EXCEPT !.save = x].frames = opts.frames
                 /\ [opts EXCEPT !.save = x].quality = opts.quality
                 /\ [opts EXCEPT !.decode = x].frames = opts.frames
                 /\ [opts EXCEPT !.decode = x].quality = opts.quality
      BY <2>1, NumbersKept
    <3> QED BY <2>1, <3>1, Zenon
  <2>3. argv' \in Seq(STRING)
    BY <1>1, <2>1 DEF Parsing
  <2> QED BY <2>1, <2>2, <2>3 DEF TypeInv
<1>4. CASE Value
  <2>1. /\ Parsing /\ argv' = SubSeq(argv, 3, Len(argv)) /\ Len(argv) > 1
        /\ Head(argv) \in TakesValue
        /\ opts' = With(Head(argv), argv[2])
        /\ UNCHANGED <<rc, pmtPid, videoPid, count, ret, pc>>
    BY <1>4 DEF Value, tableVars, scanVars
  <2>2. Atoi[argv[2]] \in Int
    <3>1. PICK m \in 0..(Len(given) - 1) :
            /\ given \in Seq(STRING) /\ Len(argv) = Len(given) - m
            /\ m + 1 < Len(given) => argv[2] = given[m + 2]
      BY <2>1, StepOptions
    <3>2. m + 2 \in DOMAIN given /\ m + 1 < Len(given)
      <4>1. Len(given) \in Nat /\ DOMAIN given = 1..Len(given) /\ m \in Nat
        BY <3>1
      <4>2. Len(given) - m > 1
        BY <2>1, <3>1
      <4> QED BY <4>1, <4>2
    <3>3. given \in ArgLists
      <4>1. DOMAIN <<>> = {}
        OBVIOUS
      <4> QED BY <3>2, <4>1 DEF OptionsInv
    <3> QED BY <3>1, <3>2, <3>3, ArgumentsAssumption
  <2>3. opts'.frames \in Int /\ opts'.quality \in Int
    <3> DEFINE x == argv[2]
               flag == Head(argv)
    <3>1. /\ flag \in {"-i", "-f", "-q"}
          /\ "-i" # "-f" /\ "-i" # "-q" /\ "-f" # "-q"
      BY <2>1, FlagsApart
    <3>2. opts' = With(flag, x) /\ Atoi[x] \in Int
      BY <2>1, <2>2
    <3>3. opts.frames \in Int /\ opts.quality \in Int
      BY DEF TypeInv
    <3> HIDE DEF x, flag
    <3>4. \/ opts' = [opts EXCEPT !.source = x]
          \/ opts' = [opts EXCEPT !.frames = Atoi[x]]
          \/ opts' = [opts EXCEPT !.quality = Atoi[x]]
      BY <3>1, <3>2 DEF With
    <3>5. \A v : /\ [opts EXCEPT !.source = v].frames = opts.frames
                 /\ [opts EXCEPT !.source = v].quality = opts.quality
                 /\ [opts EXCEPT !.frames = v].frames = v
                 /\ [opts EXCEPT !.frames = v].quality = opts.quality
                 /\ [opts EXCEPT !.quality = v].frames = opts.frames
                 /\ [opts EXCEPT !.quality = v].quality = v
      BY <2>1, NumbersKept
    <3>6. \/ opts'.frames = opts.frames /\ opts'.quality = opts.quality
          \/ opts'.frames = Atoi[x] /\ opts'.quality = opts.quality
          \/ opts'.frames = opts.frames /\ opts'.quality = Atoi[x]
      <4>1. CASE opts' = [opts EXCEPT !.source = x]
        BY <3>5, <4>1, Zenon
      <4>2. CASE opts' = [opts EXCEPT !.frames = Atoi[x]]
        BY <3>5, <4>2, Zenon
      <4>3. CASE opts' = [opts EXCEPT !.quality = Atoi[x]]
        BY <3>5, <4>3, Zenon
      <4> QED BY <3>4, <4>1, <4>2, <4>3
    <3> QED BY <3>2, <3>3, <3>6
  <2>4. argv' \in Seq(STRING)
    <3>1. \A s \in Seq(STRING) : Len(s) > 1 => SubSeq(s, 3, Len(s)) \in Seq(STRING)
      OBVIOUS
    <3> QED BY <2>1, <3>1 DEF TypeInv
  <2> QED BY <2>1, <2>3, <2>4 DEF TypeInv
<1>5. CASE HelpOrInvalid
  <2>1. /\ Parsing /\ argv' = Tail(argv) /\ rc' = -1
        /\ UNCHANGED <<opts, pmtPid, videoPid, count, ret, pc>>
    BY <1>5 DEF HelpOrInvalid, tableVars, scanVars
  <2>2. argv' \in Seq(STRING)
    BY <1>1, <2>1 DEF Parsing
  <2> QED BY <2>1, <2>2 DEF TypeInv
<1>6. CASE NotRecognized \/ ValueMissing \/ Usage \/ Parsed \/ CannotMap
  BY <1>6 DEF NotRecognized, ValueMissing, Usage, Parsed, CannotMap, TypeInv,
              optionVars, tableVars, scanVars
<1>7. CASE Load
  BY <1>7 DEF Load, TypeInv, scanVars
<1>8. ASSUME segment \in Segments, NEW pid \in DOMAIN segment.pmts PROVE pid \in Pid
  BY <1>8, SegmentsAssumption
<1>9. ASSUME NEW pid \in DOMAIN segment.pmts PROVE pid \in Pid
  <2>1. DOMAIN NoSegment.pmts = {}
    BY DEF NoSegment
  <2> QED BY <1>8, <2>1 DEF TablesInv
<1>10. CASE FindPat \/ NoPat \/ GarbledPat
  <2>1. /\ UNCHANGED <<optionVars, videoPid, scanVars, ret>>
        /\ pc' \in {"pmt", "done", "killed"}
        /\ pmtPid' = pmtPid \/ pmtPid' \in DOMAIN segment.pmts
    BY <1>10 DEF FindPat, NoPat, GarbledPat, GoOn
  <2>2. pmtPid' \in Pid
    BY <1>9, <2>1 DEF TypeInv
  <2> QED BY <2>1, <2>2 DEF TypeInv, optionVars, scanVars
<1>11. CASE FindPmt \/ NoPmt \/ GarbledPmt
  <2>1. /\ pc = "pmt" /\ UNCHANGED <<optionVars, pmtPid, scanVars, ret>>
        /\ pc' \in {"scan", "done", "killed"}
    BY <1>11 DEF FindPmt, NoPmt, GarbledPmt, GoOn
  <2>2. Pmt.section \in PmtType
    BY <2>1, PmtIs DEF TablesInv
  <2>3. videoPid' \in Pid
    <3>1. CASE FindPmt
      <4>1. StreamCounts(Pmt.section) # {} /\ Len(Videos) = 1 /\ videoPid' = Videos[1].pid
        BY <3>1 DEF FindPmt, PmtGarbled
      <4>2. StreamsRead(Pmt) \in Seq(StreamType)
        <5> HIDE DEF Pmt
        <5> QED BY <2>2, <4>1, StreamsAreRead
      <4>3. Videos \in Seq(StreamType)
        BY <4>2, OnlyInSeq DEF Videos, OfType
      <4>4. \A s \in Seq(StreamType) : Len(s) = 1 => s[1].pid \in Pid
        <5>1. \A s \in Seq(StreamType) : Len(s) = 1 => s[1] \in StreamType
          OBVIOUS
        <5> QED BY <5>1 DEF StreamType
      <4> QED BY <4>1, <4>3, <4>4
    <3>2. CASE NoPmt
      BY <3>2 DEF NoPmt, TypeInv
    <3>3. CASE GarbledPmt
      <4>1. \/ videoPid' \in {Pmt.section.streams[n].pid :
                               n \in DOMAIN Pmt.section.streams} \cup {8191}
            \/ videoPid' = videoPid
        BY <3>3 DEF GarbledPmt
      <4>2. Pmt.section.streams \in Seq(StreamType)
        <5> HIDE DEF Pmt
        <5> QED BY <2>2, EntriesAre
      <4>3. \A s \in Seq(StreamType) : \A n \in DOMAIN s : s[n].pid \in Pid
        <5>1. \A s \in Seq(StreamType) : \A n \in DOMAIN s : s[n] \in StreamType
          OBVIOUS
        <5> QED BY <5>1 DEF StreamType
      <4>4. 8191 \in Pid
        BY DEF Pid
      <4> HIDE DEF Pmt
      <4> QED BY <4>1, <4>2, <4>3, <4>4 DEF TypeInv
    <3> QED BY <1>11, <3>1, <3>2, <3>3
  <2> QED BY <2>1, <2>3 DEF TypeInv, optionVars, scanVars
<1>12. CASE Scan
  <2>1. /\ pc = "scan" /\ pc' \in {"scan", "done"}
        /\ UNCHANGED <<optionVars, tableVars, ret>>
        /\ count' = count \/ (count < MaxPes /\ count' = count + 1)
    BY <1>12 DEF Scan, StartPes, ContinuePes, EndOfScan, scanVars
  <2>2. count' \in 0..MaxPes
    BY <2>1, InputAssumption DEF TypeInv
  <2> QED BY <2>1, <2>2 DEF TypeInv, optionVars, tableVars
<1>13. CASE UNCHANGED vars
  BY <1>13 DEF vars, optionVars, tableVars, scanVars, TypeInv
<1> QED
  BY <1>2, <1>3, <1>4, <1>5, <1>6, <1>7, <1>10, <1>11, <1>12, <1>13
  DEF Next, Options, TablesAndFile

LEMMA TypeInvHolds == Spec => []TypeInv
<1>1. Init => TypeInv
  <2> SUFFICES ASSUME Init PROVE TypeInv  OBVIOUS
  <2>1. /\ given \in ArgLists /\ argv = given /\ opts = Defaults /\ rc = 0
        /\ pmtPid = 0 /\ videoPid = 0 /\ count = 0 /\ ret = 0 /\ pc = "parse"
    BY DEF Init
  <2>2. argv \in Seq(STRING)
    BY <2>1, ArgumentsAssumption
  <2>3. opts.frames = -1 /\ opts.quality = -1
    BY <2>1 DEF Defaults
  <2>4. 0 \in Pid /\ 0 \in 0..MaxPes
    BY InputAssumption DEF Pid
  <2> QED BY <2>1, <2>2, <2>3, <2>4 DEF TypeInv
<1> QED BY <1>1, NextTypes, OptionsInvHolds, TablesInvHolds, PTL DEF Spec

(* The types of the state, for any command line, any tables and any packets; no
   more bytes are held than the largest PES has. *)
THEOREM InputTypes == Spec => []TypeOK
<1>1. TypeInv /\ PesInv => TypeOK
  <2> SUFFICES ASSUME TypeInv, PesInv PROVE TypeOK  OBVIOUS
  <2>1. /\ left \in Nat /\ pes.have \in Nat /\ pes.header \in Headers \cup {NoHeader}
        /\ pes.have + left = Total(pes.header)
    BY DEF PesInv, GatherInv, Gathered
  <2>2. \E h \in Headers : pes.have =< Total(h)
    <3>1. \A h \in Headers : Total(h) \in Nat
      BY HeaderFacts
    <3>2. CASE pes.header \in Headers
      BY <2>1, <3>1, <3>2
    <3>3. CASE pes.header = NoHeader
      <4>1. pes.have = 0
        BY <2>1, <3>3 DEF Total
      <4>2. Headers # {}
        <5>1. PICK bounded \in BOOLEAN, stamp \in Stamps, stuffing \in {0, 3},
                   body \in Bodies : TRUE
          BY InputAssumption
        <5>2. Header(bounded, stamp, stuffing, body) \in Headers
          BY DEF Headers
        <5> QED BY <5>2
      <4>3. PICK h \in Headers : TRUE
        BY <4>2
      <4> QED BY <3>1, <4>1, <4>3
    <3> QED BY <2>1, <3>2, <3>3
  <2> QED BY <2>1, <2>2 DEF TypeInv, TypeOK
<1> QED BY <1>1, TypeInvHolds, PesCorrect, PTL
=============================================================================
