--------------------------- MODULE FindIDRProofs ---------------------------
(***************************************************************************)
(* The scanner of FindIDRTask finds the end of the first I-frame, for      *)
(* every stream of NALUs, with every size of packets and headers: its two  *)
(* state machines and its two remembered positions stay what the bytes     *)
(* read so far say.                                                        *)
(***************************************************************************)
EXTENDS FindIDR, InductionProofs

-----------------------------------------------------------------------------
(* Where the bytes are *)

\* Where the PES of a NALU begins, behind the header of its first packet.
Base(n) ==
  FirstPacket(nalus, n) * PacketSize
  + (IF PesHeader + Len(nalus[n]) >= Room THEN TsHeader
     ELSE PacketSize - (PesHeader + Len(nalus[n])))

\* Byte j of NALU n.
ByteAt(n, j) == Base(n) + j + PesHeader

Code == CodeAt(nalus[k])

NaluOK(v) ==
  /\ v \in Seq({0, 1, 5, 9})
  /\ Len(v) >= 4 + CodeAt(v)
  /\ \A p \in 1..(2 + CodeAt(v)) : v[p] = 0
  /\ v[3 + CodeAt(v)] = 1
  /\ \A p \in (CodeAt(v) + 2)..(Len(v) - 2) :
       ~(v[p] = 0 /\ v[p + 1] = 0 /\ v[p + 2] = 1)

StreamOK ==
  /\ Len(nalus) \in Nat \ {0} /\ DOMAIN nalus = 1..Len(nalus)
  /\ \A n \in 1..Len(nalus) : NaluOK(nalus[n])

LEMMA LengthIs ==
  ASSUME NEW v, NaluOK(v)
  PROVE  CodeAt(v) \in {0, 1} /\ Len(v) \in Nat \ {0} /\ Len(v) >= 4 + CodeAt(v)
<1>1. CodeAt(v) \in {0, 1}
  BY DEF CodeAt
<1>2. Len(v) \in Nat /\ Len(v) >= 4 + CodeAt(v)
  BY DEF NaluOK
<1> QED BY <1>1, <1>2

LEMMA SizesAre ==
  /\ PacketSize \in Nat /\ TsHeader \in Nat /\ PesHeader \in Nat
  /\ Room \in Nat \ {0} /\ Room = PacketSize - TsHeader
  /\ PesHeader + 4 =< Room /\ PacketSize \in Nat \ {0}
BY HeadersAssumption DEF Room

(* Every NALU takes one packet or more. *)
LEMMA PacketsOfIs == \A n \in Nat \ {0} : PacketsOf(n) \in Nat \ {0}
<1> TAKE n \in Nat \ {0}
<1> DEFINE x == PesHeader + n + Room - 1
           q == x \div Room
<1>1. x \in Nat /\ x >= Room /\ Room \in Nat \ {0}
  BY SizesAre
<1> HIDE DEF x
<1>2. q \in Nat
  BY <1>1, QuotientIsNat
<1>3. q # 0
  BY <1>1
<1> QED BY <1>2, <1>3 DEF PacketsOf, x

LEMMA FirstPacketIs ==
  ASSUME StreamOK, NEW n \in DOMAIN nalus
  PROVE  /\ FirstPacket(nalus, n) \in Nat
         /\ n > 1 => FirstPacket(nalus, n) > 0
<1> DEFINE numbers == [j \in DOMAIN nalus |-> PacketsOf(Len(nalus[j]))]
<1>1. /\ DOMAIN nalus = 1..Len(nalus) /\ Len(nalus) \in Nat
      /\ \A j \in 1..Len(nalus) : Len(nalus[j]) \in Nat \ {0}
  BY LengthIs DEF StreamOK
<1>2. \A j \in 1..Len(nalus) : numbers[j] \in Nat \ {0}
  BY <1>1, PacketsOfIs
<1>3. FirstPacket(nalus, n) = SumOf(numbers, n - 1)
  BY DEF FirstPacket
<1> HIDE DEF numbers
<1>4. n - 1 \in Nat /\ \A j \in 1..(n - 1) : numbers[j] \in Nat
  BY <1>1, <1>2
<1>5. FirstPacket(nalus, n) \in Nat
  BY <1>3, <1>4, SumOfNat
<1>6. ASSUME n > 1 PROVE FirstPacket(nalus, n) > 0
  <2> DEFINE m == n - 2
  <2>1. m \in Nat /\ n - 1 = m + 1 /\ m + 1 \in 1..Len(nalus)
    BY <1>1, <1>6
  <2> HIDE DEF m
  <2>2. \A j \in 1..(m + 1) : numbers[j] \in Nat
    BY <1>4, <2>1
  <2>3. SumOf(numbers, m + 1) = SumOf(numbers, m) + numbers[m + 1]
    BY <2>1, <2>2, SumOfNext
  <2>4. SumOf(numbers, m) \in Nat
    <3>1. \A j \in 1..m : numbers[j] \in Nat
      BY <2>1, <2>2
    <3> QED BY <2>1, <3>1, SumOfNat
  <2> QED BY <1>2, <1>3, <2>1, <2>3, <2>4
<1> QED BY <1>5, <1>6

(* The bytes of the first packet of a PES follow one another. *)
LEMMA PositionIs ==
  ASSUME StreamOK, NEW n \in DOMAIN nalus
  PROVE  /\ Base(n) \in Nat
         /\ \A j \in 0..(Room - 1) : PesPosition(nalus, n, j) = Base(n) + j
<1> DEFINE left == PesHeader + Len(nalus[n])
           header == IF left >= Room THEN TsHeader ELSE PacketSize - left
           first == FirstPacket(nalus, n) * PacketSize
<1>1. Len(nalus[n]) \in Nat
  BY LengthIs DEF StreamOK
<1>2. left \in Nat /\ header \in Nat
  BY <1>1, SizesAre
<1>3. first \in Nat /\ FirstPacket(nalus, n) \in Nat
  BY FirstPacketIs, SizesAre, ProductIsNat
<1>4. Base(n) = first + header
  BY DEF Base
<1>5. ASSUME NEW j \in 0..(Room - 1)
      PROVE  PesPosition(nalus, n, j) = Base(n) + j
  <2>1. j \div Room = 0 /\ j % Room = j
    BY SizesAre
  <2>2. PesPosition(nalus, n, j)
          = (FirstPacket(nalus, n) + (j \div Room)) * PacketSize
            + (IF PesHeader + (Len(nalus[n]) - (j \div Room) * Room) >= Room
               THEN TsHeader
               ELSE PacketSize
                    - (PesHeader + (Len(nalus[n]) - (j \div Room) * Room)))
            + (j % Room)
    BY DEF PesPosition
  <2>3. /\ PesHeader + (Len(nalus[n]) - 0 * Room) = left
        /\ FirstPacket(nalus, n) + 0 = FirstPacket(nalus, n)
    BY <1>1, <1>3, SizesAre
  <2> QED BY <1>4, <2>1, <2>2, <2>3
<1> HIDE DEF header, first
<1> QED BY <1>2, <1>3, <1>4, <1>5

(* The map of PES is off by the header, and still right for the bytes of a
   start code: they are in the first packet. *)
LEMMA MapIs ==
  ASSUME StreamOK, k \in DOMAIN nalus, i \in 0..2
  PROVE  Map = ByteAt(k, i) /\ Map \in Nat
<1>1. i \in 0..(Room - 1)
  BY SizesAre
<1>2. PesPosition(nalus, k, i) = Base(k) + i /\ Base(k) \in Nat
  BY <1>1, PositionIs
<1> QED BY <1>2, SizesAre DEF Map, ByteAt

LEMMA CodePositionIs ==
  ASSUME StreamOK, NEW n \in DOMAIN nalus
  PROVE  /\ CodeAt(nalus[n]) \in {0, 1}
         /\ CodePosition(n) = ByteAt(n, CodeAt(nalus[n]))
         /\ CodePosition(n) \in Nat
         /\ CodePosition(n) \div PacketSize = FirstPacket(nalus, n)
         /\ n > 1 => CodePosition(n) # 0
<1> DEFINE c == CodeAt(nalus[n])
           l == Len(nalus[n])
           header == IF PesHeader + l >= Room THEN TsHeader
                     ELSE PacketSize - (PesHeader + l)
           f == FirstPacket(nalus, n)
           r == header + c + PesHeader
<1>1. c \in {0, 1}
  BY DEF CodeAt
<1>2. PesHeader + c \in 0..(Room - 1)
  BY <1>1, SizesAre
<1>3. CodePosition(n) = Base(n) + (PesHeader + c) /\ Base(n) \in Nat
  BY <1>2, PositionIs DEF CodePosition
<1>4. l \in Nat /\ l >= 4 + c
  BY LengthIs DEF StreamOK
<1>5. r \in 0..(PacketSize - 1)
  <2> HIDE DEF c, l
  <2>1. CASE PesHeader + l >= Room
    BY <1>1, <2>1, SizesAre
  <2>2. CASE ~ PesHeader + l >= Room
    BY <1>1, <1>4, <2>2, SizesAre
  <2> QED BY <2>1, <2>2
<1>6. f \in Nat /\ (n > 1 => f > 0)
  BY FirstPacketIs
<1>7. Base(n) = f * PacketSize + header
  BY DEF Base
<1> HIDE DEF c, f
<1>8. f * PacketSize \in Nat
  BY <1>6, SizesAre, ProductIsNat
<1>9. CodePosition(n) = f * PacketSize + r
  <2>1. header \in Nat
    BY <1>4, SizesAre
  <2> HIDE DEF header
  <2> QED BY <1>1, <1>3, <1>7, <1>8, <2>1, SizesAre
<1> HIDE DEF r
<1>10. CodePosition(n) \div PacketSize = f
  BY <1>5, <1>6, <1>9, SizesAre, DivWhole
<1>11. ASSUME n > 1 PROVE CodePosition(n) # 0
  <2>1. 1 * PacketSize =< f * PacketSize
    BY <1>6, <1>11, SizesAre, ProductMonotone
  <2> QED BY <1>5, <1>8, <1>9, <2>1, SizesAre
<1>12. CodePosition(n) = ByteAt(n, c) /\ CodePosition(n) \in Nat
  BY <1>1, <1>3, SizesAre DEF ByteAt
<1> QED BY <1>1, <1>10, <1>11, <1>12 DEF c, f

-----------------------------------------------------------------------------
(* The inductive invariant *)

\* How many headers of NALUs the scanner has read.
HeadersRead == IF i >= 4 + Code THEN k ELSE k - 1

\* The second state machine and the positions, from byte to byte: what is in
\* front of a start code does not matter, and in a NALU none ends.
CodeScanned ==
  /\ i = 0 => pesState \in 0..2
  /\ i = 1 => \/ pesState = 1 /\ pointer = ByteAt(k, 0)
              \/ pesState = 2 /\ pointer2 = ByteAt(k, 0)
  /\ i = 2 => /\ pesState = 2
              /\ pointer = ByteAt(k, 0) /\ pointer2 = ByteAt(k, 1)
  /\ i = 3 /\ Code = 1 => pesState = 2 /\ pointer = ByteAt(k, 1)
  /\ i = 3 + Code => pesState = 3 /\ pointer = ByteAt(k, Code)
  /\ i >= 4 + Code => /\ pesState \in 0..2
                      /\ pesState # 0 => nalus[k][i] = 0
                      /\ pesState = 2 => nalus[k][i - 1] = 0

\* The first state machine, from header to header.
TypesScanned ==
  \/ scanState = 0 /\ \A n \in 1..HeadersRead : Types[n] # 5
  \/ /\ scanState = 1 /\ \E n \in 1..HeadersRead : Types[n] = 5
     /\ AfterIFrame(Types) \cap (1..HeadersRead) = {}

EndFound == scanState = 2 /\ End \in DOMAIN nalus /\ found = CodePosition(End)

ScanInv ==
  /\ TypeOK /\ StreamOK
  /\ found = 0 => CodeScanned /\ TypesScanned
  /\ found # 0 => EndFound

LEMMA NaluIs ==
  ASSUME StreamOK, k \in DOMAIN nalus
  PROVE  /\ nalus[k] \in Seq({0, 1, 5, 9}) /\ Len(nalus[k]) \in Nat
         /\ Code \in {0, 1} /\ Len(nalus[k]) >= 4 + Code
         /\ k \in 1..Len(nalus) /\ Len(nalus) \in Nat
         /\ \A p \in 1..(2 + Code) : nalus[k][p] = 0
         /\ nalus[k][3 + Code] = 1
         /\ \A p \in (Code + 2)..(Len(nalus[k]) - 2) :
              ~(nalus[k][p] = 0 /\ nalus[k][p + 1] = 0 /\ nalus[k][p + 2] = 1)
<1>1. NaluOK(nalus[k]) /\ k \in 1..Len(nalus) /\ Len(nalus) \in Nat
  BY DEF StreamOK
<1>2. Code \in {0, 1} /\ Len(nalus[k]) \in Nat
  BY <1>1, LengthIs DEF Code
<1> QED BY <1>1, <1>2 DEF NaluOK, Code

LEMMA ScanInvInit == Init => ScanInv
<1> SUFFICES ASSUME Init PROVE ScanInv  OBVIOUS
<1>1. nalus \in Videos
  BY DEF Init
<1> DEFINE X == Seq({0, 1, 5, 9})
<1>2. nalus \in Seq(X) /\ nalus # <<>>
  BY <1>1, VideosAssumption
<1>3. /\ Len(nalus) \in Nat \ {0} /\ DOMAIN nalus = 1..Len(nalus)
      /\ \A n \in 1..Len(nalus) : nalus[n] \in X
  <2> HIDE DEF X
  <2> QED BY <1>2
<1>4. StreamOK
  <2>1. ASSUME NEW n \in 1..Len(nalus) PROVE NaluOK(nalus[n])
    <3>1. n \in DOMAIN nalus /\ nalus[n] \in Seq({0, 1, 5, 9})
      BY <1>3
    <3> QED BY <1>1, <3>1, VideosAssumption, Zenon DEF NaluOK
  <2> QED BY <1>3, <2>1 DEF StreamOK
<1>5. k = 1 /\ k \in DOMAIN nalus
  BY <1>3 DEF Init
<1>6. Len(nalus[k]) \in Nat /\ Code \in {0, 1}
  BY <1>4, <1>5, NaluIs
<1>7. TypeOK
  <2> HIDE DEF X
  <2>1. nalus \in Seq(X)
    BY <1>2
  <2> QED BY <1>5, <1>6, <2>1 DEF Init, TypeOK, X
<1>8. CodeScanned /\ TypesScanned
  BY <1>5, <1>6 DEF Init, CodeScanned, TypesScanned, HeadersRead
<1> QED BY <1>4, <1>7, <1>8 DEF ScanInv, Init

-----------------------------------------------------------------------------
(* One byte *)

LEMMA MapNat ==
  ASSUME StreamOK, k \in DOMAIN nalus, i \in Nat
  PROVE  Map \in Nat
<1> DEFINE packet == i \div Room
           l == Len(nalus[k])
           left == PesHeader + (l - packet * Room)
           header == IF left >= Room THEN TsHeader ELSE PacketSize - left
           f == FirstPacket(nalus, k)
<1>1. packet \in Nat /\ i % Room \in Nat
  BY SizesAre, QuotientIsNat
<1>2. l \in Nat
  BY LengthIs DEF StreamOK
<1>3. f \in Nat
  BY FirstPacketIs
<1>4. PesPosition(nalus, k, i) = (f + packet) * PacketSize + header + (i % Room)
  BY DEF PesPosition
<1> HIDE DEF packet, l, f
<1>5. left \in Int
  <2>1. packet * Room \in Nat
    BY <1>1, SizesAre, ProductIsNat
  <2> QED BY <1>2, <2>1, SizesAre
<1> HIDE DEF left
<1>6. header \in Nat
  BY <1>5, SizesAre
<1>7. (f + packet) * PacketSize \in Nat
  BY <1>1, <1>3, SizesAre, ProductIsNat
<1> HIDE DEF header
<1> QED BY <1>1, <1>4, <1>6, <1>7, SizesAre DEF Map

LEMMA SameStream ==
  ASSUME UNCHANGED nalus
  PROVE  /\ StreamOK' = StreamOK /\ Types' = Types /\ End' = End
         /\ \A n, j : ByteAt(n, j)' = ByteAt(n, j)
         /\ \A n : CodePosition(n)' = CodePosition(n)
BY DEF StreamOK, Types, End, ByteAt, Base, FirstPacket, CodePosition,
   PesPosition

LEMMA ScannerIs ==
  ASSUME ScanInv, Scanning
  PROVE  /\ CodeScanned /\ TypesScanned /\ StreamOK
         /\ k \in DOMAIN nalus /\ k \in 1..(Len(nalus) - 1)
         /\ Len(nalus) \in Nat
         /\ i \in 0..(Len(nalus[k]) - 1) /\ Len(nalus[k]) \in Nat
         /\ Code \in {0, 1} /\ found = 0
         /\ pesState \in 0..3 /\ scanState \in 0..2
         /\ pointer \in Nat /\ pointer2 \in Nat
         /\ i < 2 + Code => Byte = 0
         /\ i = 2 + Code => Byte = 1
         /\ Byte = nalus[k][i + 1]
         /\ Map \in Nat
         /\ i \in 0..2 => Map = ByteAt(k, i)
<1>1. /\ k \in DOMAIN nalus /\ i \in 0..Len(nalus[k]) /\ StreamOK
      /\ pesState \in 0..3 /\ scanState \in 0..2
      /\ pointer \in Nat /\ pointer2 \in Nat
  BY DEF ScanInv, TypeOK
<1>2. found = 0 /\ k < Len(nalus) /\ i < Len(nalus[k])
  BY DEF Scanning
<1>3. CodeScanned /\ TypesScanned
  BY <1>2 DEF ScanInv
<1>4. /\ Len(nalus[k]) \in Nat /\ Code \in {0, 1}
      /\ k \in 1..Len(nalus) /\ Len(nalus) \in Nat
      /\ \A p \in 1..(2 + Code) : nalus[k][p] = 0
      /\ nalus[k][3 + Code] = 1
  BY <1>1, NaluIs
<1>5. i \in Nat /\ i + 1 \in Nat
  BY <1>1, <1>4
<1>6. ASSUME i < 2 + Code PROVE Byte = 0
  <2>1. i + 1 \in 1..(2 + Code)
    BY <1>4, <1>5, <1>6
  <2> QED BY <1>4, <2>1 DEF Byte
<1>7. ASSUME i = 2 + Code PROVE Byte = 1
  <2>1. i + 1 = 3 + Code
    BY <1>4, <1>7
  <2> QED BY <1>4, <2>1 DEF Byte
<1>8. Map \in Nat /\ (i \in 0..2 => Map = ByteAt(k, i))
  BY <1>1, <1>5, MapNat, MapIs
<1>9. i \in 0..(Len(nalus[k]) - 1) /\ k \in 1..(Len(nalus) - 1)
  BY <1>1, <1>2, <1>4
<1> QED BY <1>1, <1>2, <1>3, <1>4, <1>6, <1>7, <1>8, <1>9 DEF Byte

(* The second state machine. *)
LEMMA CodeStep ==
  ASSUME ScanInv, Scanning, UNCHANGED <<nalus, k>>, i' = i + 1,
         \/ /\ pesState = 0 /\ pesState' = 1 /\ Byte = 0
            /\ pointer' = Map /\ UNCHANGED pointer2
         \/ /\ pesState = 1 /\ pesState' = 2 /\ Byte = 0
            /\ pointer2' = Map /\ UNCHANGED pointer
         \/ /\ pesState = 2 /\ pesState' = 2 /\ Byte = 0
            /\ pointer' = pointer2 /\ pointer2' = Map
         \/ /\ pesState = 2 /\ pesState' = 3 /\ Byte = 1
            /\ UNCHANGED <<pointer, pointer2>>
         \/ /\ pesState \in {0, 1, 2} /\ pesState' = 0 /\ Byte # 0
            /\ pesState = 2 => Byte # 1
            /\ UNCHANGED <<pointer, pointer2>>
         \/ /\ pesState = 3 /\ pesState' = 0
            /\ UNCHANGED <<pointer, pointer2>>
  PROVE  /\ CodeScanned'
         /\ pointer' \in Nat /\ pointer2' \in Nat /\ pesState' \in 0..3
         /\ (i = 3 + Code) <=> (pesState = 3)
<1> DEFINE A(j) == ByteAt(k, j)
<1>1. /\ CodeScanned
      /\ i \in 0..(Len(nalus[k]) - 1) /\ Len(nalus[k]) \in Nat
      /\ Code \in {0, 1}
      /\ pesState \in 0..3 /\ pointer \in Nat /\ pointer2 \in Nat
      /\ i < 2 + Code => Byte = 0
      /\ i = 2 + Code => Byte = 1
      /\ Map \in Nat
      /\ i \in 0..2 => Map = A(i)
  BY ScannerIs
<1>2. k \in DOMAIN nalus /\ StreamOK /\ Byte = nalus[k][i + 1]
  BY ScannerIs
<1>3. \A j : A(j)' = A(j)
  BY SameStream DEF ByteAt, Base
<1>4. Code' = Code
  BY DEF Code
<1> HIDE DEF A
<1>5. CodeScanned <=>
        /\ i = 0 => pesState \in 0..2
        /\ i = 1 => \/ pesState = 1 /\ pointer = A(0)
                    \/ pesState = 2 /\ pointer2 = A(0)
        /\ i = 2 => pesState = 2 /\ pointer = A(0) /\ pointer2 = A(1)
        /\ i = 3 /\ Code = 1 => pesState = 2 /\ pointer = A(1)
        /\ i = 3 + Code => pesState = 3 /\ pointer = A(Code)
        /\ i >= 4 + Code => /\ pesState \in 0..2
                            /\ pesState # 0 => nalus[k][i] = 0
                            /\ pesState = 2 => nalus[k][i - 1] = 0
  BY DEF CodeScanned, A
<1>6. CodeScanned' <=>
        /\ i' = 0 => pesState' \in 0..2
        /\ i' = 1 => \/ pesState' = 1 /\ pointer' = A(0)
                     \/ pesState' = 2 /\ pointer2' = A(0)
        /\ i' = 2 => pesState' = 2 /\ pointer' = A(0) /\ pointer2' = A(1)
        /\ i' = 3 /\ Code = 1 => pesState' = 2 /\ pointer' = A(1)
        /\ i' = 3 + Code => pesState' = 3 /\ pointer' = A(Code)
        /\ i' >= 4 + Code => /\ pesState' \in 0..2
                             /\ pesState' # 0 => nalus[k][i'] = 0
                             /\ pesState' = 2 => nalus[k][i' - 1] = 0
  <2>1. ByteAt(k, 0)' = A(0) /\ ByteAt(k, 1)' = A(1) /\ ByteAt(k, Code)' = A(Code)
    BY <1>4, SameStream DEF A, ByteAt, Base
  <2> QED BY <1>4, <2>1 DEF CodeScanned
<1>7. pointer' \in Nat /\ pointer2' \in Nat /\ pesState' \in 0..3
  BY <1>1
<1>8. CASE i < 3 + Code
  BY <1>1, <1>5, <1>6, <1>7, <1>8
<1>9. CASE i = 3 + Code
  BY <1>1, <1>5, <1>6, <1>7, <1>9
<1>10. CASE i > 3 + Code
  <2>1. /\ pesState \in 0..2 /\ pesState # 3
        /\ pesState # 0 => nalus[k][i] = 0
        /\ pesState = 2 => nalus[k][i - 1] = 0
    BY <1>1, <1>5, <1>10
  <2>2. ~(pesState = 2 /\ Byte = 1)
    <3>1. i - 1 \in (Code + 2)..(Len(nalus[k]) - 2)
      BY <1>1, <1>10
    <3>2. (i - 1) + 1 = i /\ (i - 1) + 2 = i + 1
      BY <1>1
    <3>3. ~(nalus[k][i - 1] = 0 /\ nalus[k][(i - 1) + 1] = 0
            /\ nalus[k][(i - 1) + 2] = 1)
      BY <1>2, <3>1, NaluIs
    <3> QED BY <1>2, <2>1, <3>2, <3>3
  <2>3. i' - 1 = i /\ i' = i + 1 /\ i' > 4 + Code
    BY <1>1, <1>10
  <2>4. /\ pesState' \in 0..2
        /\ pesState' # 0 => nalus[k][i'] = 0
        /\ pesState' = 2 => nalus[k][i' - 1] = 0
    BY <1>2, <2>1, <2>2, <2>3
  <2>5. CodeScanned'
    BY <1>1, <1>6, <1>10, <2>3, <2>4
  <2> QED BY <1>1, <1>7, <1>10, <2>1, <2>5
<1> QED BY <1>1, <1>8, <1>9, <1>10

(* The first one. *)
LEMMA TypesAre ==
  ASSUME StreamOK
  PROVE  /\ DOMAIN Types = 1..Len(nalus) /\ Len(nalus) \in Nat
         /\ \A n \in 1..Len(nalus) : Types[n] = NaluType(nalus[n])
         /\ \A n \in 1..Len(nalus) :
              n \in AfterIFrame(Types) <=>
                Types[n] # 5 /\ \E j \in 1..(n - 1) : Types[j] = 5
         /\ AfterIFrame(Types) \subseteq 1..Len(nalus)
BY DEF StreamOK, Types, AfterIFrame

LEMMA EndIs ==
  ASSUME StreamOK, NEW n \in AfterIFrame(Types),
         AfterIFrame(Types) \cap (1..(n - 1)) = {}
  PROVE  End = n
<1>1. n \in Nat /\ AfterIFrame(Types) \subseteq 1..Len(nalus) /\ Len(nalus) \in Nat
  BY TypesAre
<1>2. \A m \in AfterIFrame(Types) : n =< m
  BY <1>1
<1>3. \A m \in AfterIFrame(Types) :
        (\A j \in AfterIFrame(Types) : m =< j) => m = n
  BY <1>1, <1>2
<1>4. End = CHOOSE m \in AfterIFrame(Types) :
              \A j \in AfterIFrame(Types) : m =< j
  BY DEF End, IFrameEnd
<1>5. End \in AfterIFrame(Types) /\ \A j \in AfterIFrame(Types) : End =< j
  BY <1>2, <1>4
<1> QED BY <1>3, <1>5

LEMMA TurnKeeps ==
  ASSUME ScanInv, Scanning, UNCHANGED <<nalus, k>>, i' = i + 1,
         CodeScanned', pointer' \in Nat, pointer2' \in Nat,
         pesState' \in 0..3, found' = 0, scanState' \in 0..2, TypesScanned'
  PROVE  ScanInv'
<1>1. k \in DOMAIN nalus /\ i' \in 0..Len(nalus[k])
  BY ScannerIs
<1>2. TypeOK' /\ StreamOK'
  BY <1>1, SameStream DEF ScanInv, TypeOK
<1> QED BY <1>2 DEF ScanInv

(* A byte that is no header of a NALU. *)
LEMMA NoHeaderRead ==
  ASSUME ScanInv, Scanning, UNCHANGED <<nalus, k, scanState>>, i' = i + 1,
         i # 3 + Code
  PROVE  TypesScanned'
<1>1. TypesScanned /\ i \in Nat /\ Code \in {0, 1}
  BY ScannerIs
<1>2. Code' = Code /\ Types' = Types
  BY SameStream DEF Code
<1>3. HeadersRead' = HeadersRead
  BY <1>1, <1>2 DEF HeadersRead
<1> QED BY <1>1, <1>2, <1>3 DEF TypesScanned

LEMMA HeaderRead ==
  ASSUME ScanInv, Scanning, UNCHANGED <<nalus, k>>, i' = i + 1,
         i = 3 + Code
  PROVE  /\ HeadersRead = k - 1 /\ HeadersRead' = k
         /\ Types' = Types /\ Byte = Types[k]
         /\ k \in 1..Len(nalus) /\ Len(nalus) \in Nat
<1>1. /\ i \in Nat /\ Code \in {0, 1} /\ k \in 1..(Len(nalus) - 1)
      /\ Len(nalus) \in Nat /\ StreamOK /\ Byte = nalus[k][i + 1]
  BY ScannerIs
<1>2. Code' = Code /\ Types' = Types
  BY SameStream DEF Code
<1>3. HeadersRead = k - 1 /\ HeadersRead' = k
  BY <1>1, <1>2 DEF HeadersRead
<1>4. Types[k] = NaluType(nalus[k]) /\ k \in 1..Len(nalus)
  BY <1>1, TypesAre
<1>5. NaluType(nalus[k]) = nalus[k][Code + 4] /\ Code + 4 = i + 1
  BY <1>1 DEF NaluType, Code
<1> QED BY <1>1, <1>2, <1>3, <1>4, <1>5

(* A header in front of the first I-frame, or in it. *)
LEMMA HeaderKeeps ==
  ASSUME ScanInv, Scanning, UNCHANGED <<nalus, k>>, i' = i + 1,
         i = 3 + Code,
         \/ scanState = 0 /\ Byte # 5 /\ UNCHANGED scanState
         \/ Byte = 5 /\ scanState' = 1
  PROVE  TypesScanned'
<1>1. /\ HeadersRead = k - 1 /\ HeadersRead' = k
      /\ Types' = Types /\ Byte = Types[k]
      /\ k \in 1..Len(nalus) /\ Len(nalus) \in Nat
  BY HeaderRead
<1>2. TypesScanned /\ StreamOK
  BY ScannerIs
<1>3. /\ \A n \in 1..Len(nalus) :
           n \in AfterIFrame(Types) <=>
             Types[n] # 5 /\ \E j \in 1..(n - 1) : Types[j] = 5
  BY <1>2, TypesAre
<1>4. CASE scanState = 0 /\ Byte # 5 /\ UNCHANGED scanState
  <2>1. \A n \in 1..(k - 1) : Types[n] # 5
    BY <1>1, <1>2, <1>4 DEF TypesScanned
  <2>2. \A n \in 1..k : Types[n] # 5
    BY <1>1, <1>4, <2>1
  <2> QED BY <1>1, <1>4, <2>2 DEF TypesScanned
<1>5. CASE Byte = 5 /\ scanState' = 1
  <2>1. k \in 1..k /\ Types[k] = 5
    BY <1>1, <1>5
  <2>2. ASSUME NEW n \in AfterIFrame(Types), n \in 1..k PROVE FALSE
    <3>1. n \in 1..(k - 1)
      BY <1>1, <1>3, <2>1, <2>2
    <3>2. AfterIFrame(Types) \cap (1..(k - 1)) # {}
      BY <3>1
    <3>3. \A m \in 1..(k - 1) : Types[m] # 5
      BY <1>1, <1>2, <3>2 DEF TypesScanned
    <3>4. PICK j \in 1..(n - 1) : Types[j] = 5
      BY <1>1, <1>3, <3>1
    <3> QED BY <1>1, <3>1, <3>3, <3>4
  <2> QED BY <1>1, <1>5, <2>1, <2>2 DEF TypesScanned
<1> QED BY <1>4, <1>5

(* The header the first I-frame ends at. *)
LEMMA HeaderFinds ==
  ASSUME ScanInv, Scanning, UNCHANGED <<nalus, k>>, i' = i + 1,
         i = 3 + Code, scanState = 1, Byte # 5
  PROVE  End = k /\ pointer = CodePosition(End) /\ pointer # 0
<1>1. /\ HeadersRead = k - 1 /\ Byte = Types[k]
      /\ k \in 1..Len(nalus) /\ Len(nalus) \in Nat
  BY HeaderRead
<1>2. TypesScanned /\ CodeScanned /\ StreamOK /\ k \in DOMAIN nalus
  BY ScannerIs
<1>3. /\ AfterIFrame(Types) \cap (1..(k - 1)) = {}
      /\ \E n \in 1..(k - 1) : Types[n] = 5
  BY <1>1, <1>2 DEF TypesScanned
<1>4. k \in AfterIFrame(Types)
  BY <1>1, <1>2, <1>3, TypesAre
<1>5. End = k
  BY <1>2, <1>3, <1>4, EndIs
<1>6. k > 1
  BY <1>1, <1>3
<1>7. pointer = ByteAt(k, Code)
  BY <1>2 DEF CodeScanned
<1>8. CodePosition(k) = ByteAt(k, Code) /\ CodePosition(k) # 0
  BY <1>2, <1>6, CodePositionIs DEF Code
<1> QED BY <1>5, <1>7, <1>8

\* The first byte of a PES is in front of all that a NALU is read for.
LEMMA AtStart ==
  ASSUME NEW c \in {0, 1}, NEW j, j = 0
  PROVE  /\ j # 1 /\ j # 2 /\ ~(j = 3 /\ c = 1)
         /\ j # 3 + c /\ ~(j >= 4 + c)
<1> QED OBVIOUS

LEMMA ScanInvNext == ScanInv /\ [Next]_vars => ScanInv'
<1> SUFFICES ASSUME ScanInv, [Next]_vars PROVE ScanInv'  OBVIOUS
<1>1. CASE FirstZero \/ SecondZero \/ MoreZero \/ One \/ NoCode
  <2>1. /\ Scanning /\ UNCHANGED <<nalus, k, scanState, found>> /\ i' = i + 1
        /\ pesState # 3
    BY <1>1 DEF FirstZero, SecondZero, MoreZero, One, NoCode, Turn
  <2>2. /\ CodeScanned' /\ pointer' \in Nat /\ pointer2' \in Nat
        /\ pesState' \in 0..3 /\ i # 3 + Code
    BY <1>1, <2>1, CodeStep
       DEF FirstZero, SecondZero, MoreZero, One, NoCode, Turn
  <2>3. TypesScanned'
    BY <2>1, <2>2, NoHeaderRead
  <2>4. found' = 0 /\ scanState' \in 0..2
    BY <2>1, ScannerIs
  <2> QED BY <2>1, <2>2, <2>3, <2>4, TurnKeeps
<1>2. CASE BeforeIdr \/ Idr
  <2>1. /\ Scanning /\ UNCHANGED <<nalus, k, found, pointer, pointer2>>
        /\ i' = i + 1 /\ pesState = 3 /\ pesState' = 0
        /\ \/ scanState = 0 /\ Byte # 5 /\ UNCHANGED scanState
           \/ Byte = 5 /\ scanState' = 1
    BY <1>2 DEF BeforeIdr, Idr, Turn
  <2>2. /\ CodeScanned' /\ pointer' \in Nat /\ pointer2' \in Nat
        /\ pesState' \in 0..3 /\ i = 3 + Code
    BY <2>1, CodeStep
  <2>3. TypesScanned'
    BY <2>1, <2>2, HeaderKeeps
  <2>4. found' = 0 /\ scanState' \in 0..2
    BY <2>1, ScannerIs
  <2> QED BY <2>1, <2>2, <2>3, <2>4, TurnKeeps
<1>3. CASE AfterIdr
  <2>1. /\ Scanning /\ UNCHANGED <<nalus, k, pointer, pointer2>>
        /\ i' = i + 1 /\ pesState = 3 /\ pesState' = 0
        /\ scanState = 1 /\ Byte # 5 /\ scanState' = 2 /\ found' = pointer
    BY <1>3 DEF AfterIdr, Turn
  <2>2. pointer' \in Nat /\ pointer2' \in Nat /\ i = 3 + Code
    BY <2>1, CodeStep
  <2>3. End = k /\ pointer = CodePosition(End) /\ pointer # 0
    BY <2>1, <2>2, HeaderFinds
  <2>4. k \in DOMAIN nalus /\ i' \in 0..Len(nalus[k]) /\ StreamOK
    BY <2>1, ScannerIs
  <2>5. TypeOK' /\ StreamOK'
    BY <2>1, <2>2, <2>4, SameStream DEF ScanInv, TypeOK
  <2>6. EndFound'
    BY <2>1, <2>3, <2>4, SameStream DEF EndFound
  <2> QED BY <2>1, <2>3, <2>5, <2>6 DEF ScanInv
<1>4. CASE NextPes
  <2>1. /\ k < Len(nalus) /\ (i = Len(nalus[k]) \/ found # 0)
        /\ k' = k + 1 /\ i' = 0
        /\ UNCHANGED <<nalus, scanState, pesState, pointer, pointer2, found>>
    BY <1>4 DEF NextPes
  <2>2. TypeOK /\ StreamOK /\ k \in 1..Len(nalus) /\ Len(nalus) \in Nat
        /\ DOMAIN nalus = 1..Len(nalus)
    BY DEF ScanInv, TypeOK, StreamOK
  <2>3. k' \in DOMAIN nalus /\ Len(nalus[k']) \in Nat
    BY <2>1, <2>2, LengthIs DEF StreamOK
  <2>4. TypeOK' /\ StreamOK'
    BY <2>1, <2>2, <2>3, SameStream DEF TypeOK
  <2>5. CASE found = 0
    <3>1. CodeScanned /\ TypesScanned /\ i = Len(nalus[k])
      BY <2>1, <2>5 DEF ScanInv
    <3>2. Len(nalus[k]) >= 4 + Code /\ Len(nalus[k]) \in Nat /\ Code \in {0, 1}
      BY <2>2, NaluIs
    <3>3. Code' \in {0, 1}
      BY DEF Code, CodeAt
    <3>4. HeadersRead = k /\ HeadersRead' = k
      <4>1. HeadersRead = IF i >= 4 + Code THEN k ELSE k - 1
        BY DEF HeadersRead
      <4>2. HeadersRead' = IF i' >= 4 + Code' THEN k' ELSE k' - 1
        BY DEF HeadersRead
      <4>3. i >= 4 + Code
        BY <3>1, <3>2
      <4>5. ~(i' >= 4 + Code')
        BY <2>1, <3>3, AtStart, Zenon
      <4>4. k' - 1 = k
        BY <2>1, <2>2
      <4> QED BY <4>1, <4>2, <4>3, <4>4, <4>5
    <3>5. Types' = Types
      BY <2>1, SameStream
    <3>6. TypesScanned'
      BY <2>1, <3>1, <3>4, <3>5 DEF TypesScanned
    <3>7. CodeScanned'
      <4>1. pesState \in 0..2
        BY <3>1, <3>2 DEF CodeScanned
      <4>2. /\ i' # 1 /\ i' # 2 /\ ~(i' = 3 /\ Code' = 1)
            /\ i' # 3 + Code' /\ ~(i' >= 4 + Code')
        BY <2>1, <3>3, AtStart, Zenon
      <4>3. pesState' \in 0..2
        BY <2>1, <4>1
      <4> QED BY <4>2, <4>3 DEF CodeScanned
    <3> QED BY <2>1, <2>4, <2>5, <3>6, <3>7 DEF ScanInv
  <2>6. CASE found # 0
    <3>1. EndFound'
      BY <2>1, <2>6, SameStream DEF ScanInv, EndFound
    <3> QED BY <2>1, <2>4, <2>6, <3>1 DEF ScanInv
  <2> QED BY <2>5, <2>6
<1>5. CASE UNCHANGED vars
  <2>1. UNCHANGED <<nalus, k, i, scanState, pesState, pointer, pointer2, found>>
    BY <1>5 DEF vars
  <2>2. TypeOK' /\ StreamOK'
    BY <2>1, SameStream DEF ScanInv, TypeOK
  <2>3. CodeScanned' = CodeScanned /\ TypesScanned' = TypesScanned
        /\ EndFound' = EndFound
    BY <2>1, SameStream
       DEF CodeScanned, TypesScanned, EndFound, HeadersRead, Code, ByteAt, Base,
           FirstPacket, CodePosition, PesPosition, Types, End
  <2> QED BY <2>1, <2>2, <2>3 DEF ScanInv
<1> QED BY <1>1, <1>2, <1>3, <1>4, <1>5 DEF Next

LEMMA ScanInvHolds == Spec => []ScanInv
<1> QED BY ScanInvInit, ScanInvNext, PTL DEF Spec

-----------------------------------------------------------------------------
(* What the run checks *)

(* The scanner stays inside the stream and in its states. *)
THEOREM ScannerTypes == Spec => []TypeOK
<1>1. ScanInv => TypeOK
  BY DEF ScanInv
<1> QED BY <1>1, ScanInvHolds, PTL

(* The result is the start of the NALU behind the first I-frame, whatever
   zeros are in front of its start code and however the bytes are cut into
   PES packets, and it is there once that NALU was read (FindIDRTask::pes). *)
THEOREM IFrameEndFound == Spec => []FindsIFrameEnd
<1>1. ScanInv => FindsIFrameEnd
  <2> SUFFICES ASSUME ScanInv PROVE FindsIFrameEnd  OBVIOUS
  <2>1. StreamOK /\ TypeOK /\ k \in DOMAIN nalus
    BY DEF ScanInv, TypeOK
  <2>2. ASSUME found # 0 PROVE End # 0 /\ found = CodePosition(End)
    BY <2>1, <2>2 DEF ScanInv, EndFound, StreamOK
  <2>3. ASSUME k = Len(nalus), End \in 1..(Len(nalus) - 1), found = 0
        PROVE  FALSE
    <3>1. TypesScanned /\ HeadersRead \in {k - 1, k} /\ Len(nalus) \in Nat
      BY <2>1, <2>3 DEF ScanInv, HeadersRead, StreamOK
    <3>2. AfterIFrame(Types) \subseteq 1..Len(nalus)
      BY <2>1, TypesAre
    <3>3. AfterIFrame(Types) # {}
      BY <2>3, <3>1 DEF End, IFrameEnd
    <3>4. PICK e \in AfterIFrame(Types) : \A n \in AfterIFrame(Types) : e =< n
      BY <3>2, <3>3, LeastElement
    <3>5. End = e
      <4>1. e \in Nat
        BY <3>2
      <4>2. AfterIFrame(Types) \cap (1..(e - 1)) = {}
        BY <3>2, <3>4
      <4> QED BY <2>1, <4>2, EndIs
    <3>6. e \in 1..HeadersRead
      BY <2>3, <3>1, <3>5
    <3>7. PICK j \in 1..(e - 1) : Types[j] = 5
      BY <2>1, <3>2, TypesAre
    <3>8. j \in 1..HeadersRead
      BY <3>1, <3>6, <3>7
    <3> QED BY <3>1, <3>6, <3>7, <3>8 DEF TypesScanned
  <2> QED BY <2>2, <2>3 DEF FindsIFrameEnd
<1> QED BY <1>1, ScanInvHolds, PTL

(* The packet the result is in is the one that NALU starts in, so that what
   writeOutputFile() puts in front is the I-frame and nothing behind it. *)
THEOREM CutAtPacket == Spec => []CutsAtPacket
<1>1. ScanInv => CutsAtPacket
  BY CodePositionIs DEF ScanInv, EndFound, CutsAtPacket
<1> QED BY <1>1, ScanInvHolds, PTL
=============================================================================
