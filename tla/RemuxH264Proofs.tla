-------------------------- MODULE RemuxH264Proofs ---------------------------
(***************************************************************************)
(* Theorems about RemuxH264 for every stream, every way it is cut into PES *)
(* and transport packets and any number of them.                           *)
(*                                                                         *)
(* TypeOK and NoByteLost are proved together, from an invariant of two     *)
(* parts: the units tile the stream from 0 to the start of the buffer, and *)
(* the ranges that follow them meet.  It adds that the buffer is not empty *)
(* once anything was inserted: deliverAll() would otherwise deliver an     *)
(* empty unit.                                                             *)
(*                                                                         *)
(* That the task implements NaluSplit needs one part more, AtNalu: the     *)
(* buffer starts at a start code and, outside the loops, holds no other.   *)
(***************************************************************************)
EXTENDS RemuxH264, TLAPS

UnitType == [from: Nat, to: Nat, pts: Stamps \cup {NoPts}]
PesType == [open: BOOLEAN, from: Nat, to: Nat, pts: Stamps \cup {NoPts}]

\* The units us are not empty and cover the bytes before end without a gap.
Tiled(us, end) ==
  /\ us \in Seq(UnitType)
  /\ \A i \in 1..Len(us) : us[i].to > us[i].from
  /\ \A i \in 1..Len(us) : us[i].from = IF i = 1 THEN 0 ELSE us[i - 1].to
  /\ end = IF us = <<>> THEN 0 ELSE us[Len(us)].to

\* The ranges behind the units.
Joined ==
  /\ es \in Streams
  /\ pos \in Nat /\ pos =< Len(es)
  /\ pes \in PesType /\ pes.from =< pes.to /\ pes.to = pos
  /\ buffer \in [from: Nat, to: Nat] /\ buffer.from =< buffer.to
  /\ buffer.to = IF pc \in {"drainAligned", "begin"} THEN pes.to ELSE pes.from
  /\ pts \in Stamps \cup {NoPts}
  /\ pc \in {"scan", "begin", "drain", "drainAligned", "drainLast", "consume",
             "flush", "done"}
  /\ ~pes.open => pos = 0 /\ pc = "scan"
  /\ buffer.to > 0 /\ pc # "done" => buffer.from < buffer.to

Inv == Joined /\ Tiled(units, buffer.from)

LEMMA InvImplies == Inv => TypeOK /\ NoByteLost
<1> SUFFICES ASSUME Inv PROVE TypeOK /\ NoByteLost  OBVIOUS
<1>1. Len(es) \in Nat  BY StreamAssumption DEF Inv, Joined
<1>2. TypeOK
  BY <1>1 DEF Inv, Joined, Tiled, TypeOK, UnitType, PesType
<1>3. NoByteLost
  BY DEF Inv, Joined, Tiled, NoByteLost
<1> QED  BY <1>2, <1>3

\* The positions deliverComplete() can find lie inside the buffer.
LEMMA SecondInside ==
  ASSUME NEW b \in [from: Nat, to: Nat], NEW p \in Second(b)
  PROVE  p \in Nat /\ b.from < p /\ p < b.to
BY DEF Second

\* A unit cut off the buffer at p extends the tiling to p.
LEMMA Delivered ==
  ASSUME Inv, NEW p \in Nat, buffer.from < p
  PROVE  Tiled(Append(units, Unit(buffer.from, p)), p)
<1> DEFINE u == Unit(buffer.from, p)
           new == Append(units, u)
<1>1. /\ units \in Seq(UnitType) /\ Len(units) \in Nat
      /\ buffer.from \in Nat /\ pts \in Stamps \cup {NoPts}
  BY DEF Inv, Joined, Tiled
<1>2. u \in UnitType /\ u.from = buffer.from /\ u.to = p
  BY <1>1 DEF Unit, UnitType
<1> HIDE DEF u
<1>3. /\ new \in Seq(UnitType) /\ Len(new) = Len(units) + 1
      /\ new[Len(units) + 1] = u
      /\ \A i \in 1..Len(units) : new[i] = units[i]
  BY <1>1, <1>2
<1> HIDE DEF new
<1>4. \A i \in 1..Len(new) : new[i].to > new[i].from
  BY <1>1, <1>2, <1>3 DEF Inv, Tiled
<1>5. ASSUME NEW i \in 1..Len(new)
      PROVE  new[i].from = IF i = 1 THEN 0 ELSE new[i - 1].to
  <2>1. CASE i =< Len(units)
    BY <1>1, <1>3, <2>1, SMTT(30) DEF Inv, Tiled
  <2>2. CASE i = Len(units) + 1
    <3>1. new[i].from = buffer.from  BY <1>2, <1>3, <2>2
    <3>2. CASE Len(units) = 0
      BY <1>1, <2>2, <3>1, <3>2 DEF Inv, Tiled
    <3>3. CASE Len(units) > 0
      <4>1. units # <<>> /\ i - 1 = Len(units) /\ i # 1
        BY <1>1, <2>2, <3>3
      <4>2. buffer.from = units[Len(units)].to
        BY <4>1 DEF Inv, Tiled
      <4> QED  BY <1>1, <1>3, <3>1, <3>3, <4>1, <4>2
    <3> QED  BY <1>1, <3>2, <3>3
  <2> QED  BY <1>1, <1>3, <2>1, <2>2
<1>6. new # <<>> /\ new[Len(new)].to = p
  BY <1>1, <1>2, <1>3
<1>7. Tiled(new, p)
  BY <1>3, <1>4, <1>5, <1>6 DEF Tiled
<1> QED  BY <1>7 DEF new, u

\* deliverAll() delivers what is in the buffer, if anything was inserted.
LEMMA AllDelivered ==
  ASSUME Inv, pc # "done" PROVE Tiled(UnitsAfterAll, buffer.to)
<1>1. buffer.to \in Nat /\ buffer.from \in Nat  BY DEF Inv, Joined
<1>2. CASE buffer.to > 0
  <2>1. buffer.from < buffer.to  BY <1>2 DEF Inv, Joined
  <2>2. UnitsAfterAll = Append(units, Unit(buffer.from, buffer.to))
    BY <1>2 DEF UnitsAfterAll
  <2> QED  BY <1>1, <2>1, <2>2, Delivered
<1>3. CASE buffer.to = 0
  <2>1. UnitsAfterAll = units  BY <1>3 DEF UnitsAfterAll
  <2>2. buffer.from = buffer.to  BY <1>1, <1>3 DEF Inv, Joined
  <2> QED  BY <2>1, <2>2 DEF Inv
<1> QED  BY <1>1, <1>2, <1>3

-----------------------------------------------------------------------------
LEMMA InvInit == Init => Inv
<1> SUFFICES ASSUME Init PROVE Inv  OBVIOUS
<1>1. es \in Streams /\ Len(es) \in Nat  BY StreamAssumption DEF Init
<1>2. Joined  BY <1>1 DEF Init, Joined, Span, PesType
<1>3. Tiled(units, buffer.from)  BY DEF Init, Tiled, Span
<1> QED  BY <1>2, <1>3 DEF Inv

LEMMA InvNext == Inv /\ [Next]_vars => Inv'
<1> SUFFICES ASSUME Inv, [Next]_vars PROVE Inv'  OBVIOUS
<1>1. Joined /\ Len(es) \in Nat /\ Len(es) >= 4
  BY StreamAssumption DEF Inv, Joined
<1>2. Tiled(units, buffer.from)  BY DEF Inv
<1>3. CASE Gather
  <2>1. Joined'  BY <1>1, <1>3 DEF Gather, Joined, PesType
  <2> QED  BY <1>2, <1>3, <2>1 DEF Gather, Inv, Tiled
<1>4. CASE Complete
  <2>1. Joined'  BY <1>1, <1>4 DEF Complete, Joined
  <2> QED  BY <1>2, <1>4, <2>1 DEF Complete, Inv, Tiled
<1>5. CASE EndOfScan
  <2>1. Joined'  BY <1>1, <1>5 DEF EndOfScan, Joined
  <2> QED  BY <1>2, <1>5, <2>1 DEF EndOfScan, Inv, Tiled
<1>6. ASSUME NEW stamp \in Stamps \cup {NoPts}, Begin(stamp) PROVE Inv'
  <2>1. Joined'  BY <1>1, <1>6 DEF Begin, Joined, PesType
  <2> QED  BY <1>2, <1>6, <2>1 DEF Begin, Inv, Tiled
<1>7. CASE Drain
  <2>1. PICK p \in Second(buffer) :
          /\ units' = Append(units, Unit(buffer.from, p))
          /\ buffer' = [from |-> p, to |-> buffer.to]
    BY <1>7 DEF Drain, Span
  <2>2. p \in Nat /\ buffer.from < p /\ p < buffer.to
    BY <1>1, <2>1, SecondInside DEF Joined
  <2>3. Tiled(units', buffer'.from)
    BY <2>1, <2>2, Delivered
  <2>4. Joined'  BY <1>1, <1>7, <2>1, <2>2 DEF Drain, Joined
  <2> QED  BY <2>3, <2>4 DEF Inv, Tiled
<1>8. CASE DrainEnd
  <2>1. Joined'  BY <1>1, <1>8 DEF DrainEnd, Joined
  <2> QED  BY <1>2, <1>8, <2>1 DEF DrainEnd, Inv, Tiled
<1>9. CASE ConsumeAligned
  <2>1. /\ pc = "consume" /\ units' = UnitsAfterAll
        /\ buffer' = [from |-> pes.from, to |-> pes.to]
        /\ pc' = "drainAligned" /\ UNCHANGED <<es, pos, heads, pes>>
        /\ pts' \in Stamps \cup {NoPts}
    BY <1>1, <1>9 DEF ConsumeAligned, Span, NewPts, Joined, PesType
  <2>2. buffer.to = pes.from  BY <1>1, <2>1 DEF Joined
  <2>3. Tiled(units', buffer'.from)
    BY <2>1, <2>2, AllDelivered
  <2>4. pes.from < pes.to
    BY <1>1, <1>9 DEF ConsumeAligned, CheckHeader, Joined, PesType
  <2>5. Joined'  BY <1>1, <2>1, <2>4 DEF Joined, PesType
  <2> QED  BY <2>3, <2>5 DEF Inv, Tiled
<1>10. CASE ConsumeUnaligned
  <2> DEFINE grown == [from |-> buffer.from, to |-> pes.to]
  <2>1. /\ pc = "consume" /\ pc' = "begin"
        /\ UNCHANGED <<es, pos, heads, pes>>
        /\ buffer.to = pes.from
        /\ grown \in [from: Nat, to: Nat]
    BY <1>1, <1>10 DEF ConsumeUnaligned, Joined, PesType
  <2>2. ASSUME NEW p \in Second(grown),
               units' = Append(units, Unit(buffer.from, p)),
               buffer' = [from |-> p, to |-> pes.to],
               pts' = NewPts
        PROVE  Inv'
    <3>1. p \in Nat /\ buffer.from < p /\ p < pes.to
      BY <2>1, SecondInside
    <3>2. Tiled(units', buffer'.from)
      BY <2>2, <3>1, Delivered
    <3>3. pts' \in Stamps \cup {NoPts}
      BY <1>1, <2>2 DEF NewPts, Joined, PesType
    <3>4. Joined'
      BY <1>1, <2>1, <2>2, <3>1, <3>3 DEF Joined, PesType
    <3> QED  BY <3>2, <3>4 DEF Inv, Tiled
  <2>3. CASE buffer' = grown /\ UNCHANGED <<units, pts>>
    <3>1. Joined'  BY <1>1, <2>1, <2>3 DEF Joined, PesType
    <3> QED  BY <1>2, <2>3, <3>1 DEF Inv, Tiled
  <2> QED  BY <1>10, <2>2, <2>3 DEF ConsumeUnaligned, Span
<1>11. CASE Flush
  <2>1. /\ pc = "flush" /\ units' = UnitsAfterAll
        /\ buffer' = [from |-> buffer.to, to |-> buffer.to]
        /\ pc' = "done" /\ UNCHANGED <<es, pos, heads, pes, pts>>
    BY <1>11 DEF Flush, Span
  <2>2. Tiled(units', buffer'.from)
    BY <2>1, AllDelivered
  <2>3. Joined'  BY <1>1, <2>1 DEF Joined, PesType
  <2> QED  BY <2>2, <2>3 DEF Inv, Tiled
<1>12. CASE UNCHANGED vars
  <2>1. Joined'  BY <1>1, <1>12 DEF vars, Joined
  <2> QED  BY <1>2, <1>12, <2>1 DEF vars, Inv, Tiled
<1> QED  BY <1>3, <1>4, <1>5, <1>6, <1>7, <1>8, <1>9, <1>10, <1>11, <1>12
         DEF Next

-----------------------------------------------------------------------------
\* The types hold in every reachable state, and no unit is ever empty.
THEOREM TypeCorrect == Spec => []TypeOK
<1> QED  BY InvInit, InvNext, InvImplies, PTL DEF Spec

\* Units, buffer and pending PES always partition the bytes read.
THEOREM NothingLostOrDoubled == Spec => []NoByteLost
<1> QED  BY InvInit, InvNext, InvImplies, PTL DEF Spec

-----------------------------------------------------------------------------
(* The refinement of NaluSplit *)

\* The NALUs of NaluSplit that the units stand for.
Spans(us) == [i \in 1..Len(us) |-> Span(us[i].from, us[i].to)]

LEMMA SpansSeq ==
  ASSUME NEW us \in Seq(UnitType)
  PROVE  /\ Spans(us) \in Seq([from: Nat, to: Nat])
         /\ Len(Spans(us)) = Len(us)
         /\ \A i \in 1..Len(us) : Spans(us)[i] = [from |-> us[i].from, to |-> us[i].to]
         /\ Spans(us) = <<>> <=> us = <<>>
<1>1. /\ Len(us) \in Nat
      /\ \A i \in 1..Len(us) : us[i].from \in Nat /\ us[i].to \in Nat
  <2>1. \A i \in 1..Len(us) : us[i] \in UnitType  OBVIOUS
  <2> QED  BY <2>1 DEF UnitType
<1>2. Spans(us) \in Seq([from: Nat, to: Nat])
  BY <1>1 DEF Spans, Span
<1>3. Len(Spans(us)) = Len(us)
  BY <1>1 DEF Spans
<1>4. \A i \in 1..Len(us) :
        Spans(us)[i] = [from |-> us[i].from, to |-> us[i].to]
  BY DEF Spans, Span
<1>5. Spans(us) = <<>> <=> us = <<>>
  BY <1>1, <1>2, <1>3
<1> QED  BY <1>2, <1>3, <1>4, <1>5

LEMMA SpansAppend ==
  ASSUME NEW us \in Seq(UnitType), NEW u \in UnitType
  PROVE  Spans(Append(us, u)) = Append(Spans(us), [from |-> u.from, to |-> u.to])
<1> DEFINE new == Append(us, u)
           a == Spans(new)
           b == Append(Spans(us), [from |-> u.from, to |-> u.to])
<1>1. /\ new \in Seq(UnitType) /\ Len(new) = Len(us) + 1 /\ Len(us) \in Nat
      /\ new[Len(us) + 1] = u /\ \A i \in 1..Len(us) : new[i] = us[i]
  OBVIOUS
<1>2. u.from \in Nat /\ u.to \in Nat  BY DEF UnitType
<1>3. /\ a \in Seq([from: Nat, to: Nat]) /\ Len(a) = Len(us) + 1
      /\ \A i \in 1..Len(new) : a[i] = [from |-> new[i].from, to |-> new[i].to]
  BY <1>1, SpansSeq
<1>4. /\ Spans(us) \in Seq([from: Nat, to: Nat])
      /\ Len(Spans(us)) = Len(us)
      /\ \A i \in 1..Len(us) : Spans(us)[i] = [from |-> us[i].from, to |-> us[i].to]
  BY SpansSeq
<1>5. /\ b \in Seq([from: Nat, to: Nat]) /\ Len(b) = Len(us) + 1
      /\ b[Len(us) + 1] = [from |-> u.from, to |-> u.to]
      /\ \A i \in 1..Len(us) : b[i] = Spans(us)[i]
  BY <1>2, <1>4
<1>6. ASSUME NEW i \in 1..(Len(us) + 1) PROVE a[i] = b[i]
  <2> HIDE DEF new, a, b
  <2>1. CASE i \in 1..Len(us)
    <3>1. i \in 1..Len(new) /\ new[i] = us[i]  BY <1>1, <2>1
    <3> QED  BY <1>3, <1>4, <1>5, <2>1, <3>1, Zenon
  <2>2. CASE i = Len(us) + 1
    <3>1. i \in 1..Len(new)  BY <1>1
    <3> QED  BY <1>1, <1>3, <1>5, <2>2, <3>1, Zenon
  <2> QED  BY <1>1, <2>1, <2>2
<1> HIDE DEF a, b
<1>7. a = b  BY <1>1, <1>3, <1>5, <1>6
<1> QED  BY <1>7 DEF a, b

\* The buffer starts where a NALU starts, and before it is delivered whole no
\* second NALU is left in it.
AtNalu ==
  /\ pc # "done" => Nalus!Boundary(buffer.from)
  /\ pc \in {"consume", "flush"} => OneLeft(buffer)

\* A start code found by checkHeader() is a boundary, and the other way round
\* for one that is not cut by the end of the buffer.
LEMMA HeaderIsBoundary ==
  ASSUME es \in Seq(0..2), NEW p \in Nat, NEW end \in Nat, end =< Len(es)
  PROVE  /\ CheckHeader(p, end) => Nalus!Boundary(p)
         /\ Nalus!StartCode(p) /\ p + 3 =< end => CheckHeader(p, end)
<1>1. Len(es) \in Nat  OBVIOUS
<1>2. ASSUME Zeros(p, 2) PROVE es[p + 1] = 0 /\ es[p + 2] = 0
  <2>1. p \in p..(p + 2 - 1) /\ p + 1 \in p..(p + 2 - 1)  OBVIOUS
  <2>2. es[p + 1] = 0 /\ es[(p + 1) + 1] = 0  BY <1>2, <2>1 DEF Zeros
  <2> QED  BY <2>2
<1>3. ASSUME Zeros(p, 3)
      PROVE  es[p + 1] = 0 /\ es[p + 2] = 0 /\ es[p + 3] = 0
  <2>1. /\ p \in p..(p + 3 - 1) /\ p + 1 \in p..(p + 3 - 1)
        /\ p + 2 \in p..(p + 3 - 1)
    OBVIOUS
  <2>2. es[p + 1] = 0 /\ es[(p + 1) + 1] = 0 /\ es[(p + 2) + 1] = 0
    BY <1>3, <2>1 DEF Zeros
  <2> QED  BY <2>2
<1>4. ASSUME CheckHeader(p, end) PROVE Nalus!Boundary(p)
  BY <1>1, <1>2, <1>3, <1>4 DEF CheckHeader, Nalus!Boundary, Nalus!StartCode
<1>5. ASSUME Nalus!StartCode(p), p + 3 =< end PROVE CheckHeader(p, end)
  <2>1. Zeros(p, 2)  BY <1>5 DEF Nalus!StartCode, Zeros
  <2> QED  BY <1>5, <2>1 DEF CheckHeader, Nalus!StartCode
<1> QED  BY <1>4, <1>5

\* Between a boundary and the NALU deliverComplete() finds behind it there is
\* no start code but the one at the boundary.
LEMMA OneStartCode ==
  ASSUME es \in Seq(0..2),
         NEW b \in [from: Nat, to: Nat], b.to =< Len(es),
         Nalus!Boundary(b.from),
         NEW to \in Nat, to =< b.to,
         \A q \in (b.from + 3)..(to - 3) : ~CheckHeader(q, b.to)
  PROVE  \A p \in (b.from + 2)..(to - 3) : ~Nalus!StartCode(p)
<1> SUFFICES ASSUME NEW p \in (b.from + 2)..(to - 3), Nalus!StartCode(p)
             PROVE  FALSE
  OBVIOUS
<1>1. b.from \in Nat /\ b.to \in Nat /\ p \in Nat /\ Len(es) \in Nat
  OBVIOUS
<1>2. CASE p >= b.from + 3
  <2>1. CheckHeader(p, b.to)  BY <1>1, HeaderIsBoundary
  <2> QED  BY <1>1, <1>2, <2>1
<1>3. CASE p = b.from + 2
  <2>1. es[b.from + 3] = 0 /\ es[b.from + 4] = 0
    <3>1. es[p + 1] = 0 /\ es[p + 2] = 0  BY DEF Nalus!StartCode
    <3> QED  BY <1>1, <1>3, <3>1
  <2>2. es[b.from + 3] = 1 \/ es[b.from + 4] = 1
    <3>1. CASE Nalus!StartCode(b.from)
      BY <3>1 DEF Nalus!StartCode
    <3>2. CASE Nalus!StartCode(b.from + 1)
      <4>1. es[b.from + 1 + 3] = 1  BY <3>2 DEF Nalus!StartCode
      <4> QED  BY <1>1, <4>1
    <3> QED  BY <3>1, <3>2 DEF Nalus!Boundary
  <2> QED  BY <2>1, <2>2
<1> QED  BY <1>1, <1>2, <1>3

-----------------------------------------------------------------------------
LEMMA AtNaluInit == Init => AtNalu
<1> SUFFICES ASSUME Init PROVE AtNalu  OBVIOUS
<1>1. /\ es \in Seq(0..2) /\ Len(es) >= 4 /\ es[1] = 0 /\ es[2] = 0
      /\ es[3] = 1 \/ (es[3] = 0 /\ es[4] = 1)
  BY StreamAssumption DEF Init
<1>2. Nalus!Boundary(0)
  BY <1>1 DEF Nalus!Boundary, Nalus!StartCode
<1> QED  BY <1>2 DEF AtNalu, Init, Span

LEMMA AtNaluNext == Inv /\ AtNalu /\ [Next]_vars => AtNalu'
<1> SUFFICES ASSUME Inv, AtNalu, [Next]_vars PROVE AtNalu'  OBVIOUS
<1>1. Joined /\ es \in Seq(0..2) /\ Len(es) \in Nat
  BY StreamAssumption DEF Inv, Joined
<1>2. es' = es
  BY DEF Next, vars, Gather, Complete, EndOfScan, Begin, Drain, DrainEnd,
         ConsumeAligned, ConsumeUnaligned, Flush
<1>3. ASSUME NEW p \in Nat, NEW end \in Nat, end =< Len(es),
             CheckHeader(p, end), buffer'.from = p,
             pc' \notin {"consume", "flush"}
      PROVE  AtNalu'
  <2>1. Nalus!Boundary(p)  BY <1>1, <1>3, HeaderIsBoundary
  <2>2. Nalus!Boundary(buffer.from)'
    BY <1>2, <1>3, <2>1 DEF Nalus!Boundary, Nalus!StartCode
  <2> QED  BY <1>3, <2>2 DEF AtNalu
<1>4. ASSUME buffer'.from = buffer.from, pc # "done",
             pc' \notin {"consume", "flush"}
      PROVE  AtNalu'
  <2>1. Nalus!Boundary(buffer.from)'
    BY <1>2, <1>4 DEF AtNalu, Nalus!Boundary, Nalus!StartCode
  <2> QED  BY <1>4, <2>1 DEF AtNalu
<1>5. CASE Gather  BY <1>4, <1>5 DEF Gather
<1>6. CASE Complete  BY <1>4, <1>6 DEF Complete
<1>7. CASE EndOfScan  BY <1>4, <1>7 DEF EndOfScan
<1>8. ASSUME NEW stamp \in Stamps \cup {NoPts}, Begin(stamp) PROVE AtNalu'
  BY <1>4, <1>8 DEF Begin
<1>9. CASE Drain
  <2>1. PICK p \in Second(buffer) : buffer' = [from |-> p, to |-> buffer.to]
    BY <1>9 DEF Drain, Span
  <2>2. p \in Nat /\ CheckHeader(p, buffer.to)
        /\ buffer.to \in Nat /\ buffer.to =< Len(es)
    BY <1>1, <2>1 DEF Second, Joined, PesType
  <2> QED  BY <1>3, <1>9, <2>1, <2>2 DEF Drain
<1>10. CASE DrainEnd
  <2>1. OneLeft(buffer)'
    BY <1>10 DEF DrainEnd, OneLeft, CheckHeader, Zeros
  <2>2. pc # "done" /\ buffer' = buffer  BY <1>10 DEF DrainEnd
  <2>3. Nalus!Boundary(buffer.from)'
    BY <1>2, <2>2 DEF AtNalu, Nalus!Boundary, Nalus!StartCode
  <2> QED  BY <2>1, <2>3 DEF AtNalu
<1>11. CASE ConsumeAligned
  <2>1. /\ CheckHeader(pes.from, pes.to) /\ buffer'.from = pes.from
        /\ pc' = "drainAligned"
        /\ pes.from \in Nat /\ pes.to \in Nat /\ pes.to =< Len(es)
    BY <1>1, <1>11 DEF ConsumeAligned, Span, Joined, PesType
  <2> QED  BY <1>3, <2>1
<1>12. CASE ConsumeUnaligned
  <2> DEFINE grown == [from |-> buffer.from, to |-> pes.to]
  <2>1. pc = "consume" /\ pc' = "begin" /\ grown \in [from: Nat, to: Nat]
        /\ pes.to \in Nat /\ pes.to =< Len(es)
    BY <1>1, <1>12 DEF ConsumeUnaligned, Joined, PesType
  <2>2. ASSUME NEW p \in Second(grown), buffer' = [from |-> p, to |-> pes.to]
        PROVE  AtNalu'
    <3>1. p \in Nat /\ CheckHeader(p, pes.to)  BY <2>1 DEF Second
    <3> QED  BY <1>3, <2>1, <2>2, <3>1
  <2>3. CASE buffer' = grown  BY <1>4, <2>1, <2>3
  <2> QED  BY <1>12, <2>2, <2>3 DEF ConsumeUnaligned, Span
<1>13. CASE Flush  BY <1>13 DEF Flush, AtNalu
<1>14. CASE UNCHANGED vars
  BY <1>14 DEF vars, AtNalu, OneLeft, CheckHeader, Zeros, Nalus!Boundary,
               Nalus!StartCode
<1> QED  BY <1>5, <1>6, <1>7, <1>8, <1>9, <1>10, <1>11, <1>12, <1>13, <1>14
         DEF Next

-----------------------------------------------------------------------------
\* NaluSplit goes on where the buffer starts.
LEMMA FromBuffer == ASSUME Inv PROVE Nalus!From = buffer.from
<1>1. units \in Seq(UnitType) /\ Len(units) \in Nat
  BY DEF Inv, Tiled
<1>2. CASE units = <<>>
  <2>1. Spans(units) = <<>>  BY <1>1, <1>2, SpansSeq
  <2> QED  BY <1>2, <2>1 DEF Nalus!From, Spans, Inv, Tiled
<1>3. CASE units # <<>>
  <2>1. Len(units) \in 1..Len(units)  BY <1>1, <1>3
  <2>2. /\ Spans(units) # <<>> /\ Len(Spans(units)) = Len(units)
        /\ Spans(units)[Len(units)] = [from |-> units[Len(units)].from,
                                       to |-> units[Len(units)].to]
    BY <1>1, <1>3, <2>1, SpansSeq
  <2>3. Spans(units)[Len(Spans(units))].to = buffer.from
    BY <1>3, <2>2 DEF Inv, Tiled
  <2> QED  BY <2>2, <2>3 DEF Nalus!From, Spans
<1> QED  BY <1>2, <1>3

\* Delivering a unit gives out a NALU.
LEMMA GiveStep ==
  ASSUME Inv, AtNalu, pc # "done",
         NEW to \in Nat, buffer.from < to,
         Nalus!Boundary(to) \/ to = buffer.to,
         \A p \in (buffer.from + 2)..(to - 3) : ~Nalus!StartCode(p),
         es' = es, units' = Append(units, Unit(buffer.from, to)),
         buffer'.to \in buffer.to..Len(es), to =< buffer'.to
  PROVE  Nalus!Next
<1> DEFINE u == Unit(buffer.from, to)
<1>1. /\ units \in Seq(UnitType) /\ buffer.from \in Nat /\ buffer.to \in Nat
      /\ pts \in Stamps \cup {NoPts} /\ Len(es) \in Nat
  BY StreamAssumption DEF Inv, Joined, Tiled
<1>2. u \in UnitType /\ u.from = buffer.from /\ u.to = to
  BY <1>1 DEF Unit, UnitType
<1>3. Spans(units') = Append(Spans(units), [from |-> buffer.from, to |-> to])
  BY <1>1, <1>2, SpansAppend
<1>4. Nalus!From = buffer.from  BY FromBuffer
<1>5. Nalus!Boundary(buffer.from)  BY DEF AtNalu
<1>6. Nalus!Give(to)
  BY <1>3, <1>4, <1>5 DEF Nalus!Give, Spans
<1>7. to \in (Nalus!From + 1)..buffer'.to  BY <1>1, <1>4
<1> QED  BY <1>6, <1>7 DEF Nalus!Next

\* Every step gives out the next NALU, takes in more bytes or does nothing
\* that NaluSplit sees.
LEMMA StepSplits == Inv /\ AtNalu /\ [Next]_vars => [Nalus!Next]_(Nalus!vars)
<1> SUFFICES ASSUME Inv, AtNalu, [Next]_vars
             PROVE  Nalus!Next \/ UNCHANGED Nalus!vars
  OBVIOUS
<1>1. Joined /\ es \in Seq(0..2) /\ Len(es) \in Nat
  BY StreamAssumption DEF Inv, Joined
<1>2. /\ buffer \in [from: Nat, to: Nat] /\ buffer.to =< pes.to
      /\ pes.from \in Nat /\ pes.to \in Nat /\ pes.from =< pes.to
      /\ pes.to =< Len(es)
  BY <1>1 DEF Joined, PesType
<1>3. ASSUME UNCHANGED <<es, buffer, units>> PROVE UNCHANGED Nalus!vars
  BY <1>3 DEF Nalus!vars
<1>4. ASSUME UNCHANGED <<es, units>>, buffer'.to \in buffer.to..Len(es)
      PROVE  Nalus!Next
  BY <1>4 DEF Nalus!Next
<1>5. CASE Gather  BY <1>3, <1>5 DEF Gather
<1>6. CASE Complete  BY <1>3, <1>6 DEF Complete
<1>7. CASE EndOfScan  BY <1>3, <1>7 DEF EndOfScan
<1>8. ASSUME NEW stamp \in Stamps \cup {NoPts}, Begin(stamp)
      PROVE  UNCHANGED Nalus!vars
  BY <1>3, <1>8 DEF Begin
<1>9. CASE Drain
  <2>1. PICK p \in Second(buffer) :
          /\ units' = Append(units, Unit(buffer.from, p))
          /\ buffer' = [from |-> p, to |-> buffer.to]
    BY <1>9 DEF Drain, Span
  <2>2. pc # "done" /\ es' = es  BY <1>9 DEF Drain
  <2>3. Nalus!Boundary(buffer.from)  BY <2>2 DEF AtNalu
  <2>4. /\ p \in Nat /\ buffer.from < p /\ p < buffer.to
        /\ CheckHeader(p, buffer.to)
        /\ \A q \in (buffer.from + 3)..(p - 3) : ~CheckHeader(q, buffer.to)
    BY <1>2 DEF Second
  <2>5. Nalus!Boundary(p)  BY <1>1, <1>2, <2>4, HeaderIsBoundary
  <2>6. \A q \in (buffer.from + 2)..(p - 3) : ~Nalus!StartCode(q)
    BY <1>1, <1>2, <2>3, <2>4, OneStartCode
  <2>7. buffer'.to \in buffer.to..Len(es) /\ p =< buffer'.to
    BY <1>1, <1>2, <2>1, <2>4
  <2> QED  BY <2>1, <2>2, <2>4, <2>5, <2>6, <2>7, GiveStep
<1>10. CASE DrainEnd  BY <1>3, <1>10 DEF DrainEnd
<1>11. ASSUME pc \in {"consume", "flush"}, buffer.to > 0,
              units' = UnitsAfterAll, es' = es,
              buffer'.to \in buffer.to..Len(es),
              Nalus!Boundary(buffer.to) \/ pc = "flush"
       PROVE  Nalus!Next
  <2>1. Nalus!Boundary(buffer.from) /\ OneLeft(buffer)
    BY <1>11 DEF AtNalu
  <2>2. buffer.from < buffer.to  BY <1>1, <1>11 DEF Joined
  <2>3. units' = Append(units, Unit(buffer.from, buffer.to))
    BY <1>11 DEF UnitsAfterAll
  <2>4. \A q \in (buffer.from + 2)..(buffer.to - 3) : ~Nalus!StartCode(q)
    <3>1. \A q \in (buffer.from + 3)..(buffer.to - 3) :
            ~CheckHeader(q, buffer.to)
      BY <2>1 DEF OneLeft
    <3>2. buffer.to \in Nat /\ buffer.to =< buffer.to
          /\ buffer.to =< Len(es)
      BY <1>1, <1>2
    <3> QED  BY <1>1, <1>2, <2>1, <3>1, <3>2, OneStartCode
  <2> QED  BY <1>2, <1>11, <2>2, <2>3, <2>4, GiveStep
<1>12. ASSUME units' = UnitsAfterAll, ~(buffer.to > 0), es' = es,
              buffer'.to \in buffer.to..Len(es)
       PROVE  Nalus!Next
  BY <1>4, <1>12 DEF UnitsAfterAll
<1>13. CASE ConsumeAligned
  <2>1. /\ pc = "consume" /\ units' = UnitsAfterAll /\ es' = es
        /\ CheckHeader(pes.from, pes.to) /\ buffer'.to = pes.to
    BY <1>13 DEF ConsumeAligned, Span
  <2>2. buffer.to = pes.from  BY <1>1, <2>1 DEF Joined
  <2>3. Nalus!Boundary(buffer.to)
    BY <1>1, <1>2, <2>1, <2>2, HeaderIsBoundary
  <2>4. buffer'.to \in buffer.to..Len(es)  BY <1>1, <1>2, <2>1
  <2> QED  BY <1>11, <1>12, <2>1, <2>3, <2>4
<1>14. CASE ConsumeUnaligned
  <2> DEFINE grown == [from |-> buffer.from, to |-> pes.to]
  <2>1. pc = "consume" /\ es' = es  BY <1>14 DEF ConsumeUnaligned
  <2>2. grown \in [from: Nat, to: Nat] /\ grown.from = buffer.from
        /\ grown.to = pes.to /\ pes.to \in buffer.to..Len(es)
    BY <1>1, <1>2
  <2>3. Nalus!Boundary(buffer.from)  BY <2>1 DEF AtNalu
  <2>4. ASSUME NEW p \in Second(grown),
               units' = Append(units, Unit(buffer.from, p)),
               buffer' = [from |-> p, to |-> pes.to]
        PROVE  Nalus!Next
    <3>1. /\ p \in Nat /\ buffer.from < p /\ p < pes.to
          /\ CheckHeader(p, pes.to)
          /\ \A q \in (buffer.from + 3)..(p - 3) : ~CheckHeader(q, pes.to)
      BY <1>2, <2>2 DEF Second
    <3>2. Nalus!Boundary(p)  BY <1>1, <1>2, <3>1, HeaderIsBoundary
    <3>3. \A q \in (buffer.from + 2)..(p - 3) : ~Nalus!StartCode(q)
      <4> HIDE DEF grown
      <4>1. p =< grown.to /\ grown.to =< Len(es)  BY <1>1, <1>2, <2>2, <3>1
      <4> QED  BY <1>1, <2>2, <2>3, <3>1, <4>1, OneStartCode
    <3>4. buffer'.to \in buffer.to..Len(es) /\ p =< buffer'.to
      BY <1>1, <1>2, <2>2, <2>4, <3>1
    <3> QED  BY <2>1, <2>4, <3>1, <3>2, <3>3, <3>4, GiveStep
  <2>5. CASE buffer' = grown /\ UNCHANGED units
    BY <1>4, <2>1, <2>2, <2>5
  <2> QED  BY <1>14, <2>4, <2>5 DEF ConsumeUnaligned, Span
<1>15. CASE Flush
  <2>1. /\ pc = "flush" /\ units' = UnitsAfterAll /\ es' = es
        /\ buffer'.to = buffer.to
    BY <1>15 DEF Flush, Span
  <2>2. buffer'.to \in buffer.to..Len(es)  BY <1>1, <1>2, <2>1
  <2> QED  BY <1>11, <1>12, <2>1, <2>2
<1>16. CASE UNCHANGED vars  BY <1>3, <1>16 DEF vars
<1> QED  BY <1>5, <1>6, <1>7, <1>8, <1>9, <1>10, <1>13, <1>14, <1>15, <1>16
         DEF Next

\* Each unit is the next NALU of the stream, however it was cut into packets.
THEOREM UnitsAreNalus == Spec => SplitsNalus
<1>1. Init => Nalus!Init
  <2> SUFFICES ASSUME Init PROVE Nalus!Init  OBVIOUS
  <2>1. units \in Seq(UnitType) /\ units = <<>>  BY DEF Init
  <2>2. Spans(units) = <<>>  BY <2>1, SpansSeq
  <2> QED  BY <2>2 DEF Init, Nalus!Init, Spans, Span
<1> QED
  BY <1>1, InvInit, InvNext, AtNaluInit, AtNaluNext, StepSplits, PTL
  DEF Spec, SplitsNalus, Nalus!Spec

-----------------------------------------------------------------------------
(* Time stamps.                                                            *)
(* The invariant says of the NALU at the head of the buffer what UnitPts   *)
(* says of a unit, so that delivering it keeps UnitPts, and of the NALUs   *)
(* behind it in the buffer that they have the PTS of the same PES or of    *)
(* one without: m_pts is right for all of them.  What UnitPts chooses in   *)
(* the history is given as a witness (StampAt), which later PES leave      *)
(* alone.                                                                  *)

StampType == Stamps \cup {NoPts}
HeadType  == [at: Nat, pts: StampType]

\* The PES that holds position p has the PTS s.
StampAt(hs, p, s) ==
  \E i \in 1..Len(hs) : /\ hs[i].at =< p
                        /\ \A j \in (i + 1)..Len(hs) : hs[j].at > p
                        /\ hs[i].pts = s

\* Where the 01 of a start code at p of the bytes e is.
OneAt(e, p) == IF e[p + 3] = 1 THEN p + 2 ELSE p + 3

\* A NALU that starts at p of the n bytes e read so far is stamped with stamp,
\* behind one with before.
Stamped(e, n, hs, p, stamp, before) ==
  /\ OneAt(e, p) < n
  /\ \E s \in StampType : /\ StampAt(hs, OneAt(e, p), s)
                          /\ stamp = IF s # NoPts THEN s ELSE before

\* What UnitPts says of unit i.
UnitStamped(i) ==
  Stamped(es, pos, heads, units[i].from, units[i].pts,
          IF i = 1 THEN NoPts ELSE units[i - 1].pts)

LastPts == IF units = <<>> THEN NoPts ELSE units[Len(units)].pts

\* The last PES begun is the one being gathered.
HeadsKept ==
  /\ heads \in Seq(HeadType)
  /\ ~pes.open => heads = <<>>
  /\ pes.open => /\ heads # <<>> /\ pos >= 4
                 /\ heads[Len(heads)] = [at |-> pes.from, pts |-> pes.pts]

BufferStamped ==
  /\ buffer.to = 0 => units = <<>> /\ pts = NoPts
  /\ buffer.to > 0 /\ pc # "done" => Stamped(es, pos, heads, buffer.from, pts, LastPts)
  /\ pc # "done" =>
       \A p \in Nat : p >= buffer.from + 3 /\ CheckHeader(p, buffer.to) =>
         \E s \in {NoPts, pts} : StampAt(heads, OneAt(es, p), s)

StampInv ==
  /\ HeadsKept
  /\ \A i \in 1..Len(units) : UnitStamped(i)
  /\ BufferStamped

-----------------------------------------------------------------------------
(* The witness is what UnitPts chooses (RemuxH264.PtsAt). *)
LEMMA StampIsPtsAt ==
  ASSUME HeadsKept, NEW p \in Nat, NEW s, StampAt(heads, p, s)
  PROVE  PtsAt(p) = s
<1> DEFINE Holds(i) == /\ heads[i].at =< p
                       /\ \A j \in (i + 1)..Len(heads) : heads[j].at > p
<1>1. Len(heads) \in Nat /\ \A i \in 1..Len(heads) : heads[i].at \in Nat
  <2>1. \A i \in 1..Len(heads) : heads[i] \in HeadType  BY DEF HeadsKept
  <2> QED  BY <2>1 DEF HeadsKept, HeadType
<1>2. PICK i \in 1..Len(heads) : Holds(i) /\ heads[i].pts = s
  BY DEF StampAt
<1>3. ASSUME NEW k \in 1..Len(heads), Holds(k) PROVE k = i
  <2>1. ~(k < i)
    BY <1>1, <1>2, <1>3
  <2>2. ~(i < k)
    BY <1>1, <1>2, <1>3
  <2> QED  BY <1>1, <2>1, <2>2
<1>4. (CHOOSE k \in 1..Len(heads) : Holds(k)) = i
  BY <1>2, <1>3
<1> QED  BY <1>2, <1>4 DEF PtsAt

(* The bytes behind the start of the last PES belong to it. *)
LEMMA StampOfLast ==
  ASSUME HeadsKept, pes.open, NEW p \in Nat, p >= pes.from
  PROVE  StampAt(heads, p, pes.pts)
<1>1. Len(heads) \in Nat /\ Len(heads) >= 1
  BY DEF HeadsKept
<1>2. Len(heads) \in 1..Len(heads) /\ (Len(heads) + 1)..Len(heads) = {}
  BY <1>1
<1>3. heads[Len(heads)].at = pes.from /\ heads[Len(heads)].pts = pes.pts
  BY DEF HeadsKept
<1> QED  BY <1>2, <1>3 DEF StampAt

(* A PES that begins behind a position leaves its stamp alone. *)
LEMMA StampStays ==
  ASSUME NEW hs \in Seq(HeadType), NEW h \in HeadType, NEW p \in Nat,
         p < h.at, NEW s, StampAt(hs, p, s)
  PROVE  StampAt(Append(hs, h), p, s)
<1> DEFINE new == Append(hs, h)
<1>1. /\ Len(hs) \in Nat /\ Len(new) = Len(hs) + 1
      /\ \A i \in 1..Len(hs) : new[i] = hs[i]
      /\ new[Len(hs) + 1] = h
  OBVIOUS
<1> HIDE DEF new
<1>2. PICK i \in 1..Len(hs) : /\ hs[i].at =< p /\ hs[i].pts = s
                              /\ \A j \in (i + 1)..Len(hs) : hs[j].at > p
  BY DEF StampAt
<1>3. i \in 1..Len(new) /\ new[i].at =< p /\ new[i].pts = s
  BY <1>1, <1>2
<1>4. h.at > p
  BY DEF HeadType
<1>5. \A j \in (i + 1)..Len(new) : new[j].at > p
  BY <1>1, <1>2, <1>4
<1>6. StampAt(new, p, s)
  BY <1>3, <1>5 DEF StampAt
<1> QED  BY <1>6 DEF new

(* Where the 01 of a start code is that checkHeader() finds. *)
LEMMA OneInside ==
  ASSUME NEW p \in Nat, NEW end \in Nat, CheckHeader(p, end)
  PROVE  /\ OneAt(es, p) \in Nat /\ p + 2 =< OneAt(es, p) /\ OneAt(es, p) < end
         /\ OneAt(es, p) = p + 2 => p + 3 =< end /\ Zeros(p, 2) /\ es[p + 3] = 1
<1>1. CASE p + 4 =< end /\ Zeros(p, 3) /\ es[p + 4] = 1
  <2>1. p + 2 \in p..(p + 3 - 1)  OBVIOUS
  <2>2. es[(p + 2) + 1] = 0  BY <1>1, <2>1 DEF Zeros
  <2>3. es[p + 3] = 0  BY <2>2
  <2> QED  BY <1>1, <2>3 DEF OneAt
<1>2. CASE p + 3 =< end /\ Zeros(p, 2) /\ es[p + 3] = 1
  BY <1>2 DEF OneAt
<1> QED  BY <1>1, <1>2 DEF CheckHeader

LEMMA OneNat == ASSUME NEW p \in Nat
                PROVE  OneAt(es, p) \in Nat /\ p + 2 =< OneAt(es, p)
  BY DEF OneAt

-----------------------------------------------------------------------------
LEMMA StampInvImplies == Inv /\ StampInv => UnitPts
<1> SUFFICES ASSUME Inv, StampInv, NEW i \in 1..Len(units)
             PROVE  LET own == PtsAt(OneOf(units[i])) IN
                    units[i].pts = IF own # NoPts THEN own
                                   ELSE IF i = 1 THEN NoPts
                                   ELSE units[i - 1].pts
  BY DEF UnitPts
<1>1. units[i].from \in Nat
  <2>1. units \in Seq(UnitType)  BY DEF Inv, Tiled
  <2>2. units[i] \in UnitType  BY <2>1
  <2> QED  BY <2>2 DEF UnitType
<1>2. OneOf(units[i]) = OneAt(es, units[i].from)
  BY DEF OneOf, OneAt
<1>3. PICK s \in StampType :
        /\ StampAt(heads, OneAt(es, units[i].from), s)
        /\ units[i].pts = IF s # NoPts THEN s
                          ELSE IF i = 1 THEN NoPts ELSE units[i - 1].pts
  BY DEF StampInv, UnitStamped, Stamped
<1>4. PtsAt(OneOf(units[i])) = s
  BY <1>1, <1>2, <1>3, OneNat, StampIsPtsAt DEF StampInv
<1> QED  BY <1>3, <1>4

LEMMA StampInvInit == Init => StampInv
<1> SUFFICES ASSUME Init PROVE StampInv  OBVIOUS
<1>1. HeadsKept  BY DEF Init, HeadsKept
<1>2. \A i \in 1..Len(units) : UnitStamped(i)  BY DEF Init
<1>3. \A p \in Nat : ~CheckHeader(p, 0)  BY DEF CheckHeader
<1>4. BufferStamped  BY <1>3 DEF Init, BufferStamped, Span
<1> QED  BY <1>1, <1>2, <1>4 DEF StampInv

(* Delivering a NALU that is stamped right keeps every unit so. *)
LEMMA DeliveredStamped ==
  ASSUME Inv, \A i \in 1..Len(units) : UnitStamped(i),
         Stamped(es, pos, heads, buffer.from, pts, LastPts), NEW to \in Nat,
         units' = Append(units, Unit(buffer.from, to)),
         UNCHANGED <<es, pos, heads>>
  PROVE  /\ \A i \in 1..Len(units') : UnitStamped(i)'
         /\ LastPts' = pts
<1> DEFINE u == Unit(buffer.from, to)
<1>1. /\ units \in Seq(UnitType) /\ Len(units) \in Nat
      /\ u \in UnitType /\ u.from = buffer.from /\ u.pts = pts
  BY DEF Inv, Joined, Tiled, Unit, UnitType
<1> HIDE DEF u
<1>2. /\ units' \in Seq(UnitType) /\ Len(units') = Len(units) + 1
      /\ \A i \in 1..Len(units) : units'[i] = units[i]
      /\ units'[Len(units) + 1] = u
  BY <1>1 DEF u
<1>3. ASSUME NEW i \in 1..Len(units') PROVE UnitStamped(i)'
  <2>1. CASE i \in 1..Len(units)
    <3>1. units'[i] = units[i] /\ (i # 1 => units'[i - 1] = units[i - 1])
      BY <1>1, <1>2, <2>1
    <3>2. UnitStamped(i)  BY <2>1
    <3> QED  BY <3>1, <3>2 DEF UnitStamped
  <2>2. CASE i = Len(units) + 1
    <3>1. units'[i].from = buffer.from /\ units'[i].pts = pts
      BY <1>1, <1>2, <2>2
    <3>2. (IF i = 1 THEN NoPts ELSE units'[i - 1].pts) = LastPts
      <4>1. CASE units = <<>>
        BY <1>1, <2>2, <4>1 DEF LastPts
      <4>2. CASE units # <<>>
        <5>1. Len(units) \in 1..Len(units) /\ i - 1 = Len(units) /\ i # 1
          BY <1>1, <2>2, <4>2
        <5> QED  BY <1>2, <4>2, <5>1 DEF LastPts
      <4> QED  BY <4>1, <4>2
    <3> QED  BY <3>1, <3>2 DEF UnitStamped
  <2> QED  BY <1>1, <1>2, <2>1, <2>2
<1>4. LastPts' = pts
  <2>1. units' # <<>>  BY <1>1, <1>2
  <2> QED  BY <1>1, <1>2, <2>1 DEF LastPts
<1> QED  BY <1>3, <1>4

(* Units and buffer stay as they were. *)
LEMMA NothingDelivered ==
  ASSUME StampInv, UNCHANGED <<es, pos, heads, pes, buffer, pts, units>>,
         pc # "done"
  PROVE  StampInv'
<1>1. HeadsKept'  BY DEF StampInv, HeadsKept
<1>2. ASSUME NEW i \in 1..Len(units') PROVE UnitStamped(i)'
  BY DEF StampInv, UnitStamped
<1>3. LastPts' = LastPts  BY DEF LastPts
<1>4. ASSUME NEW p \in Nat PROVE CheckHeader(p, buffer.to)' <=> CheckHeader(p, buffer.to)
  BY DEF CheckHeader, Zeros
<1>5. BufferStamped'  BY <1>3, <1>4 DEF StampInv, BufferStamped
<1> QED  BY <1>1, <1>2, <1>5 DEF StampInv

(* pesScan() goes on: only what was read grows. *)
LEMMA MoreRead ==
  ASSUME Inv, StampInv, NEW n \in Nat, n >= pos, pos' = n,
         UNCHANGED <<es, buffer, pts, units>>, pc # "done",
         HeadsKept',
         \A p \in Nat, s \in StampType :
           p < pos /\ StampAt(heads, p, s) => StampAt(heads', p, s)
  PROVE  StampInv'
<1>1. /\ units \in Seq(UnitType) /\ buffer.from \in Nat /\ buffer.to \in Nat
      /\ buffer.to =< pos /\ pos \in Nat /\ pts \in StampType
  BY DEF Inv, Joined, Tiled, PesType, StampType
<1>2. ASSUME NEW p \in Nat, NEW a, NEW b, Stamped(es, pos, heads, p, a, b)
      PROVE  Stamped(es', pos', heads', p, a, b)
  <2>1. OneAt(es, p) \in Nat  BY OneNat
  <2>2. PICK s \in StampType : /\ StampAt(heads, OneAt(es, p), s)
                               /\ a = IF s # NoPts THEN s ELSE b
    BY <1>2 DEF Stamped
  <2>3. OneAt(es, p) < pos  BY <1>2 DEF Stamped
  <2>4. StampAt(heads', OneAt(es, p), s)  BY <2>1, <2>2, <2>3
  <2>5. OneAt(es, p) < pos'  BY <1>1, <2>1, <2>3
  <2>6. es' = es  OBVIOUS
  <2> QED  BY <2>2, <2>4, <2>5, <2>6 DEF Stamped
<1>3. ASSUME NEW i \in 1..Len(units') PROVE UnitStamped(i)'
  <2>1. i \in 1..Len(units) /\ units[i].from \in Nat
    <3>1. units[i] \in UnitType  BY <1>1
    <3> QED  BY <3>1 DEF UnitType
  <2>2. UnitStamped(i)  BY <2>1 DEF StampInv
  <2> QED  BY <1>2, <2>1, <2>2 DEF UnitStamped
<1>4. LastPts' = LastPts  BY DEF LastPts
<1>5. buffer.to > 0 => Stamped(es', pos', heads', buffer.from, pts, LastPts)
  BY <1>1, <1>2 DEF StampInv, BufferStamped
<1>6. ASSUME NEW p \in Nat, p >= buffer.from + 3, CheckHeader(p, buffer.to)
      PROVE  \E s \in {NoPts, pts} : StampAt(heads', OneAt(es, p), s)
  <2>1. PICK s \in {NoPts, pts} : StampAt(heads, OneAt(es, p), s)
    BY <1>6 DEF StampInv, BufferStamped
  <2>2. OneAt(es, p) \in Nat /\ OneAt(es, p) < pos
    BY <1>1, <1>6, OneInside
  <2>3. s \in StampType  BY <1>1 DEF StampType
  <2> QED  BY <2>1, <2>2, <2>3
<1>7. ASSUME NEW p \in Nat PROVE CheckHeader(p, buffer.to)' <=> CheckHeader(p, buffer.to)
  BY DEF CheckHeader, Zeros
<1>8. BufferStamped'
  BY <1>4, <1>5, <1>6, <1>7 DEF StampInv, BufferStamped
<1> QED  BY <1>3, <1>8 DEF StampInv

(* The first NALU of the buffer is delivered, and one of those behind it is
   now the first. *)
LEMMA NextIsStamped ==
  ASSUME NEW p \in Nat, NEW end \in Nat, CheckHeader(p, end), end =< pos,
         pos \in Nat, NEW s \in StampType, StampAt(heads, OneAt(es, p), s),
         NEW stamp, NEW before, stamp = IF s # NoPts THEN s ELSE before
  PROVE  Stamped(es, pos, heads, p, stamp, before)
<1>1. OneAt(es, p) \in Nat /\ OneAt(es, p) < pos  BY OneInside
<1> QED  BY <1>1 DEF Stamped

LEMMA StampInvNext ==
  Inv /\ AtNalu /\ StampInv /\ [Next]_vars => StampInv'
<1> SUFFICES ASSUME Inv, AtNalu, StampInv, [Next]_vars PROVE StampInv'
  OBVIOUS
<1>1. /\ Joined /\ Tiled(units, buffer.from) /\ HeadsKept
      /\ \A i \in 1..Len(units) : UnitStamped(i)
  BY DEF Inv, StampInv
<1>2. /\ es \in Seq(0..2) /\ Len(es) \in Nat /\ pos \in Nat
      /\ pes.from \in Nat /\ pes.to \in Nat /\ pes.from =< pes.to
      /\ pes.to = pos /\ pes.pts \in StampType /\ pts \in StampType
      /\ buffer.from \in Nat /\ buffer.to \in Nat
      /\ buffer.from =< buffer.to /\ buffer.to =< pos
  BY <1>1, StreamAssumption DEF Joined, PesType, StampType
<1>3. CASE Gather
  <2>1. HeadsKept'  BY <1>1, <1>2, <1>3 DEF Gather, HeadsKept
  <2>2. pos' \in Nat /\ pos' >= pos  BY <1>2, <1>3 DEF Gather
  <2> QED  BY <1>3, <2>1, <2>2, MoreRead DEF Gather
<1>4. CASE Complete \/ EndOfScan \/ DrainEnd
  BY <1>4, NothingDelivered DEF Complete, EndOfScan, DrainEnd
<1>5. ASSUME NEW stamp \in Stamps \cup {NoPts}, Begin(stamp)
      PROVE  StampInv'
  <2> DEFINE h == [at |-> pos, pts |-> stamp]
  <2>1. /\ h \in HeadType /\ h.at = pos /\ heads \in Seq(HeadType)
        /\ heads' = Append(heads, h)
        /\ pes' = [open |-> TRUE, from |-> pos, to |-> pos', pts |-> stamp]
        /\ pos' \in Nat /\ pos' >= pos /\ (heads = <<>> => pos' >= 4)
    BY <1>1, <1>2, <1>5 DEF Begin, HeadType, StampType, HeadsKept
  <2>2. heads # <<>> => pos >= 4
    BY <1>1 DEF HeadsKept, Joined
  <2> HIDE DEF h
  <2>3. HeadsKept'
    <3>1. /\ heads' \in Seq(HeadType) /\ heads' # <<>>
          /\ heads'[Len(heads')] = h
      BY <2>1
    <3>2. pos' >= 4  BY <1>2, <2>1, <2>2
    <3> QED  BY <2>1, <3>1, <3>2 DEF HeadsKept, h
  <2>4. ASSUME NEW p \in Nat, NEW s \in StampType, p < pos,
               StampAt(heads, p, s)
        PROVE  StampAt(heads', p, s)
    BY <2>1, <2>4, StampStays
  <2>5. UNCHANGED <<es, buffer, pts, units>> /\ pc # "done"
    BY <1>5 DEF Begin
  <2> QED  BY <2>1, <2>3, <2>4, <2>5, MoreRead
<1>6. CASE Drain
  <2>1. PICK p \in Second(buffer) :
          /\ units' = Append(units, Unit(buffer.from, p))
          /\ buffer' = [from |-> p, to |-> buffer.to]
    BY <1>6 DEF Drain, Span
  <2>2. /\ p \in Nat /\ p >= buffer.from + 3 /\ CheckHeader(p, buffer.to)
        /\ buffer.to > 0
    BY <1>2, <2>1 DEF Second
  <2>3. UNCHANGED <<es, pos, heads, pes, pts, pc>> /\ pc # "done"
    BY <1>6 DEF Drain
  <2>4. /\ \A i \in 1..Len(units') : UnitStamped(i)'
        /\ LastPts' = pts
    <3>1. Stamped(es, pos, heads, buffer.from, pts, LastPts)
      BY <2>2, <2>3 DEF StampInv, BufferStamped
    <3> QED  BY <1>1, <2>1, <2>2, <2>3, <3>1, DeliveredStamped
  <2>5. PICK s \in {NoPts, pts} : StampAt(heads, OneAt(es, p), s)
    BY <2>2, <2>3 DEF StampInv, BufferStamped
  <2>6. Stamped(es, pos, heads, p, pts, pts)
    <3>1. s \in StampType /\ pts = IF s # NoPts THEN s ELSE pts
      BY <1>2, <2>5 DEF StampType
    <3> QED  BY <1>2, <2>2, <2>5, <3>1, NextIsStamped
  <2>7. \A q \in Nat : q >= p + 3 /\ CheckHeader(q, buffer.to) =>
          \E x \in {NoPts, pts} : StampAt(heads, OneAt(es, q), x)
    BY <1>2, <2>2, <2>3 DEF StampInv, BufferStamped
  <2>8. \A q \in Nat : CheckHeader(q, buffer.to)' <=> CheckHeader(q, buffer.to)
    BY <2>1, <2>3 DEF CheckHeader, Zeros
  <2>9. BufferStamped'
    BY <2>1, <2>2, <2>3, <2>4, <2>6, <2>7, <2>8 DEF BufferStamped
  <2>10. HeadsKept'  BY <1>1, <2>3 DEF HeadsKept
  <2> QED  BY <2>4, <2>9, <2>10 DEF StampInv
<1>7. ASSUME pc = "consume" PROVE pes.open
  BY <1>1, <1>7 DEF Joined
<1>8. ASSUME pc # "done", NEW us, us = UnitsAfterAll, units' = us,
             UNCHANGED <<es, pos, heads>>
      PROVE  /\ \A i \in 1..Len(units') : UnitStamped(i)'
             /\ LastPts' = pts
  <2>1. CASE buffer.to > 0
    <3>1. Stamped(es, pos, heads, buffer.from, pts, LastPts)
      BY <1>8, <2>1 DEF StampInv, BufferStamped
    <3>2. units' = Append(units, Unit(buffer.from, buffer.to))
      BY <1>8, <2>1 DEF UnitsAfterAll
    <3> QED  BY <1>1, <1>2, <1>8, <3>1, <3>2, DeliveredStamped
  <2>2. CASE buffer.to = 0
    <3>1. units' = units /\ units = <<>> /\ pts = NoPts
      BY <1>8, <2>2 DEF UnitsAfterAll, StampInv, BufferStamped
    <3>2. Len(units') = 0  BY <3>1
    <3> QED  BY <3>1, <3>2 DEF LastPts
  <2> QED  BY <1>2, <2>1, <2>2
<1>9. CASE ConsumeAligned
  <2>1. /\ pc = "consume" /\ pc' = "drainAligned"
        /\ CheckHeader(pes.from, pes.to)
        /\ units' = UnitsAfterAll /\ pts' = NewPts
        /\ buffer' = [from |-> pes.from, to |-> pes.to]
        /\ UNCHANGED <<es, pos, heads, pes>>
    BY <1>9 DEF ConsumeAligned, Span
  <2>2. /\ \A i \in 1..Len(units') : UnitStamped(i)'
        /\ LastPts' = pts
    BY <1>8, <2>1
  <2>3. pes.open /\ pes.to >= 4  BY <1>1, <1>2, <1>7, <2>1 DEF HeadsKept
  <2>4. \A q \in Nat : q >= pes.from /\ CheckHeader(q, pes.to) =>
          StampAt(heads, OneAt(es, q), pes.pts)
    <3>1. ASSUME NEW q \in Nat, q >= pes.from
          PROVE  OneAt(es, q) \in Nat /\ OneAt(es, q) >= pes.from
      <4>1. OneAt(es, q) \in Nat /\ q + 2 =< OneAt(es, q)  BY OneNat
      <4> QED  BY <1>2, <3>1, <4>1
    <3> QED  BY <1>1, <2>3, <3>1, StampOfLast
  <2>5. Stamped(es, pos, heads, pes.from, pts', LastPts')
    <3>1. pts' = IF pes.pts # NoPts THEN pes.pts ELSE LastPts'
      BY <2>1, <2>2 DEF NewPts
    <3>2. StampAt(heads, OneAt(es, pes.from), pes.pts)
      BY <1>2, <2>1, <2>4
    <3>3. pes.to =< pos  BY <1>2
    <3> QED  BY <1>2, <2>1, <3>1, <3>2, <3>3, NextIsStamped
  <2>6. pes.pts \in {NoPts, pts'}  BY <2>1 DEF NewPts
  <2>7. \A q \in Nat : CheckHeader(q, buffer.to)' <=> CheckHeader(q, pes.to)
    BY <2>1 DEF CheckHeader, Zeros
  <2>8. BufferStamped'
    BY <1>2, <2>1, <2>3, <2>4, <2>5, <2>6, <2>7 DEF BufferStamped
  <2>9. HeadsKept'  BY <1>1, <2>1 DEF HeadsKept
  <2> QED  BY <2>2, <2>8, <2>9 DEF StampInv
<1>10. CASE ConsumeUnaligned
  <2> DEFINE grown == [from |-> buffer.from, to |-> pes.to]
  <2>1. /\ pc = "consume" /\ pc' = "begin"
        /\ ~CheckHeader(pes.from, pes.to)
        /\ UNCHANGED <<es, pos, heads, pes>>
        /\ buffer.to = pes.from
    BY <1>1, <1>10 DEF ConsumeUnaligned, Joined
  <2>2. pes.open /\ pes.to >= 4  BY <1>1, <1>2, <1>7, <2>1 DEF HeadsKept
  <2>3. buffer.to > 0
    <3>1. CASE pes.from = 0
      <4>1. /\ es[1] = 0 /\ es[2] = 0
            /\ es[3] = 1 \/ (es[3] = 0 /\ es[4] = 1)
        BY <1>1, StreamAssumption DEF Joined
      <4>2. CheckHeader(0, pes.to)
        BY <1>2, <2>2, <4>1 DEF CheckHeader, Zeros
      <4> QED  BY <2>1, <3>1, <4>2
    <3> QED  BY <1>2, <2>1, <3>1
  <2>4. HeadsKept'  BY <1>1, <2>1 DEF HeadsKept
  <2>5. Stamped(es, pos, heads, buffer.from, pts, LastPts)
    BY <2>1, <2>3 DEF StampInv, BufferStamped
  <2>6. ASSUME NEW p \in Second(grown),
               units' = Append(units, Unit(buffer.from, p)),
               buffer' = [from |-> p, to |-> pes.to],
               pts' = NewPts
        PROVE  StampInv'
    <3>1. p \in Nat /\ p >= buffer.from + 3 /\ CheckHeader(p, pes.to)
      BY <1>2 DEF Second
    <3>2. OneAt(es, p) >= pes.from
      <4>1. OneAt(es, p) \in Nat /\ OneAt(es, p) >= p + 2
        BY <3>1, OneNat
      <4>2. CASE p + 2 >= pes.from
        BY <1>2, <3>1, <4>1, <4>2
      <4>3. CASE p + 3 =< pes.from
        <5>1. OneLeft(buffer)  BY <2>1 DEF AtNalu
        <5>2. ~CheckHeader(p, pes.from)
          BY <1>2, <2>1, <3>1, <4>3, <5>1 DEF OneLeft
        <5>3. CASE p + 4 =< pes.to /\ Zeros(p, 3) /\ es[p + 4] = 1
          <6>1. p + 4 > pes.from
            BY <1>2, <3>1, <5>2, <5>3 DEF CheckHeader
          <6>2. p + 2 \in p..(p + 3 - 1)  BY <3>1
          <6>3. es[p + 3] = 0
            <7>1. es[(p + 2) + 1] = 0  BY <5>3, <6>2 DEF Zeros
            <7> QED  BY <3>1, <7>1
          <6>4. OneAt(es, p) = p + 3  BY <6>3 DEF OneAt
          <6> QED  BY <1>2, <3>1, <6>1, <6>4
        <5>4. CASE p + 3 =< pes.to /\ Zeros(p, 2) /\ es[p + 3] = 1
          BY <4>3, <5>2, <5>4 DEF CheckHeader
        <5> QED  BY <3>1, <5>3, <5>4 DEF CheckHeader
      <4> QED  BY <1>2, <3>1, <4>2, <4>3
    <3>3. \A q \in Nat : q >= p + 3 \/ q = p =>
            StampAt(heads, OneAt(es, q), pes.pts)
      <4>1. ASSUME NEW q \in Nat, q >= p + 3
            PROVE  OneAt(es, q) \in Nat /\ OneAt(es, q) >= pes.from
        <5>1. OneAt(es, q) \in Nat /\ OneAt(es, q) >= q + 2  BY OneNat
        <5>2. OneAt(es, p) =< p + 3  BY <3>1 DEF OneAt
        <5>3. OneAt(es, p) \in Nat  BY <3>1, OneNat
        <5> QED  BY <1>2, <3>1, <3>2, <4>1, <5>1, <5>2, <5>3
      <4>2. OneAt(es, p) \in Nat  BY <3>1, OneNat
      <4> QED  BY <1>1, <2>2, <3>2, <4>1, <4>2, StampOfLast
    <3>4. /\ \A i \in 1..Len(units') : UnitStamped(i)'
          /\ LastPts' = pts
      BY <1>1, <2>1, <2>5, <2>6, <3>1, DeliveredStamped
    <3>5. Stamped(es, pos, heads, p, pts', LastPts')
      <4>1. pts' = IF pes.pts # NoPts THEN pes.pts ELSE LastPts'
        BY <2>6, <3>4 DEF NewPts
      <4> QED  BY <1>2, <3>1, <3>3, <4>1, NextIsStamped, SMTT(30)
    <3>6. pes.pts \in {NoPts, pts'}  BY <2>6 DEF NewPts
    <3>7. BufferStamped'
      BY <2>1, <2>2, <2>6, <3>1, <3>3, <3>5, <3>6 DEF BufferStamped
    <3> QED  BY <2>4, <3>4, <3>7 DEF StampInv
  <2>7. CASE OneLeft(grown) /\ buffer' = grown /\ UNCHANGED <<units, pts>>
    <3>1. ASSUME NEW i \in 1..Len(units') PROVE UnitStamped(i)'
      BY <1>1, <2>1, <2>7 DEF UnitStamped
    <3>2. LastPts' = LastPts  BY <2>7 DEF LastPts
    <3>3. ASSUME NEW q \in Nat, q >= buffer.from + 3, CheckHeader(q, pes.to)
          PROVE  FALSE
      <4>1. q + 3 =< pes.to  BY <1>2, <3>3 DEF CheckHeader
      <4>2. q \in (buffer.from + 3)..(pes.to - 3)  BY <1>2, <3>3, <4>1
      <4> QED  BY <2>7, <3>3, <4>2 DEF OneLeft
    <3>4. \A q \in Nat : CheckHeader(q, buffer.to)' <=> CheckHeader(q, pes.to)
      BY <2>1, <2>7 DEF CheckHeader, Zeros
    <3>5. BufferStamped'
      BY <2>1, <2>2, <2>5, <2>7, <3>2, <3>3, <3>4 DEF BufferStamped
    <3> QED  BY <2>4, <3>1, <3>5 DEF StampInv
  <2> QED  BY <1>10, <2>6, <2>7 DEF ConsumeUnaligned, Span
<1>11. CASE Flush
  <2>1. /\ pc = "flush" /\ pc' = "done" /\ units' = UnitsAfterAll
        /\ buffer' = [from |-> buffer.to, to |-> buffer.to]
        /\ UNCHANGED <<es, pos, heads, pes, pts>>
    BY <1>11 DEF Flush, Span
  <2>2. \A i \in 1..Len(units') : UnitStamped(i)'
    BY <1>8, <2>1
  <2>3. HeadsKept'  BY <1>1, <2>1 DEF HeadsKept
  <2>4. BufferStamped'
    <3>1. buffer.to = 0 => units' = <<>> /\ pts' = NoPts
      BY <2>1 DEF UnitsAfterAll, StampInv, BufferStamped
    <3> QED  BY <2>1, <3>1 DEF BufferStamped
  <2> QED  BY <2>2, <2>3, <2>4 DEF StampInv
<1>12. CASE UNCHANGED vars
  <2>1. CASE pc # "done"
    BY <1>12, <2>1, NothingDelivered DEF vars
  <2>2. CASE pc = "done"
    <3>1. HeadsKept'  BY <1>1, <1>12 DEF vars, HeadsKept
    <3>2. ASSUME NEW i \in 1..Len(units') PROVE UnitStamped(i)'
      BY <1>1, <1>12 DEF vars, UnitStamped
    <3>3. BufferStamped'
      BY <1>12, <2>2 DEF vars, StampInv, BufferStamped
    <3> QED  BY <3>1, <3>2, <3>3 DEF StampInv
  <2> QED  BY <2>1, <2>2
<1> QED  BY <1>3, <1>4, <1>5, <1>6, <1>9, <1>10, <1>11, <1>12 DEF Next

-----------------------------------------------------------------------------
(* Each unit has the PTS of the PES its start code ends in, or that of the
   unit before it, however NALUs, PES and packets overlap
   (RemuxH264StreamFrameBoundaryTask.cpp:223-226, 239-250). *)
THEOREM UnitsAreStamped == Spec => []UnitPts
<1> QED  BY InvInit, InvNext, AtNaluInit, AtNaluNext, StampInvInit,
            StampInvNext, StampInvImplies, PTL DEF Spec
=============================================================================
