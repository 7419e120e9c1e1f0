---------------------------- MODULE RecodeProofs ----------------------------
(***************************************************************************)
(* Theorems about Recode, for every segment, every encoder and every       *)
(* remuxed video that the constants may hold: the types, and what holds of *)
(* the lists of class TS, of the search for a quality, of the PID of the   *)
(* alternate video and of the file.                                        *)
(***************************************************************************)
EXTENDS Recode, InductionProofs

-----------------------------------------------------------------------------
(* Class TS *)

\* The packets there can be on a PID.
PacketsOn(pid) == {x \in PacketType : x.pid = pid}

\* ListsAgree for any store.
Agree(store) == \A p \in Pids : store.of[p] = OnPid(store.all, p)

\* What add() makes of a store, packet after packet, put in one formula.
Extended(store, packets) ==
  [all |-> store.all \o packets,
   of  |-> [p \in Pids |-> store.of[p] \o OnPid(packets, p)]]

LEMMA OnPidIsOnly ==
  ASSUME NEW s \in Seq(PacketType), NEW p
  PROVE  OnPid(s, p) = Only(s, PacketsOn(p))
<1>1. ToSet(s) \subseteq PacketType
  BY DEF ToSet
<1> DEFINE S1 == {x \in ToSet(s) : x.pid = p}
           S2 == PacketsOn(p)
<1>2. ToSet(s) \cap S1 = ToSet(s) \cap S2
  BY <1>1 DEF PacketsOn
<1>3. Only(s, S1) = Only(s, S2)
  <2> HIDE DEF S1, S2
  <2> QED BY <1>2, OnlySame
<1> QED BY <1>3 DEF OnPid

LEMMA OnPidInSeq ==
  ASSUME NEW s \in Seq(PacketType), NEW p
  PROVE  OnPid(s, p) \in Seq(PacketType)
BY OnPidIsOnly, OnlyInSeq

LEMMA OnPidOfEmpty == \A p : OnPid(<<>>, p) = <<>>
BY OnlyOfEmpty DEF OnPid

LEMMA OnPidOfAppend ==
  ASSUME NEW s \in Seq(PacketType), NEW x \in PacketType, NEW p
  PROVE  OnPid(Append(s, x), p) = IF x.pid = p THEN Append(OnPid(s, p), x)
                                  ELSE OnPid(s, p)
<1> DEFINE S == PacketsOn(p)
<1>1. x \in S <=> x.pid = p
  BY DEF PacketsOn
<1>2. Append(s, x) \in Seq(PacketType)
  OBVIOUS
<1>3. Only(Append(s, x), S) = IF x \in S THEN Append(Only(s, S), x)
                              ELSE Only(s, S)
  <2> HIDE DEF S
  <2> QED BY OnlyOfAppend
<1> QED BY <1>1, <1>2, <1>3, OnPidIsOnly

LEMMA OnPidOfConcat ==
  ASSUME NEW s \in Seq(PacketType), NEW t \in Seq(PacketType), NEW p
  PROVE  OnPid(s \o t, p) = OnPid(s, p) \o OnPid(t, p)
<1>1. s \o t \in Seq(PacketType)
  OBVIOUS
<1>2. Only(s \o t, PacketsOn(p)) = Only(s, PacketsOn(p)) \o Only(t, PacketsOn(p))
  BY OnlyOfConcat
<1> QED BY <1>1, <1>2, OnPidIsOnly

(* Packets that are all on one PID. *)
LEMMA OnPidOfOnePid ==
  ASSUME NEW s \in Seq(PacketType), NEW q, NEW p,
         \A n \in 1..Len(s) : s[n].pid = q
  PROVE  OnPid(s, p) = IF p = q THEN s ELSE <<>>
<1>1. ToSet(s) \subseteq PacketsOn(q)
  BY DEF ToSet, PacketsOn
<1>2. CASE p = q
  <2>1. Only(s, PacketsOn(q)) = s
    BY <1>1, OnlyOfAll
  <2> QED BY <1>2, <2>1, OnPidIsOnly
<1>3. CASE p # q
  <2>1. ToSet(s) \cap PacketsOn(p) = {}
    BY <1>1, <1>3 DEF PacketsOn
  <2>2. Only(s, PacketsOn(p)) = <<>>
    BY <2>1, OnlyOfNone
  <2> QED BY <1>3, <2>2, OnPidIsOnly
<1> QED BY <1>2, <1>3

LEMMA ExtendedInType ==
  ASSUME NEW store \in StoreType, NEW packets \in Seq(PacketType)
  PROVE  Extended(store, packets) \in StoreType
<1>1. store.all \o packets \in Seq(PacketType)
  BY DEF StoreType
<1>2. ASSUME NEW p \in Pids
      PROVE  store.of[p] \o OnPid(packets, p) \in Seq(PacketType)
  <2>1. OnPid(packets, p) \in Seq(PacketType) /\ store.of[p] \in Seq(PacketType)
    BY OnPidInSeq DEF StoreType
  <2> QED BY <2>1
<1> QED BY <1>1, <1>2 DEF Extended, StoreType

LEMMA AddedExtends ==
  ASSUME NEW store \in StoreType, NEW s \in Seq(PacketType),
         NEW x \in PacketType
  PROVE  Added(Extended(store, s), x) = Extended(store, Append(s, x))
<1> DEFINE e == Extended(store, s)
<1>1. e.all = store.all \o s /\ e.of = [p \in Pids |-> store.of[p] \o OnPid(s, p)]
  BY DEF Extended
<1>2. Append(store.all \o s, x) = store.all \o Append(s, x)
  BY ConcatAppend DEF StoreType
<1>3. x.pid \in Pids
  BY DEF PacketType
<1>4. [e.of EXCEPT ![x.pid] = Append(@, x)]
        = [p \in Pids |-> store.of[p] \o OnPid(Append(s, x), p)]
  <2>1. ASSUME NEW p \in Pids
        PROVE  store.of[p] \o OnPid(Append(s, x), p)
                 = IF p = x.pid THEN Append(e.of[p], x) ELSE e.of[p]
    <3>1. /\ e.of[p] = store.of[p] \o OnPid(s, p)
          /\ store.of[p] \in Seq(PacketType) /\ OnPid(s, p) \in Seq(PacketType)
      BY <1>1, OnPidInSeq DEF StoreType
    <3>2. store.of[p] \o Append(OnPid(s, p), x)
            = Append(store.of[p] \o OnPid(s, p), x)
      <4> DEFINE u == store.of[p]
                 v == OnPid(s, p)
      <4>1. u \in Seq(PacketType) /\ v \in Seq(PacketType)
        BY <3>1
      <4> HIDE DEF u, v
      <4>2. u \o Append(v, x) = Append(u \o v, x)
        BY <4>1, ConcatAppend
      <4> QED BY <4>2 DEF u, v
    <3>3. OnPid(Append(s, x), p) = IF x.pid = p THEN Append(OnPid(s, p), x)
                                   ELSE OnPid(s, p)
      BY OnPidOfAppend
    <3> HIDE DEF e
    <3> QED BY <3>1, <3>2, <3>3
  <2>2. e.of = [p \in Pids |-> e.of[p]]
    BY <1>1
  <2> HIDE DEF e
  <2>3. [e.of EXCEPT ![x.pid] = Append(@, x)]
          = [p \in Pids |-> IF p = x.pid THEN Append(e.of[p], x) ELSE e.of[p]]
    BY <2>2
  <2> QED BY <2>1, <2>3
<1>5. Added(e, x) = [all |-> Append(e.all, x),
                     of |-> [e.of EXCEPT ![x.pid] = Append(@, x)]]
  BY DEF Added
<1>6. Extended(store, Append(s, x))
        = [all |-> store.all \o Append(s, x),
           of |-> [p \in Pids |-> store.of[p] \o OnPid(Append(s, x), p)]]
  BY DEF Extended
<1> HIDE DEF e
<1>7. Added(e, x) = Extended(store, Append(s, x))
  BY <1>1, <1>2, <1>4, <1>5, <1>6
<1> QED BY <1>7 DEF e

(* Adding one packet after the other comes to adding them all. *)
LEMMA AddedAllExtends ==
  ASSUME NEW store \in StoreType, NEW packets \in Seq(PacketType)
  PROVE  AddedAll(store, packets) = Extended(store, packets)
<1> DEFINE N == Len(packets)
           Part(n) == SubSeq(packets, 1, n)
           Body(f, n) == IF n = 0 THEN store ELSE Added(f[n - 1], packets[n])
           g == [n \in 0..N |-> Extended(store, Part(n))]
           added == CHOOSE f : f = [n \in 0..N |-> Body(f, n)]
<1>1. N \in Nat /\ Part(N) = packets
  OBVIOUS
<1>2. ASSUME NEW n \in 1..N
      PROVE  /\ Part(n - 1) \in Seq(PacketType) /\ packets[n] \in PacketType
             /\ Part(n) = Append(Part(n - 1), packets[n])
  OBVIOUS
<1>3. Extended(store, Part(0)) = store
  <2>1. Part(0) = <<>> /\ store.all \o <<>> = store.all
    BY DEF StoreType
  <2>2. [p \in Pids |-> store.of[p] \o <<>>] = store.of
    BY DEF StoreType
  <2>3. Extended(store, <<>>) = [all |-> store.all, of |-> store.of]
    BY <2>1, <2>2, OnPidOfEmpty DEF Extended
  <2> HIDE DEF Part
  <2> QED BY <2>1, <2>3 DEF StoreType
<1> HIDE DEF Part, N
<1>4. ASSUME NEW n \in 1..N
      PROVE  g[n] = Added(g[n - 1], packets[n])
  <2>1. n \in 0..N /\ n - 1 \in 0..N
    BY <1>1
  <2>2. g[n] = Extended(store, Part(n)) /\ g[n - 1] = Extended(store, Part(n - 1))
    BY <2>1
  <2> HIDE DEF g
  <2> QED BY <1>2, <2>2, AddedExtends
<1>5. \A n \in 0..N : n = 0 \/ n \in 1..N
  BY <1>1
<1>6. g[0] = store /\ g[N] = Extended(store, packets)
  BY <1>1, <1>3
<1>7. g = [n \in 0..N |-> Body(g, n)]
  <2>1. g = [n \in 0..N |-> g[n]]
    OBVIOUS
  <2> HIDE DEF g
  <2>2. \A n \in 0..N : g[n] = Body(g, n)
    BY <1>4, <1>5, <1>6
  <2> QED BY <2>1, <2>2, Zenon
<1> HIDE DEF g
<1>8. added = [n \in 0..N |-> Body(added, n)]
  BY <1>7, Zenon
<1> HIDE DEF added
<1>9. \A n \in 0..N : added[n] = Body(added, n)
  BY <1>8, Zenon
<1>10. added[0] = store /\ \A n \in 1..N : added[n] = Added(added[n - 1], packets[n])
  BY <1>1, <1>9
<1> DEFINE T == {n \in 0..N : added[n] = g[n]}
<1>11. 0 \in T
  BY <1>1, <1>6, <1>10
<1>12. ASSUME NEW n \in 1..N, n - 1 \in T
       PROVE  n \in T
  <2>1. added[n - 1] = g[n - 1] /\ n \in 0..N
    BY <1>1, <1>12
  <2>2. added[n] = g[n]
    BY <2>1, <1>4, <1>10
  <2> QED BY <2>1, <2>2
<1>13. 0..N \subseteq T
  <2> HIDE DEF T
  <2> QED BY <1>1, <1>11, <1>12, BoundedInduction
<1>14. added[N] = g[N]
  BY <1>1, <1>13
<1>15. AddedAll(store, packets) = added[N]
  BY DEF AddedAll, added, N
<1> QED BY <1>6, <1>14, <1>15

(* The lists of a store still agree when packets were added, and each PID has
   the new packets of its own behind those it had. *)
LEMMA AddedAllAgrees ==
  ASSUME NEW store \in StoreType, Agree(store),
         NEW packets \in Seq(PacketType)
  PROVE  Agree(AddedAll(store, packets))
<1>1. SUFFICES ASSUME NEW p \in Pids
               PROVE  Extended(store, packets).of[p]
                        = OnPid(Extended(store, packets).all, p)
  BY AddedAllExtends DEF Agree
<1>2. store.all \in Seq(PacketType)
  BY DEF StoreType
<1>3. OnPid(store.all \o packets, p) = OnPid(store.all, p) \o OnPid(packets, p)
  BY <1>2, OnPidOfConcat
<1>4. store.of[p] = OnPid(store.all, p)
  BY DEF Agree
<1>5. /\ Extended(store, packets).of[p] = store.of[p] \o OnPid(packets, p)
      /\ Extended(store, packets).all = store.all \o packets
  BY DEF Extended
<1> QED BY <1>3, <1>4, <1>5

(* The packets of one PID, counted from 1. *)
LEMMA PacketsAre ==
  ASSUME NEW pid \in Pids, NEW by \in Makers, NEW count \in Nat
  PROVE  /\ Packets(pid, by, count) \in Seq(PacketType)
         /\ Len(Packets(pid, by, count)) = count
         /\ \A n \in 1..count : /\ Packets(pid, by, count)[n].pid = pid
                                /\ Packets(pid, by, count)[n].by = by
BY DEF Packets, Packet, PacketType

\* The store behind adding packets to one PID.
OnePidMore(store, new, pid, packets) ==
  /\ new \in StoreType
  /\ Agree(new)
  /\ new.of[pid] = store.of[pid] \o packets
  /\ \A p \in Pids \ {pid} : new.of[p] = store.of[p]

LEMMA AddedToOnePid ==
  ASSUME NEW store \in StoreType, Agree(store), NEW pid \in Pids,
         NEW by \in Makers, NEW count \in Nat
  PROVE  OnePidMore(store, AddedAll(store, Packets(pid, by, count)), pid,
                    Packets(pid, by, count))
<1> DEFINE packets == Packets(pid, by, count)
           new == AddedAll(store, packets)
<1>1. /\ packets \in Seq(PacketType) /\ Len(packets) = count
      /\ \A n \in 1..count : packets[n].pid = pid
  BY PacketsAre
<1> HIDE DEF packets
<1>2. \A p : OnPid(packets, p) = IF p = pid THEN packets ELSE <<>>
  BY <1>1, OnPidOfOnePid
<1>3. new = Extended(store, packets)
  BY <1>1, AddedAllExtends
<1>4. new \in StoreType
  BY <1>1, <1>3, ExtendedInType
<1>5. Agree(new)
  BY <1>1, AddedAllAgrees
<1>6. \A p \in Pids : new.of[p] = store.of[p] \o OnPid(packets, p)
  BY <1>3 DEF Extended
<1>7. \A p \in Pids : store.of[p] \o <<>> = store.of[p]
  BY DEF StoreType
<1> HIDE DEF new
<1>8. \A p \in Pids \ {pid} : new.of[p] = store.of[p]
  BY <1>2, <1>6, <1>7
<1>9. new.of[pid] = store.of[pid] \o packets
  BY <1>2, <1>6
<1>10. OnePidMore(store, new, pid, packets)
  BY <1>4, <1>5, <1>8, <1>9 DEF OnePidMore
<1> QED BY <1>10 DEF new, packets

(* removeStream() leaves a store whose lists agree. *)
LEMMA RemovedAgrees ==
  ASSUME NEW store \in StoreType, Agree(store), NEW pid \in Pids
  PROVE  /\ Removed(store, pid) \in StoreType
         /\ Agree(Removed(store, pid))
<1> DEFINE all == store.all
           S == ToSet(all) \ ToSet(store.of[pid])
           new == Removed(store, pid)
<1>1. all \in Seq(PacketType) /\ store.of \in [Pids -> Seq(PacketType)]
  BY DEF StoreType
<1>2. new.all = Only(all, S) /\ new.of = [store.of EXCEPT ![pid] = <<>>]
  BY DEF Removed
<1>3. Only(all, S) \in Seq(PacketType)
  <2> HIDE DEF all, S
  <2> QED BY <1>1, OnlyInSeq
<1>4. new \in StoreType
  <2>1. <<>> \in Seq(PacketType)
    OBVIOUS
  <2>2. [store.of EXCEPT ![pid] = <<>>] \in [Pids -> Seq(PacketType)]
    BY <1>1, <2>1
  <2> QED BY <1>3, <2>2 DEF Removed, StoreType
<1>5. ToSet(store.of[pid]) = ToSet(all) \cap PacketsOn(pid)
  <2>1. store.of[pid] = Only(all, PacketsOn(pid))
    BY <1>1, OnPidIsOnly DEF Agree
  <2> HIDE DEF all
  <2> QED BY <1>1, <2>1, OnlyElements
<1>6. ASSUME NEW p \in Pids
      PROVE  new.of[p] = OnPid(new.all, p)
  <2>1. OnPid(new.all, p) = Only(all, S \cap PacketsOn(p))
    <3> HIDE DEF new, all, S
    <3> QED BY <1>1, <1>2, <1>3, OnPidIsOnly, OnlyOfOnly
  <2>2. CASE p = pid
    <3>1. ToSet(all) \cap (S \cap PacketsOn(p)) = {}
      BY <1>5, <2>2
    <3>2. Only(all, S \cap PacketsOn(p)) = <<>>
      <4> HIDE DEF all, S
      <4> QED BY <1>1, <3>1, OnlyOfNone
    <3> QED BY <1>1, <1>2, <2>1, <2>2, <3>2
  <2>3. CASE p # pid
    <3>1. ToSet(all) \cap (S \cap PacketsOn(p)) = ToSet(all) \cap PacketsOn(p)
      BY <1>5, <2>3 DEF PacketsOn
    <3>2. Only(all, S \cap PacketsOn(p)) = Only(all, PacketsOn(p))
      <4> HIDE DEF all, S
      <4> QED BY <1>1, <3>1, OnlySame
    <3>3. store.of[p] = Only(all, PacketsOn(p))
      BY <1>1, OnPidIsOnly DEF Agree
    <3>4. new.of[p] = store.of[p]
      BY <1>1, <1>2, <2>3
    <3> QED BY <2>1, <3>2, <3>3, <3>4
  <2> QED BY <2>2, <2>3
<1> QED BY <1>4, <1>6 DEF Agree

(* replaceStream() with packets of the PID is such an addition to the store
   without the stream. *)
LEMMA ReplacedAgrees ==
  ASSUME NEW store \in StoreType, Agree(store), NEW pid \in Pids,
         NEW by \in Makers, NEW count \in Nat
  PROVE  OnePidMore(Removed(store, pid),
                    Replaced(store, pid, Packets(pid, by, count)), pid,
                    Packets(pid, by, count))
BY RemovedAgrees, AddedToOnePid DEF Replaced

(* getUnusedPID() finds a PID without packets if there is one. *)
LEMMA UnusedPidFree ==
  ASSUME NEW store \in StoreType, NEW low \in Nat,
         \E p \in Pids : p >= low /\ Size(store, p) = 0
  PROVE  /\ UnusedPid(store, low) \in Pids
         /\ UnusedPid(store, low) >= low
         /\ store.of[UnusedPid(store, low)] = <<>>
<1> DEFINE unused == {p \in Pids : p >= low /\ Size(store, p) = 0}
<1>1. unused # {} /\ unused \subseteq Nat
  BY MaxPidAssumption DEF Pids
<1>2. \E p \in unused : \A q \in unused : p =< q
  <2> HIDE DEF unused
  <2> QED BY <1>1, LeastElement
<1>3. UnusedPid(store, low) \in unused
  <2>1. UnusedPid(store, low) = CHOOSE p \in unused : \A q \in unused : p =< q
    BY <1>1 DEF UnusedPid
  <2> HIDE DEF unused
  <2> QED BY <1>2, <2>1
<1>4. \A p \in unused : store.of[p] = <<>>
  BY DEF Size, StoreType
<1> QED BY <1>3, <1>4

(* What a remuxed video takes: the packets before each of its NALUs are among
   those of the whole video. *)
LEMMA PacketsBeforeGrow ==
  ASSUME NEW v \in Seq([type: Nat, packets: Nat]), NEW k \in 1..(Len(v) + 1)
  PROVE  /\ PacketsBefore(v, k) \in Nat
         /\ PacketsBefore(v, Len(v) + 1) \in Nat
         /\ PacketsBefore(v, k) =< PacketsBefore(v, Len(v) + 1)
<1> DEFINE numbers == [j \in DOMAIN v |-> v[j].packets]
           N == Len(v)
<1>1. N \in Nat /\ \A n \in 1..N : numbers[n] \in Nat
  <2>1. \A n \in 1..N : n \in DOMAIN v /\ v[n] \in [type: Nat, packets: Nat]
    <3> DEFINE X == [type: Nat, packets: Nat]
    <3>1. v \in Seq(X)
      OBVIOUS
    <3> HIDE DEF X
    <3>2. \A n \in 1..N : n \in DOMAIN v /\ v[n] \in X
      BY <3>1
    <3> QED BY <3>2 DEF X
  <2>2. \A n \in 1..N : numbers[n] = v[n].packets
    BY <2>1
  <2>3. N \in Nat
    OBVIOUS
  <2> HIDE DEF numbers, N
  <2> QED BY <2>1, <2>2, <2>3
<1>2. k - 1 \in 0..N /\ (N + 1) - 1 = N
  BY <1>1
<1> HIDE DEF numbers
<1>3. /\ SumOf(numbers, k - 1) \in Nat /\ SumOf(numbers, N) \in Nat
      /\ SumOf(numbers, k - 1) =< SumOf(numbers, N)
  <2> HIDE DEF N
  <2>1. k - 1 \in Nat /\ \A n \in 1..(k - 1) : numbers[n] \in Nat
    BY <1>1, <1>2
  <2> QED BY <1>1, <1>2, <2>1, SumOfNat, SumOfGrows
<1> QED BY <1>2, <1>3 DEF PacketsBefore, numbers, N

\* The PIDs with a place of their own in the file.
Placed == {0, PmtPid, VideoPid, altPid}

(* The loop over all PIDs writes the packets of each PID that has no place of
   its own, all of them and in their order. *)
LEMMA MiscHasTheRest ==
  ASSUME ts \in StoreType, ListsAgree
  PROVE  /\ MiscContent \in Seq(PacketType)
         /\ \A p \in Pids \ Placed : OnPid(MiscContent, p) = ts.of[p]
<1> DEFINE N == MaxPid + 1
           blocks == [j \in 1..N |-> IF j - 1 \in Placed THEN <<>>
                                     ELSE Written(ts, j - 1, 0, -1)]
<1>1. N \in Nat \ {0} /\ \A j \in 1..N : j - 1 \in Pids
  BY MaxPidAssumption DEF Pids
<1>2. ASSUME NEW j \in 1..N
      PROVE  blocks[j] = IF j - 1 \in Placed THEN <<>> ELSE ts.of[j - 1]
  <2>1. ts.of[j - 1] \in Seq(PacketType)
    BY <1>1 DEF StoreType
  <2>2. Written(ts, j - 1, 0, -1) = SubSeq(ts.of[j - 1], 1, Len(ts.of[j - 1]))
    BY <2>1 DEF Written, Size
  <2>3. SubSeq(ts.of[j - 1], 1, Len(ts.of[j - 1])) = ts.of[j - 1]
    BY <2>1
  <2> QED BY <2>2, <2>3
<1>3. blocks \in Seq(Seq(PacketType)) /\ Len(blocks) = N /\ blocks # <<>>
  <2>1. \A j \in 1..N : blocks[j] \in Seq(PacketType)
    BY <1>1, <1>2 DEF StoreType
  <2>2. blocks = [j \in 1..N |-> blocks[j]]
    OBVIOUS
  <2> HIDE DEF blocks
  <2>3. blocks \in [1..N -> Seq(PacketType)]
    BY <2>1, <2>2
  <2>4. blocks \in Seq(Seq(PacketType)) /\ Len(blocks) = N
    BY <1>1, <2>3
  <2> QED BY <1>1, <2>4
<1>4. MiscContent = FlattenSeq(blocks)
  BY DEF MiscContent, Placed
<1> HIDE DEF blocks
<1>5. PICK f : IsFlat(f, PacketType, blocks)
  BY <1>3, FlatFunction
<1>6. /\ f \in [0..N -> Seq(PacketType)] /\ f[0] = <<>>
      /\ \A n \in 1..N : f[n] = f[n - 1] \o blocks[n]
      /\ MiscContent = f[N]
  BY <1>3, <1>4, <1>5 DEF IsFlat
<1>7. MiscContent \in Seq(PacketType)
  BY <1>1, <1>6
<1>8. ASSUME NEW p \in Pids \ Placed
      PROVE  OnPid(MiscContent, p) = ts.of[p]
  <2> DEFINE T == {n \in 0..N : OnPid(f[n], p) = IF p < n THEN ts.of[p]
                                                 ELSE <<>>}
  <2>1. p \in 0..MaxPid /\ ts.of[p] \in Seq(PacketType)
    BY DEF Pids, StoreType
  <2>2. 0 \in T
    BY <1>1, <1>6, <2>1, OnPidOfEmpty
  <2>3. ASSUME NEW n \in 1..N, n - 1 \in T
        PROVE  n \in T
    <3>1. /\ OnPid(f[n - 1], p) = IF p < n - 1 THEN ts.of[p] ELSE <<>>
          /\ f[n - 1] \in Seq(PacketType) /\ blocks[n] \in Seq(PacketType)
          /\ f[n] = f[n - 1] \o blocks[n]
      <4>1. OnPid(f[n - 1], p) = IF p < n - 1 THEN ts.of[p] ELSE <<>>
        BY <2>3
      <4>2. n - 1 \in 0..N
        BY <1>1
      <4>3. f[n - 1] \in Seq(PacketType)
        BY <4>2, <1>6, Zenon
      <4>4. blocks[n] \in Seq(PacketType)
        BY <1>3
      <4>5. f[n] = f[n - 1] \o blocks[n]
        BY <1>6
      <4> QED BY <4>1, <4>3, <4>4, <4>5
    <3>2. OnPid(f[n], p) = OnPid(f[n - 1], p) \o OnPid(blocks[n], p)
      <4> DEFINE a == f[n - 1]
                 b == blocks[n]
      <4>1. a \in Seq(PacketType) /\ b \in Seq(PacketType) /\ f[n] = a \o b
        BY <3>1
      <4> HIDE DEF a, b
      <4>2. OnPid(a \o b, p) = OnPid(a, p) \o OnPid(b, p)
        BY <4>1, OnPidOfConcat
      <4> QED BY <4>1, <4>2 DEF a, b
    <3>3. OnPid(blocks[n], p) = IF p = n - 1 THEN ts.of[p] ELSE <<>>
      <4>1. CASE n - 1 \in Placed
        <5>1. blocks[n] = <<>> /\ p # n - 1
          BY <1>2, <4>1
        <5> QED BY <5>1, OnPidOfEmpty
      <4>2. CASE n - 1 \notin Placed
        <5>1. blocks[n] = ts.of[n - 1] /\ n - 1 \in Pids
          BY <1>1, <1>2, <4>2
        <5>2. /\ ts.all \in Seq(PacketType)
              /\ ts.of[n - 1] = Only(ts.all, PacketsOn(n - 1))
          BY <5>1, OnPidIsOnly DEF ListsAgree, StoreType
        <5>3. ToSet(ts.of[n - 1]) \subseteq PacketsOn(n - 1)
          BY <5>2, OnlyElements
        <5>4. \A i \in 1..Len(ts.of[n - 1]) : ts.of[n - 1][i].pid = n - 1
          <6>1. ts.of[n - 1] \in Seq(PacketType)
            BY <5>1 DEF StoreType
          <6>2. \A i \in 1..Len(ts.of[n - 1]) :
                  ts.of[n - 1][i] \in ToSet(ts.of[n - 1])
            BY <6>1 DEF ToSet
          <6> QED BY <5>3, <6>2 DEF PacketsOn
        <5>5. OnPid(ts.of[n - 1], p) = IF p = n - 1 THEN ts.of[n - 1] ELSE <<>>
          <6> DEFINE s == ts.of[n - 1]
                     q == n - 1
          <6>1. s \in Seq(PacketType) /\ \A i \in 1..Len(s) : s[i].pid = q
            BY <5>1, <5>4 DEF StoreType
          <6> HIDE DEF s, q
          <6>2. OnPid(s, p) = IF p = q THEN s ELSE <<>>
            BY <6>1, OnPidOfOnePid
          <6> QED BY <6>2 DEF s, q
        <5> QED BY <5>1, <5>5
      <4> QED BY <4>1, <4>2
    <3>4. ts.of[p] \o <<>> = ts.of[p] /\ <<>> \o ts.of[p] = ts.of[p]
      BY <2>1
    <3>5. OnPid(f[n], p) = IF p < n THEN ts.of[p] ELSE <<>>
      <4>1. CASE p = n - 1
        <5>1. ~(p < n - 1) /\ p < n
          BY <1>1, <2>1, <4>1
        <5>2. OnPid(f[n], p) = <<>> \o ts.of[p]
          BY <3>1, <3>2, <3>3, <4>1, <5>1
        <5> QED BY <3>4, <5>1, <5>2
      <4>2. CASE p # n - 1
        <5>1. p < n - 1 <=> p < n
          BY <1>1, <2>1, <4>2
        <5>2. OnPid(f[n], p) = (IF p < n THEN ts.of[p] ELSE <<>>) \o <<>>
          BY <3>1, <3>2, <3>3, <4>2, <5>1
        <5>3. CASE p < n
          BY <3>4, <5>2, <5>3
        <5>4. CASE ~(p < n)
          <6>1. <<>> \o <<>> = <<>>
            OBVIOUS
          <6> QED BY <5>2, <5>4, <6>1
        <5> QED BY <5>3, <5>4
      <4> QED BY <4>1, <4>2
    <3> QED BY <3>5, <1>1
  <2>4. 0..N \subseteq T
    <3> HIDE DEF T
    <3> QED BY <1>1, <2>2, <2>3, BoundedInduction
  <2>5. N \in 0..N /\ p < N
    BY <2>1, MaxPidAssumption
  <2> QED BY <1>6, <2>4, <2>5
<1> QED BY <1>7, <1>8

-----------------------------------------------------------------------------
(* The invariant *)

\* From FindTables to the end of the output.
Searching == {"encode", "compare", "make"}
Making == {"remux", "remuxAlternate", "strip", "write"}

\* Both tables can be written, and no packet of the alternate video is on
\* the PID of another stream of the output.
PidsApart ==
  /\ Size(ts, 0) > 0 /\ Size(ts, PmtPid) > 0
  /\ altPid >= LowestAlternate /\ altPid # PmtPid

\* What is on the PID of the alternate video, between the steps that put
\* something there.
AltPidUsed ==
  /\ pc = "start" => \E p \in Pids : p >= LowestAlternate /\ Size(ts, p) = 0
  /\ pc \in Searching \cup Making => PidsApart
  /\ pc \in {"encode", "make"} => ts.of[altPid] = <<>>
  /\ pc \in {"compare"} \cup Making => altPid # VideoPid

\* What the search knows of the trial encoding it is about to judge.
TrialKnown ==
  /\ sizes \in [0..MaxQuality -> Nat]
  /\ pc = "start" => /\ search.lower = 0 /\ search.upper = MaxQuality
                     /\ guessed = -1
  /\ pc \in {"encode", "compare"} => guessed = -1
  /\ pc = "compare" =>
       /\ search.mid = search.lower + ((search.upper - search.lower) \div 2)
       /\ Size(ts, altPid) = sizes[search.mid]

\* A remuxed video is what is on its PID.
VideoOnPid == Size(ts, VideoPid) = PacketsBefore(video, Len(video) + 1)
VideosKnown ==
  /\ video \in Seq([type: Nat, packets: Nat])
  /\ alternate \in Seq([type: Nat, packets: Nat])
  /\ pc \in {"remuxAlternate", "strip", "write"} => VideoOnPid

\* A file that is there was written from what there still is, and is all of
\* it unless the disk did not take it.
FileKnown ==
  /\ pc # "done" => disk = NoFile
  /\ pc = "done" =>
       \/ disk = NoFile
       \/ /\ PidsApart /\ altPid # VideoPid /\ VideoOnPid
          /\ header = [misc |-> StatedMisc, keep |-> Keep(video),
                       total |-> StatedTotal, altKeep |-> Keep(alternate)]
          /\ AllTaken => disk = Content

RecodeInv ==
  /\ TypeOK /\ ListsAgree /\ Bracketed /\ AlternateAlone
  /\ AltPidUsed /\ TrialKnown /\ VideosKnown /\ FileKnown

LEMMA ConstantsAre ==
  /\ {0, PmtPid, VideoPid, SdtPid, NullPid} \subseteq Pids
  /\ Pids \subseteq Nat
  /\ LowestAlternate \in Nat \ {0} /\ SdtPid < LowestAlternate
  /\ WordMod \in Nat \ {0} /\ MaxQuality \in Nat \ {0}
  /\ PmtPid # 0 /\ VideoPid # 0 /\ SdtPid # 0
  /\ VideoPid # PmtPid /\ VideoPid # SdtPid /\ PmtPid # SdtPid
BY MaxPidAssumption, RecodeAssumption DEF Pids

LEMMA RecodeInvInit == Init => RecodeInv
<1> SUFFICES ASSUME Init PROVE RecodeInv  OBVIOUS
<1>1. PICK s \in Inputs :
        ts = AddedAll(EmptyStore, [n \in 1..Len(s) |-> Packet(s[n], "input", n)])
  BY DEF Init
<1>2. s \in Seq(Pids) /\ \E p \in Pids \ ToSet(s) : p >= LowestAlternate
  BY RecodeAssumption
<1> DEFINE packets == [n \in 1..Len(s) |-> Packet(s[n], "input", n)]
<1>3. packets \in Seq(PacketType)
  <2>1. \A n \in 1..Len(s) : s[n] \in Pids /\ n \in Nat
    BY <1>2
  <2>4. ASSUME NEW pid \in Pids, NEW by \in Makers, NEW n \in Nat
        PROVE  Packet(pid, by, n) \in PacketType
    BY DEF Packet, PacketType
  <2>5. "input" \in Makers
    BY DEF Makers
  <2>2. \A n \in 1..Len(s) : packets[n] \in PacketType
    BY <2>1, <2>4, <2>5
  <2>3. Len(s) \in Nat
    BY <1>2
  <2> QED BY <2>2, <2>3
<1>4. EmptyStore \in StoreType /\ Agree(EmptyStore)
  <2>1. EmptyStore \in StoreType
    BY DEF EmptyStore, StoreType
  <2> QED BY <2>1, OnPidOfEmpty DEF EmptyStore, Agree
<1>5. ts = Extended(EmptyStore, packets)
  <2> HIDE DEF packets
  <2> QED BY <1>1, <1>3, <1>4, AddedAllExtends DEF packets
<1>6. ts \in StoreType
  <2> HIDE DEF packets
  <2> QED BY <1>3, <1>4, <1>5, ExtendedInType
<1>7. ListsAgree
  <2>1. Agree(AddedAll(EmptyStore, packets))
    <3> HIDE DEF packets
    <3> QED BY <1>3, <1>4, AddedAllAgrees
  <2> QED BY <1>1, <2>1 DEF Agree, ListsAgree
<1>8. \E p \in Pids : p >= LowestAlternate /\ Size(ts, p) = 0
  <2>1. PICK p \in Pids \ ToSet(s) : p >= LowestAlternate
    BY <1>2
  <2>2. ToSet(packets) \cap PacketsOn(p) = {}
    <3>1. ASSUME NEW n \in 1..Len(s) PROVE packets[n].pid # p
      <4>1. s[n] \in ToSet(s)
        BY <1>2 DEF ToSet
      <4> QED BY <2>1, <4>1 DEF Packet
    <3> QED BY <3>1 DEF ToSet, PacketsOn
  <2>3. OnPid(packets, p) = <<>>
    <3> HIDE DEF packets
    <3> QED BY <1>3, <2>2, OnPidIsOnly, OnlyOfNone
  <2>4. ts.of[p] = <<>> \o OnPid(packets, p)
    <3> HIDE DEF packets
    <3> QED BY <1>5 DEF Extended, EmptyStore
  <2> QED BY <2>1, <2>3, <2>4 DEF Size
<1>9. TypeOK
  BY <1>6, ConstantsAre DEF Init, TypeOK
<1>10. Bracketed /\ AlternateAlone
  BY DEF Init, Bracketed, AlternateAlone
<1>11. AltPidUsed /\ FileKnown
  BY <1>8 DEF Init, AltPidUsed, FileKnown, Searching, Making
<1>12. TrialKnown /\ VideosKnown
  BY RecodeAssumption DEF Init, TrialKnown, VideosKnown
<1> QED BY <1>7, <1>9, <1>10, <1>11, <1>12 DEF RecodeInv

(* Steps that change nothing but where the program is and what it returns. *)
LEMMA QuietStep ==
  ASSUME RecodeInv,
         UNCHANGED <<sizes, option, ts, altPid, search, guessed, video,
                     alternate, header, disk>>,
         ret' \in {-2, 1, 3, 11} \cup -WordMod..0,
         \/ pc # "done" /\ pc' = "done"
         \/ pc = "encode" /\ pc' = "make"
  PROVE  RecodeInv'
<1>1. TypeOK' /\ ListsAgree'
  BY DEF RecodeInv, TypeOK, ListsAgree
<1>2. Bracketed' /\ AlternateAlone'
  BY DEF RecodeInv, Bracketed, AlternateAlone, Size
<1>3. AltPidUsed' /\ TrialKnown'
  BY DEF RecodeInv, AltPidUsed, TrialKnown, Searching, Making, PidsApart, Size
<1>4. VideosKnown'
  BY DEF RecodeInv, VideosKnown
<1>5. FileKnown'
  BY DEF RecodeInv, FileKnown, AllTaken
<1> QED BY <1>1, <1>2, <1>3, <1>4, <1>5 DEF RecodeInv

LEMMA FindTablesStep == RecodeInv /\ FindTables => RecodeInv'
<1> SUFFICES ASSUME RecodeInv, FindTables PROVE RecodeInv'  OBVIOUS
<1>1. ts \in StoreType /\ \E p \in Pids : p >= LowestAlternate /\ Size(ts, p) = 0
  BY DEF RecodeInv, TypeOK, AltPidUsed, FindTables
<1>2. altPid' \in Pids /\ altPid' >= LowestAlternate /\ ts.of[altPid'] = <<>>
  BY <1>1, UnusedPidFree, ConstantsAre DEF FindTables
<1>3. pc = "start" /\ pc' \in {"encode", "make"}
      /\ UNCHANGED <<sizes, option, ts, search, guessed, video, alternate,
                     header, disk, ret>>
  BY DEF FindTables
<1>4. TypeOK' /\ ListsAgree'
  BY <1>2, <1>3 DEF RecodeInv, TypeOK, ListsAgree
<1>5. Bracketed' /\ AlternateAlone'
  BY <1>3 DEF RecodeInv, TrialKnown, Bracketed, AlternateAlone
<1>6. PidsApart'
  <2>1. Size(ts, 0) > 0 /\ Size(ts, PmtPid) > 0
    BY DEF FindTables
  <2>2. altPid' # PmtPid
    BY <1>2, <2>1 DEF Size
  <2> QED BY <1>2, <1>3, <2>1, <2>2 DEF PidsApart, Size
<1>7. AltPidUsed' /\ TrialKnown' /\ VideosKnown'
  BY <1>2, <1>3, <1>6
  DEF RecodeInv, AltPidUsed, TrialKnown, VideosKnown, Searching, Making
<1>8. FileKnown'
  BY <1>3 DEF RecodeInv, FileKnown
<1> QED BY <1>4, <1>5, <1>7, <1>8 DEF RecodeInv

LEMMA EncodeStep == RecodeInv /\ Encode => RecodeInv'
<1> SUFFICES ASSUME RecodeInv, Encode PROVE RecodeInv'  OBVIOUS
<1> DEFINE mid == search.lower + ((search.upper - search.lower) \div 2)
           trial == Packets(altPid, "trial", sizes[mid])
<1>1. /\ pc = "encode" /\ pc' = "compare" /\ Size(ts, VideoPid) > 0
      /\ search' = [search EXCEPT !.mid = mid]
      /\ ts' = AddedAll(ts, trial)
      /\ UNCHANGED <<sizes, option, altPid, guessed, video, alternate, header,
                     disk, ret>>
  BY DEF Encode
<1>2. /\ ts \in StoreType /\ Agree(ts) /\ altPid \in Pids
      /\ ts.of[altPid] = <<>>
  BY <1>1 DEF RecodeInv, TypeOK, ListsAgree, Agree, AltPidUsed
<1>3. /\ search \in [lower: 0..MaxQuality, upper: 0..MaxQuality,
                     mid: 0..MaxQuality]
      /\ search.lower < search.upper
  BY DEF RecodeInv, TypeOK
<1>4. mid \in 0..MaxQuality
  BY <1>3, ConstantsAre
<1>5. sizes[mid] \in Nat
  BY <1>4 DEF RecodeInv, TrialKnown
<1> HIDE DEF mid
<1>6. OnePidMore(ts, ts', altPid, trial)
  <2>1. "trial" \in Makers
    BY DEF Makers
  <2> QED BY <1>1, <1>2, <1>5, <2>1, AddedToOnePid
<1>7. ts'.of[altPid] = trial /\ Len(trial) = sizes[mid]
  <2>1. trial \in Seq(PacketType) /\ Len(trial) = sizes[mid]
    BY <1>2, <1>5, PacketsAre DEF Makers
  <2> HIDE DEF trial
  <2>2. <<>> \o trial = trial
    BY <2>1
  <2> QED BY <1>2, <1>6, <2>1, <2>2 DEF OnePidMore
<1> HIDE DEF trial
<1>8. altPid # VideoPid /\ altPid # PmtPid /\ altPid # 0
  BY <1>1, <1>2, ConstantsAre
  DEF Size, RecodeInv, AltPidUsed, Searching, PidsApart
<1>9. /\ ts' \in StoreType /\ Agree(ts')
      /\ \A p \in {0, PmtPid, VideoPid} : ts'.of[p] = ts.of[p]
  BY <1>6, <1>8, ConstantsAre DEF OnePidMore
<1>10. /\ search'.lower = search.lower /\ search'.upper = search.upper
       /\ search'.mid = mid
       /\ search' \in [lower: 0..MaxQuality, upper: 0..MaxQuality,
                       mid: 0..MaxQuality]
  BY <1>1, <1>3, <1>4
<1>11. TypeOK'
  BY <1>1, <1>3, <1>9, <1>10 DEF RecodeInv, TypeOK
<1>12. ListsAgree'
  BY <1>9 DEF ListsAgree, Agree
<1>13. Bracketed' /\ AlternateAlone'
  BY <1>1, <1>9, <1>10
  DEF RecodeInv, TrialKnown, Bracketed, AlternateAlone, Size
<1>14. AltPidUsed'
  BY <1>1, <1>8, <1>9
  DEF RecodeInv, AltPidUsed, Searching, Making, PidsApart, Size
<1>15. TrialKnown'
  BY <1>1, <1>7, <1>10 DEF RecodeInv, TrialKnown, Size, mid
<1>16. VideosKnown' /\ FileKnown'
  BY <1>1 DEF RecodeInv, VideosKnown, FileKnown
<1> QED BY <1>11, <1>12, <1>13, <1>14, <1>15, <1>16 DEF RecodeInv

(* Both ends of a trial encoding remove it. *)
LEMMA TrialRemoved ==
  ASSUME RecodeInv, pc = "compare"
  PROVE  LET new == Removed(ts, altPid)
         IN  /\ new \in StoreType /\ Agree(new)
             /\ new.of[altPid] = <<>>
             /\ \A p \in {0, PmtPid, VideoPid} : new.of[p] = ts.of[p]
<1>1. ts \in StoreType /\ Agree(ts) /\ altPid \in Pids
  BY DEF RecodeInv, TypeOK, ListsAgree, Agree
<1>2. altPid # VideoPid /\ altPid # PmtPid /\ altPid # 0
  <2>1. PidsApart /\ altPid # VideoPid
    BY DEF RecodeInv, AltPidUsed, Searching
  <2>2. altPid \in Nat /\ altPid >= LowestAlternate /\ altPid # PmtPid
    BY <1>1, <2>1, ConstantsAre DEF PidsApart
  <2> QED BY <2>1, <2>2, ConstantsAre
<1>3. Removed(ts, altPid).of = [ts.of EXCEPT ![altPid] = <<>>]
  BY DEF Removed
<1>4. ts.of \in [Pids -> Seq(PacketType)]
  BY <1>1 DEF StoreType
<1> QED BY <1>1, <1>2, <1>3, <1>4, RemovedAgrees, ConstantsAre

LEMMA CompareStep == RecodeInv /\ Compare => RecodeInv'
<1> SUFFICES ASSUME RecodeInv, Compare PROVE RecodeInv'  OBVIOUS
<1>1. /\ pc = "compare" /\ pc' = "encode"
      /\ search.upper - search.lower > 1
      /\ search' = IF Size(ts, altPid) > Size(ts, VideoPid)
                   THEN [search EXCEPT !.lower = search.mid]
                   ELSE [search EXCEPT !.upper = search.mid]
      /\ ts' = Removed(ts, altPid)
      /\ UNCHANGED <<sizes, option, altPid, guessed, video, alternate, header,
                     disk, ret>>
  BY DEF Compare
<1>2. /\ ts' \in StoreType /\ Agree(ts') /\ ts'.of[altPid] = <<>>
      /\ \A p \in {0, PmtPid, VideoPid} : ts'.of[p] = ts.of[p]
  BY <1>1, TrialRemoved
<1>3. /\ search \in [lower: 0..MaxQuality, upper: 0..MaxQuality,
                     mid: 0..MaxQuality]
      /\ search.mid = search.lower + ((search.upper - search.lower) \div 2)
      /\ Size(ts, altPid) = sizes[search.mid]
  BY <1>1 DEF RecodeInv, TypeOK, TrialKnown
<1>4. search.lower < search.mid /\ search.mid < search.upper
  BY <1>1, <1>3, ConstantsAre
<1>5. /\ search' \in [lower: 0..MaxQuality, upper: 0..MaxQuality,
                      mid: 0..MaxQuality]
      /\ search'.lower < search'.upper
  BY <1>1, <1>3, <1>4, SMTT(30)
<1>6. Size(ts, VideoPid) \in Nat /\ sizes[search.mid] \in Nat
  <2>1. ts.of[VideoPid] \in Seq(PacketType)
    BY ConstantsAre DEF RecodeInv, TypeOK, StoreType
  <2>2. Size(ts, VideoPid) \in Nat
    BY <2>1 DEF Size
  <2>3. sizes \in [0..MaxQuality -> Nat] /\ search.mid \in 0..MaxQuality
    BY <1>3, ConstantsAre DEF RecodeInv, TypeOK, TrialKnown
  <2> QED BY <2>2, <2>3
<1>7. Size(ts', VideoPid) = Size(ts, VideoPid)
  BY <1>2 DEF Size
<1>8. Bracketed'
  <2>1. /\ search.lower = 0 \/ sizes[search.lower] > Size(ts, VideoPid)
        /\ search.upper = MaxQuality \/ sizes[search.upper] =< Size(ts, VideoPid)
        /\ guessed = -1
    BY <1>1 DEF RecodeInv, Bracketed, TrialKnown
  <2>2. CASE Size(ts, altPid) > Size(ts, VideoPid)
    <3>1. search'.lower = search.mid /\ search'.upper = search.upper
      BY <1>1, <1>3, <2>2
    <3> QED BY <1>1, <1>3, <1>7, <2>1, <2>2, <3>1 DEF Bracketed
  <2>3. CASE ~(Size(ts, altPid) > Size(ts, VideoPid))
    <3>1. search'.upper = search.mid /\ search'.lower = search.lower
      BY <1>1, <1>3, <2>3
    <3> QED BY <1>1, <1>3, <1>6, <1>7, <2>1, <2>3, <3>1 DEF Bracketed
  <2> QED BY <2>2, <2>3
<1>9. TypeOK'
  BY <1>1, <1>2, <1>5 DEF RecodeInv, TypeOK
<1>10. ListsAgree' /\ AlternateAlone'
  BY <1>1, <1>2 DEF ListsAgree, Agree, AlternateAlone
<1>11. AltPidUsed'
  BY <1>1, <1>2 DEF RecodeInv, AltPidUsed, Searching, Making, PidsApart, Size
<1>12. TrialKnown' /\ VideosKnown' /\ FileKnown'
  BY <1>1 DEF RecodeInv, TrialKnown, VideosKnown, FileKnown
<1> QED BY <1>8, <1>9, <1>10, <1>11, <1>12 DEF RecodeInv

LEMMA GuessedStep == RecodeInv /\ Guessed => RecodeInv'
<1> SUFFICES ASSUME RecodeInv, Guessed PROVE RecodeInv'  OBVIOUS
<1>1. /\ pc = "compare" /\ pc' = "make"
      /\ search.upper - search.lower =< 1
      /\ guessed' = search.mid
      /\ ts' = Removed(ts, altPid)
      /\ UNCHANGED <<sizes, option, altPid, search, video, alternate, header,
                     disk, ret>>
  BY DEF Guessed
<1>2. /\ ts' \in StoreType /\ Agree(ts') /\ ts'.of[altPid] = <<>>
      /\ \A p \in {0, PmtPid, VideoPid} : ts'.of[p] = ts.of[p]
  BY <1>1, TrialRemoved
<1>3. /\ search \in [lower: 0..MaxQuality, upper: 0..MaxQuality,
                     mid: 0..MaxQuality]
      /\ search.lower < search.upper
      /\ search.mid = search.lower + ((search.upper - search.lower) \div 2)
  BY <1>1 DEF RecodeInv, TypeOK, TrialKnown
<1>4. search.upper = search.lower + 1 /\ search.mid = search.lower
  BY <1>1, <1>3, ConstantsAre
<1>5. guessed' \in -1..MaxQuality
  BY <1>1, <1>3, ConstantsAre
<1>6. TypeOK'
  BY <1>1, <1>2, <1>5 DEF RecodeInv, TypeOK
<1>7. Bracketed'
  <2>1. Size(ts', VideoPid) = Size(ts, VideoPid)
    BY <1>2 DEF Size
  <2>2. /\ search.lower = 0 \/ sizes[search.lower] > Size(ts, VideoPid)
        /\ search.upper = MaxQuality \/ sizes[search.upper] =< Size(ts, VideoPid)
    BY <1>1 DEF RecodeInv, Bracketed
  <2> QED BY <1>1, <1>4, <2>1, <2>2 DEF Bracketed
<1>8. ListsAgree' /\ AlternateAlone'
  BY <1>1, <1>2 DEF ListsAgree, Agree, AlternateAlone
<1>9. AltPidUsed'
  BY <1>1, <1>2 DEF RecodeInv, AltPidUsed, Searching, Making, PidsApart, Size
<1>10. TrialKnown' /\ VideosKnown' /\ FileKnown'
  BY <1>1 DEF RecodeInv, TrialKnown, VideosKnown, FileKnown
<1> QED BY <1>6, <1>7, <1>8, <1>9, <1>10 DEF RecodeInv

LEMMA MakeAlternateStep ==
  \A count \in {1, 2} : RecodeInv /\ MakeAlternate(count) => RecodeInv'
<1> SUFFICES ASSUME NEW count \in {1, 2}, RecodeInv, MakeAlternate(count)
             PROVE  RecodeInv'
  OBVIOUS
<1> DEFINE made == Packets(altPid, "alternate", count)
<1>1. /\ pc = "make" /\ pc' = "remux" /\ Size(ts, VideoPid) > 0
      /\ ts' = AddedAll(ts, made)
      /\ UNCHANGED <<sizes, option, altPid, search, guessed, video, alternate,
                     header, disk, ret>>
  BY DEF MakeAlternate
<1>2. /\ ts \in StoreType /\ Agree(ts) /\ altPid \in Pids
      /\ ts.of[altPid] = <<>>
  BY <1>1 DEF RecodeInv, TypeOK, ListsAgree, Agree, AltPidUsed
<1>3. /\ made \in Seq(PacketType) /\ Len(made) = count
      /\ \A n \in 1..count : made[n].by = "alternate"
  <2>1. "alternate" \in Makers /\ count \in Nat
    BY DEF Makers
  <2> QED BY <1>2, <2>1, PacketsAre, SMTT(30)
<1>4. OnePidMore(ts, ts', altPid, made)
  <2>1. "alternate" \in Makers /\ count \in Nat
    BY DEF Makers
  <2> QED BY <1>1, <1>2, <2>1, AddedToOnePid
<1> HIDE DEF made
<1>5. ts'.of[altPid] = made
  <2>1. <<>> \o made = made
    BY <1>3
  <2> QED BY <1>2, <1>4, <2>1 DEF OnePidMore
<1>6. altPid # VideoPid /\ altPid # PmtPid /\ altPid # 0
  BY <1>1, <1>2, ConstantsAre
  DEF Size, RecodeInv, AltPidUsed, Searching, PidsApart
<1>7. /\ ts' \in StoreType /\ Agree(ts')
      /\ \A p \in {0, PmtPid, VideoPid} : ts'.of[p] = ts.of[p]
  BY <1>4, <1>6, ConstantsAre DEF OnePidMore
<1>8. TypeOK'
  BY <1>1, <1>7 DEF RecodeInv, TypeOK
<1>9. ListsAgree'
  BY <1>7 DEF ListsAgree, Agree
<1>10. Bracketed'
  BY <1>1 DEF Bracketed
<1>11. AlternateAlone'
  BY <1>1, <1>3, <1>5 DEF AlternateAlone, Size
<1>12. AltPidUsed'
  BY <1>1, <1>6, <1>7
  DEF RecodeInv, AltPidUsed, Searching, Making, PidsApart, Size
<1>13. TrialKnown' /\ VideosKnown' /\ FileKnown'
  BY <1>1 DEF RecodeInv, TrialKnown, VideosKnown, FileKnown
<1> QED BY <1>8, <1>9, <1>10, <1>11, <1>12, <1>13 DEF RecodeInv

(* A remuxed video is all there is on its PID. *)
LEMMA RemuxedAlone ==
  ASSUME RecodeInv, NEW pid \in Pids,
         NEW v \in Seq([type: Nat, packets: Nat])
  PROVE  /\ Remuxed(pid, v) \in StoreType
         /\ Agree(Remuxed(pid, v))
         /\ Size(Remuxed(pid, v), pid) = PacketsBefore(v, Len(v) + 1)
         /\ \A p \in Pids \ {pid} : Remuxed(pid, v).of[p] = ts.of[p]
<1> DEFINE count == PacketsBefore(v, Len(v) + 1)
           made == Packets(pid, "remux", count)
           left == Removed(ts, pid)
           new == Replaced(ts, pid, made)
<1>1. ts \in StoreType /\ Agree(ts)
  BY DEF RecodeInv, TypeOK, ListsAgree, Agree
<1>2. count \in Nat
  <2>1. Len(v) + 1 \in 1..(Len(v) + 1)
    <3> DEFINE X == [type: Nat, packets: Nat]
    <3>1. v \in Seq(X)
      OBVIOUS
    <3> HIDE DEF X
    <3>2. Len(v) \in Nat
      BY <3>1
    <3> QED BY <3>2
  <2> QED BY <2>1, PacketsBeforeGrow
<1>3. Remuxed(pid, v) = new
  BY DEF Remuxed
<1> HIDE DEF count
<1>4. "remux" \in Makers
  BY DEF Makers
<1>5. OnePidMore(left, new, pid, made)
  BY <1>1, <1>2, <1>4, ReplacedAgrees
<1>6. made \in Seq(PacketType) /\ Len(made) = count
  BY <1>2, <1>4, PacketsAre
<1>7. left.of = [ts.of EXCEPT ![pid] = <<>>]
  BY DEF Removed
<1>8. left.of[pid] = <<>> /\ \A p \in Pids \ {pid} : left.of[p] = ts.of[p]
  BY <1>1, <1>7 DEF StoreType
<1> HIDE DEF made, left, new
<1>9. <<>> \o made = made
  BY <1>6
<1>10. /\ new \in StoreType /\ Agree(new) /\ new.of[pid] = made
       /\ \A p \in Pids \ {pid} : new.of[p] = ts.of[p]
  BY <1>5, <1>8, <1>9 DEF OnePidMore
<1> QED BY <1>3, <1>6, <1>10 DEF Size, count

LEMMA RemuxVideoStep == RecodeInv /\ RemuxVideo => RecodeInv'
<1> SUFFICES ASSUME RecodeInv, RemuxVideo PROVE RecodeInv'  OBVIOUS
<1>1. /\ pc = "remux" /\ pc' = "remuxAlternate" /\ video' \in Videos
      /\ ts' = Remuxed(VideoPid, video')
      /\ UNCHANGED <<sizes, option, altPid, search, guessed, alternate, header,
                     disk, ret>>
  BY DEF RemuxVideo
<1>2. video' \in Seq([type: Nat, packets: Nat])
  BY <1>1, RecodeAssumption
<1>3. /\ ts' \in StoreType /\ Agree(ts')
      /\ Size(ts', VideoPid) = PacketsBefore(video', Len(video') + 1)
      /\ \A p \in Pids \ {VideoPid} : ts'.of[p] = ts.of[p]
  BY <1>1, <1>2, RemuxedAlone, ConstantsAre
<1>4. TypeOK'
  BY <1>1, <1>3 DEF RecodeInv, TypeOK
<1>5. ListsAgree' /\ Bracketed' /\ AlternateAlone'
  BY <1>1, <1>3 DEF ListsAgree, Agree, Bracketed, AlternateAlone
<1>6. AltPidUsed'
  BY <1>1, <1>3, ConstantsAre
  DEF RecodeInv, AltPidUsed, Searching, Making, PidsApart, Size
<1>7. VideosKnown'
  <2>1. VideoOnPid'
    BY <1>3 DEF VideoOnPid, Size, PacketsBefore
  <2> QED BY <1>1, <1>2, <2>1 DEF RecodeInv, VideosKnown
<1>8. TrialKnown' /\ FileKnown'
  BY <1>1 DEF RecodeInv, TrialKnown, FileKnown
<1> QED BY <1>4, <1>5, <1>6, <1>7, <1>8 DEF RecodeInv

LEMMA RemuxAlternateStep == RecodeInv /\ RemuxAlternate => RecodeInv'
<1> SUFFICES ASSUME RecodeInv, RemuxAlternate PROVE RecodeInv'  OBVIOUS
<1>1. /\ pc = "remuxAlternate" /\ pc' = "strip" /\ alternate' \in Alternates
      /\ ts' = Remuxed(altPid, alternate')
      /\ UNCHANGED <<sizes, option, altPid, search, guessed, video, header,
                     disk, ret>>
  BY DEF RemuxAlternate
<1>2. alternate' \in Seq([type: Nat, packets: Nat])
  BY <1>1, RecodeAssumption
<1>3. altPid \in Pids \ {0, PmtPid, VideoPid}
  BY <1>1, ConstantsAre
  DEF RecodeInv, TypeOK, AltPidUsed, Making, PidsApart
<1>4. /\ ts' \in StoreType /\ Agree(ts')
      /\ \A p \in Pids \ {altPid} : ts'.of[p] = ts.of[p]
  BY <1>1, <1>2, <1>3, RemuxedAlone
<1>5. TypeOK'
  BY <1>1, <1>4 DEF RecodeInv, TypeOK
<1>6. ListsAgree' /\ Bracketed' /\ AlternateAlone'
  BY <1>1, <1>4 DEF ListsAgree, Agree, Bracketed, AlternateAlone
<1>7. AltPidUsed'
  BY <1>1, <1>3, <1>4, ConstantsAre
  DEF RecodeInv, AltPidUsed, Searching, Making, PidsApart, Size
<1>8. VideosKnown'
  <2>1. ts'.of[VideoPid] = ts.of[VideoPid]
    BY <1>3, <1>4, ConstantsAre
  <2>2. VideoOnPid'
    BY <1>1, <2>1 DEF RecodeInv, VideosKnown, VideoOnPid, Size, PacketsBefore
  <2> QED BY <1>1, <1>2, <2>2 DEF RecodeInv, VideosKnown
<1>9. TrialKnown' /\ FileKnown'
  BY <1>1 DEF RecodeInv, TrialKnown, FileKnown
<1> QED BY <1>5, <1>6, <1>7, <1>8, <1>9 DEF RecodeInv

LEMMA StripSdtStep == RecodeInv /\ StripSdt => RecodeInv'
<1> SUFFICES ASSUME RecodeInv, StripSdt PROVE RecodeInv'  OBVIOUS
<1>1. /\ pc = "strip" /\ pc' = "write" /\ ts' = Removed(ts, SdtPid)
      /\ UNCHANGED <<sizes, option, altPid, search, guessed, video, alternate,
                     header, disk, ret>>
  BY DEF StripSdt
<1>2. ts \in StoreType /\ Agree(ts)
  BY DEF RecodeInv, TypeOK, ListsAgree, Agree
<1>3. ts' \in StoreType /\ Agree(ts')
  BY <1>1, <1>2, RemovedAgrees, ConstantsAre
<1>4. \A p \in Pids \ {SdtPid} : ts'.of[p] = ts.of[p]
  BY <1>1, <1>2 DEF Removed, StoreType
<1>5. TypeOK'
  BY <1>1, <1>3 DEF RecodeInv, TypeOK
<1>6. ListsAgree' /\ Bracketed' /\ AlternateAlone'
  BY <1>1, <1>3 DEF ListsAgree, Agree, Bracketed, AlternateAlone
<1>7. AltPidUsed'
  BY <1>1, <1>4, ConstantsAre
  DEF RecodeInv, AltPidUsed, Searching, Making, PidsApart, Size
<1>8. VideosKnown'
  <2>1. ts'.of[VideoPid] = ts.of[VideoPid]
    BY <1>4, ConstantsAre
  <2>2. VideoOnPid'
    BY <1>1, <2>1 DEF RecodeInv, VideosKnown, VideoOnPid, Size, PacketsBefore
  <2> QED BY <1>1, <2>2 DEF RecodeInv, VideosKnown
<1>9. TrialKnown' /\ FileKnown'
  BY <1>1 DEF RecodeInv, TrialKnown, FileKnown
<1> QED BY <1>5, <1>6, <1>7, <1>8, <1>9 DEF RecodeInv

LEMMA WrittenInSeq ==
  ASSUME NEW store \in StoreType, NEW pid \in Pids, NEW skip \in Nat,
         NEW count \in Int
  PROVE  Written(store, pid, skip, count) \in Seq(PacketType)
<1> DEFINE s == store.of[pid]
           last == IF count > 0 /\ skip + count < Len(s) THEN skip + count
                   ELSE Len(s)
<1>1. s \in Seq(PacketType)
  BY DEF StoreType
<1>2. Written(store, pid, skip, count) = SubSeq(s, skip + 1, last)
  BY DEF Written, Size
<1> HIDE DEF s
<1>3. last \in Int /\ last =< Len(s)
  BY <1>1
<1> HIDE DEF last
<1> QED BY <1>1, <1>2, <1>3

LEMMA ResultIsNat ==
  ASSUME NEW v \in Seq([type: Nat, packets: Nat])
  PROVE  Result(v) \in Nat
<1> DEFINE end == IFrameEnd([k \in DOMAIN v |-> v[k].type])
<1>1. CASE end \in 1..(Len(v) - 1)
  <2>1. PacketsBefore(v, end) \in Nat
    <3> HIDE DEF end
    <3>1. end \in 1..(Len(v) + 1)
      <4>1. Len(v) \in Nat
        <5> DEFINE X == [type: Nat, packets: Nat]
        <5>1. v \in Seq(X)
          OBVIOUS
        <5> HIDE DEF X
        <5> QED BY <5>1
      <4> QED BY <1>1, <4>1
    <3> QED BY <3>1, PacketsBeforeGrow
  <2>2. Result(v) = PacketsBefore(v, end) * PacketSize + TsHeader + PesHeader
    BY <1>1 DEF Result
  <2> HIDE DEF end
  <2>3. PacketsBefore(v, end) * PacketSize \in Nat
    BY <2>1, ProductIsNat, HeadersAssumption
  <2> QED BY <2>2, <2>3, HeadersAssumption
<1>2. CASE end \notin 1..(Len(v) - 1)
  BY <1>2 DEF Result
<1> QED BY <1>1, <1>2

LEMMA RemainderBelow ==
  ASSUME NEW x \in Int
  PROVE  x % WordMod \in 0..(WordMod - 1)
BY RecodeAssumption

LEMMA RemainderIsSelf ==
  ASSUME NEW x \in 0..(WordMod - 1)
  PROVE  x % WordMod = x
BY RecodeAssumption

LEMMA KeepInRange ==
  ASSUME NEW v \in Seq([type: Nat, packets: Nat])
  PROVE  Keep(v) \in 0..(WordMod - 1)
<1>1. PacketSize \in Nat \ {0}
  BY HeadersAssumption
<1>2. Result(v) \div PacketSize - 1 \in Int
  BY <1>1, ResultIsNat
<1>3. (Result(v) \div PacketSize - 1) * PacketSize \in Int
  BY <1>1, <1>2
<1> QED BY <1>3, RemainderBelow DEF Keep

LEMMA IFramePacketsNat ==
  ASSUME video \in Seq([type: Nat, packets: Nat])
  PROVE  IFramePackets \in Nat
<1>1. PacketSize \in Nat \ {0}
  BY HeadersAssumption
<1>2. Keep(video) \in Int
  BY KeepInRange
<1>3. (Keep(video) + PacketSize - 1) % WordMod \in Nat
  <2>1. Keep(video) + PacketSize - 1 \in Int
    BY <1>1, <1>2
  <2> QED BY <2>1, RemainderBelow
<1>4. ((Keep(video) + PacketSize - 1) % WordMod) \div PacketSize \in Nat
  BY <1>1, <1>3, QuotientIsNat, Zenon
<1> QED BY <1>4 DEF IFramePackets

LEMMA Joined ==
  ASSUME NEW r \in Seq(PacketType), NEW d \in Seq(PacketType)
  PROVE  r \o d \in Seq(PacketType) /\ Len(r \o d) = Len(r) + Len(d)
OBVIOUS

LEMMA ContentInSeq ==
  ASSUME ts \in StoreType, ListsAgree, altPid \in Pids,
         video \in Seq([type: Nat, packets: Nat])
  PROVE  Content \in Seq(PacketType) /\ MagicAt \in DOMAIN Content
<1>1. MiscContent \in Seq(PacketType)
  BY MiscHasTheRest
<1>2. <<MagicPacket>> \in Seq(PacketType)
  <2>1. MagicPacket \in PacketType
    BY ConstantsAre DEF MagicPacket, Packet, PacketType, Makers
  <2> QED BY <2>1
<1>3. \A p \in Pids, n \in Nat, m \in Int : Written(ts, p, n, m) \in Seq(PacketType)
  BY WrittenInSeq
<1>4. IFramePackets \in Nat
  BY IFramePacketsNat
<1> DEFINE a == Written(ts, 0, 0, 1)
           b == Written(ts, PmtPid, 0, 1)
           c == <<MagicPacket>>
           d == MiscContent
           e == Written(ts, VideoPid, 0, IFramePackets)
           f == Written(ts, altPid, 0, -1)
           g == Written(ts, VideoPid, IFramePackets, -1)
<1>5. /\ a \in Seq(PacketType) /\ b \in Seq(PacketType)
      /\ c \in Seq(PacketType) /\ d \in Seq(PacketType)
      /\ e \in Seq(PacketType) /\ f \in Seq(PacketType)
      /\ g \in Seq(PacketType)
  <2>1. 0 \in Nat /\ 1 \in Int /\ -1 \in Int /\ IFramePackets \in Int
    BY <1>4
  <2>2. 0 \in Pids /\ PmtPid \in Pids /\ VideoPid \in Pids
    BY ConstantsAre
  <2> QED BY <1>1, <1>2, <1>3, <1>4, <2>1, <2>2, Zenon
<1>6. /\ Content = a \o b \o c \o d \o e \o f \o g
      /\ MagicAt = Len(a) + Len(b) + 1 /\ Len(c) = 1
  BY DEF Content, MagicAt
<1> HIDE DEF a, b, c, d, e, f, g
<1>7. Content \in Seq(PacketType)
  BY <1>5, <1>6
<1>8. MagicAt \in 1..Len(Content)
  <2>1. Len(Content) = Len(a) + Len(b) + Len(c) + Len(d) + Len(e) + Len(f)
                         + Len(g)
    <3>1. PICK r : r = a \o b \o c
      OBVIOUS
    <3>2. r \in Seq(PacketType) /\ Len(r) = Len(a) + Len(b) + Len(c)
      BY <1>5, <3>1
    <3>3. PICK s : s = r \o d
      OBVIOUS
    <3>4. s \in Seq(PacketType) /\ Len(s) = Len(r) + Len(d)
      BY <1>5, <3>2, <3>3, Joined
    <3>5. PICK t : t = s \o e
      OBVIOUS
    <3>6. t \in Seq(PacketType) /\ Len(t) = Len(s) + Len(e)
      BY <1>5, <3>4, <3>5, Joined
    <3>7. PICK u : u = t \o f
      OBVIOUS
    <3>8. u \in Seq(PacketType) /\ Len(u) = Len(t) + Len(f)
      BY <1>5, <3>6, <3>7, Joined
    <3>9. Content = u \o g /\ Len(u \o g) = Len(u) + Len(g)
      BY <1>5, <1>6, <3>1, <3>3, <3>5, <3>7, <3>8, Joined
    <3> QED BY <3>2, <3>4, <3>6, <3>8, <3>9
  <2>2. /\ Len(a) \in Nat /\ Len(b) \in Nat /\ Len(d) \in Nat
        /\ Len(e) \in Nat /\ Len(f) \in Nat /\ Len(g) \in Nat
    BY <1>5
  <2> QED BY <1>6, <2>1, <2>2
<1> QED BY <1>7, <1>8

LEMMA OutputUnchanged ==
  ASSUME UNCHANGED <<ts, altPid, video, alternate>>
  PROVE  /\ Content' = Content /\ StatedMisc' = StatedMisc
         /\ StatedTotal' = StatedTotal /\ Keep(video)' = Keep(video)
         /\ Keep(alternate)' = Keep(alternate)
BY DEF Content, MiscContent, Written, Size, MagicPacket, IFramePackets, Keep,
       Result, PacketsBefore, StatedMisc, StatedTotal

(* A packet the disk took is the packet that was sent. *)
LEMMA TakenIsSent ==
  ASSUME NEW packet \in PacketType, NEW how \in Outcomes,
         Stored(packet, how).by \in Makers
  PROVE  Stored(packet, how) = packet
<1>1. CASE how = "whole"
  BY <1>1 DEF Stored
<1>2. CASE how \in {"torn", "missing"}
  <2>1. Stored(packet, how).by = how
    BY <1>2 DEF Stored, PacketType
  <2> QED BY <1>2, <2>1 DEF Makers
<1> QED BY <1>1, <1>2 DEF Outcomes

LEMMA WriteOutputStep ==
  \A took \in [DOMAIN Content -> Outcomes] :
    RecodeInv /\ WriteOutput(took) => RecodeInv'
<1> SUFFICES ASSUME NEW took \in [DOMAIN Content -> Outcomes], RecodeInv,
                    WriteOutput(took)
             PROVE  RecodeInv'
  OBVIOUS
<1>1. /\ pc = "write" /\ pc' = "done"
      /\ ret' = IF Reported(took) >= WordMod \div 2
                THEN Reported(took) - WordMod ELSE 0
      /\ header' = [misc |-> StatedMisc, keep |-> Keep(video),
                    total |-> StatedTotal, altKeep |-> Keep(alternate)]
      /\ disk' = [n \in DOMAIN Content |-> Stored(Content[n], took[n])]
      /\ UNCHANGED <<sizes, option, ts, altPid, search, guessed, video,
                     alternate>>
  BY DEF WriteOutput
<1>2. /\ ts \in StoreType /\ ListsAgree /\ altPid \in Pids
      /\ video \in Seq([type: Nat, packets: Nat])
      /\ alternate \in Seq([type: Nat, packets: Nat])
  BY DEF RecodeInv, TypeOK, VideosKnown
<1>3. /\ StatedMisc \in 0..(WordMod - 1) /\ StatedTotal \in 0..(WordMod - 1)
      /\ Keep(video) \in 0..(WordMod - 1) /\ Keep(alternate) \in 0..(WordMod - 1)
  <2>1. Len(MiscContent) * PacketSize \in Int
    BY <1>2, MiscHasTheRest, HeadersAssumption
  <2>2. Size(ts, altPid) * PacketSize \in Int
    BY <1>2, HeadersAssumption DEF Size, StoreType
  <2> QED BY <1>2, <2>1, <2>2, RemainderBelow, KeepInRange
          DEF StatedMisc, StatedTotal
<1>4. TypeOK'
  <2>1. \A f \in DOMAIN header' : header'[f] \in 0..(WordMod - 1)
    BY <1>1, <1>3
  <2>2. ret' \in -WordMod..0
    <3>1. MagicAt \in DOMAIN Content
      BY <1>2, ContentInSeq
    <3>2. took[MagicAt] \in {"whole", "torn", "missing"}
      BY <3>1 DEF Outcomes
    <3>3. [whole |-> PacketSize, torn |-> 1, missing |-> -1][took[MagicAt]] \in Int
      BY <3>2, HeadersAssumption
    <3>4. (Len(Content) - 1) * PacketSize \in Int
      <4>1. Len(Content) \in Nat
        BY <1>2, ContentInSeq
      <4> HIDE DEF Content
      <4> QED BY <4>1, HeadersAssumption
    <3>5. Reported(took) \in 0..(WordMod - 1)
      <4> DEFINE x == (Len(Content) - 1) * PacketSize
                 y == [whole |-> PacketSize, torn |-> 1,
                       missing |-> -1][took[MagicAt]]
      <4>1. Reported(took) = (x + y) % WordMod
        BY DEF Reported
      <4>2. x \in Int /\ y \in Int
        BY <3>3, <3>4
      <4> HIDE DEF x, y
      <4> QED BY <4>1, <4>2, RemainderBelow
    <3> HIDE DEF Reported
    <3> QED BY <1>1, <3>5, ConstantsAre
  <2> QED BY <1>1, <2>1, <2>2 DEF RecodeInv, TypeOK
<1>5. ListsAgree' /\ Bracketed' /\ AlternateAlone'
  BY <1>1, <1>2 DEF ListsAgree, Bracketed, AlternateAlone
<1>6. AltPidUsed' /\ TrialKnown' /\ VideosKnown'
  BY <1>1
  DEF RecodeInv, AltPidUsed, TrialKnown, VideosKnown, Searching, Making
<1>7. AllTaken' => disk' = Content
  <2>1. Content \in Seq(PacketType)
    BY <1>2, ContentInSeq
  <2> HIDE DEF Content
  <2>2. SUFFICES ASSUME AllTaken' PROVE disk' = Content
    OBVIOUS
  <2>3. ASSUME NEW n \in DOMAIN Content
        PROVE  Stored(Content[n], took[n]) = Content[n]
    <3>1. Stored(Content[n], took[n]).by \in Makers
      BY <1>1, <2>2, <2>3 DEF AllTaken
    <3>2. Content[n] \in PacketType /\ took[n] \in Outcomes
      BY <2>1, <2>3
    <3> QED BY <3>1, <3>2, TakenIsSent
  <2>4. Content = [n \in DOMAIN Content |-> Content[n]]
    BY <2>1
  <2> QED BY <1>1, <2>3, <2>4
<1>8. /\ PidsApart /\ altPid # VideoPid /\ VideoOnPid
  BY <1>1 DEF RecodeInv, AltPidUsed, VideosKnown, Making
<1>9. /\ PidsApart' /\ altPid' # VideoPid /\ VideoOnPid'
  BY <1>1, <1>8 DEF PidsApart, VideoOnPid, Size, PacketsBefore
<1>10. /\ Content' = Content /\ StatedMisc' = StatedMisc
       /\ StatedTotal' = StatedTotal /\ Keep(video)' = Keep(video)
       /\ Keep(alternate)' = Keep(alternate)
  BY <1>1, OutputUnchanged
<1>11. FileKnown'
  BY <1>1, <1>7, <1>9, <1>10 DEF FileKnown
<1> QED BY <1>4, <1>5, <1>6, <1>11 DEF RecodeInv

LEMMA RecodeInvNext == RecodeInv /\ [Next]_vars => RecodeInv'
<1> SUFFICES ASSUME RecodeInv, [Next]_vars PROVE RecodeInv'  OBVIOUS
<1>1. ASSUME NEW code \in {1, 3}, CannotStart(code) PROVE RecodeInv'
  BY <1>1, QuietStep DEF CannotStart
<1>2. CASE NoTables
  BY <1>2, QuietStep DEF NoTables, RecodeInv, TypeOK
<1>3. CASE EncodeFails
  BY <1>3, QuietStep DEF EncodeFails, RecodeInv, TypeOK
<1>4. CASE MakeFails
  BY <1>4, QuietStep DEF MakeFails
<1>5. CASE CannotOpen
  BY <1>5, QuietStep DEF CannotOpen
<1>6. CASE UNCHANGED vars
  <2>1. UNCHANGED <<sizes, option, ts, altPid, search, guessed, video,
                    alternate, header, disk, ret, pc>>
    BY <1>6 DEF vars
  <2>2. TypeOK' /\ ListsAgree' /\ Bracketed' /\ AlternateAlone'
    BY <2>1
    DEF RecodeInv, TypeOK, ListsAgree, Bracketed, AlternateAlone, Size
  <2>3. AltPidUsed' /\ TrialKnown'
    BY <2>1
    DEF RecodeInv, AltPidUsed, TrialKnown, Searching, Making, PidsApart, Size
  <2>4. VideoOnPid' <=> VideoOnPid
    BY <2>1 DEF VideoOnPid, Size, PacketsBefore
  <2>5. PidsApart' <=> PidsApart
    BY <2>1 DEF PidsApart, Size
  <2>6. /\ Content' = Content /\ StatedMisc' = StatedMisc
        /\ StatedTotal' = StatedTotal /\ Keep(video)' = Keep(video)
        /\ Keep(alternate)' = Keep(alternate)
    BY <2>1, OutputUnchanged
  <2>7. VideosKnown' /\ FileKnown'
    BY <2>1, <2>4, <2>5, <2>6 DEF RecodeInv, VideosKnown, FileKnown, AllTaken
  <2> QED BY <2>2, <2>3, <2>7 DEF RecodeInv
<1>7. CASE Next
  BY <1>1, <1>2, <1>3, <1>4, <1>5, <1>7, FindTablesStep, EncodeStep,
     CompareStep, GuessedStep, MakeAlternateStep, RemuxVideoStep,
     RemuxAlternateStep, StripSdtStep, WriteOutputStep
  DEF Next, Step
<1> QED BY <1>6, <1>7

LEMMA RecodeInvHolds == Spec => []RecodeInv
<1> QED BY RecodeInvInit, RecodeInvNext, PTL DEF Spec

-----------------------------------------------------------------------------
(* The file *)

(* What writePIDStream() writes when it is asked for all packets, for the
   first one, or for those in front of a packet and behind it. *)
LEMMA WrittenIs ==
  ASSUME NEW store \in StoreType, NEW pid \in Pids,
         NEW n \in Nat, n < Size(store, pid)
  PROVE  /\ Written(store, pid, 0, -1) = store.of[pid]
         /\ Written(store, pid, 0, 1) = <<store.of[pid][1]>>
         /\ n > 0 => Written(store, pid, 0, n) = SubSeq(store.of[pid], 1, n)
         /\ Written(store, pid, n, -1)
              = SubSeq(store.of[pid], n + 1, Len(store.of[pid]))
<1> DEFINE s == store.of[pid]
<1>1. s \in Seq(PacketType) /\ n < Len(s)
  BY DEF StoreType, Size
<1>2. \A skip, count :
        Written(store, pid, skip, count)
          = SubSeq(s, skip + 1, IF count > 0 /\ skip + count < Len(s)
                                THEN skip + count ELSE Len(s))
  BY DEF Written, Size
<1> HIDE DEF s
<1>3. Written(store, pid, 0, -1) = s
  <2>1. Written(store, pid, 0, -1) = SubSeq(s, 1, Len(s))
    BY <1>1, <1>2
  <2> QED BY <1>1, <2>1
<1>4. Written(store, pid, 0, 1) = <<s[1]>>
  <2>1. Written(store, pid, 0, 1) = SubSeq(s, 1, 1)
    <3>1. (IF 1 > 0 /\ 0 + 1 < Len(s) THEN 0 + 1 ELSE Len(s)) = 1 /\ 0 + 1 = 1
      <4> DEFINE l == Len(s)
      <4>1. l \in Nat /\ l > n
        BY <1>1
      <4> HIDE DEF l
      <4>2. (IF 1 > 0 /\ 0 + 1 < l THEN 0 + 1 ELSE l) = 1 /\ 0 + 1 = 1
        BY <4>1
      <4> QED BY <4>2 DEF l
    <3>2. Written(store, pid, 0, 1)
            = SubSeq(s, 0 + 1, IF 1 > 0 /\ 0 + 1 < Len(s) THEN 0 + 1 ELSE Len(s))
      BY <1>2, Zenon
    <3> QED BY <3>1, <3>2
  <2> QED BY <1>1, <2>1
<1>5. n > 0 => Written(store, pid, 0, n) = SubSeq(s, 1, n)
  BY <1>1, <1>2
<1>6. Written(store, pid, n, -1) = SubSeq(s, n + 1, Len(s))
  <2>1. ~(-1 > 0)
    OBVIOUS
  <2> QED BY <1>2, <2>1, Zenon
<1> QED BY <1>3, <1>4, <1>5, <1>6 DEF s

(* Where the first I-frame ends, counted in packets. *)
LEMMA KeepIs ==
  ASSUME NEW v \in Seq([type: Nat, packets: Nat]),
         Result(v) >= 2 * PacketSize,
         PacketsBefore(v, Len(v) + 1) * PacketSize < WordMod
  PROVE  \E n \in Nat \ {0} : /\ n < PacketsBefore(v, Len(v) + 1)
                              /\ Keep(v) = n * PacketSize
<1> DEFINE end == IFrameEnd([k \in DOMAIN v |-> v[k].type])
           before == PacketsBefore(v, end)
           total == PacketsBefore(v, Len(v) + 1)
<1>1. PacketSize \in Nat \ {0} /\ TsHeader + PesHeader \in 0..(PacketSize - 1)
  BY HeadersAssumption
<1>2. Len(v) \in Nat
  <2> DEFINE X == [type: Nat, packets: Nat]
  <2>1. v \in Seq(X)
    OBVIOUS
  <2> HIDE DEF X
  <2> QED BY <2>1
<1>3. end \in 1..(Len(v) - 1)
  <2>1. SUFFICES ASSUME end \notin 1..(Len(v) - 1) PROVE FALSE
    OBVIOUS
  <2>2. Result(v) = 0
    BY <2>1 DEF Result
  <2> QED BY <2>2, <1>1
<1>4. Result(v) = before * PacketSize + TsHeader + PesHeader
  BY <1>3 DEF Result
<1> HIDE DEF end
<1>5. before \in Nat /\ total \in Nat /\ before =< total
  <2>1. end \in 1..(Len(v) + 1)
    BY <1>2, <1>3
  <2> QED BY <2>1, PacketsBeforeGrow
<1> HIDE DEF before, total
<1>6. before * PacketSize \in Nat /\ total * PacketSize \in Nat
  BY <1>1, <1>5, ProductIsNat
<1>7. before >= 2
  <2>1. SUFFICES ASSUME before =< 1 PROVE FALSE
    BY <1>5
  <2>2. before * PacketSize =< 1 * PacketSize
    BY <1>1, <1>5, <2>1, ProductMonotone
  <2>3. before * PacketSize =< PacketSize
    BY <1>1, <2>2
  <2> QED BY <1>1, <1>4, <1>6, <2>3, HeadersAssumption
<1>8. Result(v) \div PacketSize = before
  <2>1. Result(v) = before * PacketSize + (TsHeader + PesHeader)
    BY <1>4, <1>6, HeadersAssumption
  <2> QED BY <1>1, <1>5, <2>1, DivWhole
<1>9. (before - 1) * PacketSize \in 0..(WordMod - 1)
  <2>1. before - 1 \in Nat
    BY <1>5, <1>7
  <2>2. (before - 1) * PacketSize =< total * PacketSize
    BY <1>1, <1>5, <2>1, ProductMonotone
  <2>3. (before - 1) * PacketSize \in Nat
    BY <1>1, <2>1, ProductIsNat
  <2>4. total * PacketSize < WordMod
    BY DEF total
  <2> QED BY <1>6, <2>2, <2>3, <2>4, RecodeAssumption
<1>10. Keep(v) = (before - 1) * PacketSize
  <2>1. Keep(v) = ((before - 1) * PacketSize) % WordMod
    BY <1>8 DEF Keep
  <2> QED BY <1>9, <2>1, RemainderIsSelf
<1>11. before - 1 \in Nat \ {0} /\ before - 1 < total
  BY <1>5, <1>7
<1> QED BY <1>10, <1>11 DEF total

(* The two calls that write the video leave none of its packets out. *)
LEMMA VideoWritten ==
  ASSUME NEW store \in StoreType, NEW pid \in Pids, NEW n \in Nat
  PROVE  Size(store, pid) =< Len(Written(store, pid, 0, n))
                             + Len(Written(store, pid, n, -1))
<1> DEFINE s == store.of[pid]
           e == Written(store, pid, 0, n)
           g == Written(store, pid, n, -1)
           l == Len(s)
<1>1. s \in Seq(PacketType) /\ l \in Nat /\ Size(store, pid) = l
  BY DEF StoreType, Size
<1>2. e \in Seq(PacketType) /\ g \in Seq(PacketType)
  BY WrittenInSeq
<1>3. Len(e) \in Nat /\ Len(g) \in Nat
  BY <1>2
<1>4. CASE n > 0 /\ n < l
  <2>1. e = SubSeq(s, 1, n) /\ g = SubSeq(s, n + 1, Len(s))
    BY <1>1, <1>4, WrittenIs
  <2> HIDE DEF e, g
  <2>2. Len(e) = n /\ Len(g) = Len(s) - n
    BY <1>1, <1>4, <2>1
  <2>3. l =< Len(e) + Len(g)
    BY <1>1, <2>2
  <2> QED BY <1>1, <2>3 DEF e, g
<1>5. CASE ~(n > 0 /\ n < l)
  <2>1. e = SubSeq(s, 0 + 1, IF n > 0 /\ 0 + n < l THEN 0 + n ELSE l)
    BY <1>1 DEF Written
  <2>2. 0 + n = n /\ 0 + 1 = 1
    OBVIOUS
  <2>3. e = SubSeq(s, 1, l)
    BY <1>5, <2>1, <2>2
  <2>4. e = s
    <3> HIDE DEF e, s
    <3> QED BY <1>1, <2>3 DEF l
  <2> QED BY <1>1, <1>3, <2>4
<1> QED BY <1>4, <1>5

\* The parts of the file, the first I-frame taking n packets of the video.
Tables == <<ts.of[0][1]>> \o <<ts.of[PmtPid][1]>>
Kept(n) == SubSeq(ts.of[VideoPid], 1, n)
Back(n) == SubSeq(ts.of[VideoPid], n + 1, Len(ts.of[VideoPid]))

(* What the numbers of a file say of the parts it was put together from. *)
LEMMA ContentParts ==
  ASSUME RecodeInv, PidsApart, altPid # VideoPid, VideoOnPid,
         Result(video) >= 2 * PacketSize, Len(Content) * PacketSize < WordMod
  PROVE  \E n \in Nat \ {0} :
           /\ n < Len(ts.of[VideoPid])
           /\ Keep(video) = n * PacketSize
           /\ n * PacketSize + PacketSize - 1 \in 0..(WordMod - 1)
           /\ Content = Tables \o <<MagicPacket>> \o MiscContent \o Kept(n)
                        \o ts.of[altPid] \o Back(n)
<1>1. /\ ts \in StoreType /\ ListsAgree /\ altPid \in Pids
      /\ video \in Seq([type: Nat, packets: Nat])
      /\ PacketSize \in Nat \ {0}
      /\ 0 \in Pids /\ PmtPid \in Pids /\ VideoPid \in Pids
  BY HeadersAssumption, ConstantsAre DEF RecodeInv, TypeOK, VideosKnown
<1> DEFINE X == PacketType
           V == ts.of[VideoPid]
           a == Written(ts, 0, 0, 1)
           b == Written(ts, PmtPid, 0, 1)
           c == <<MagicPacket>>
           e == Written(ts, VideoPid, 0, IFramePackets)
           f == Written(ts, altPid, 0, -1)
           g == Written(ts, VideoPid, IFramePackets, -1)
<1>2. a = <<ts.of[0][1]>> /\ b = <<ts.of[PmtPid][1]>>
  <2>1. 0 < Size(ts, 0) /\ 0 < Size(ts, PmtPid)
    BY <1>1 DEF PidsApart, Size, StoreType
  <2> QED BY <1>1, <2>1, WrittenIs
<1>3. f = ts.of[altPid]
  <2> DEFINE s == ts.of[altPid]
  <2>1. s \in Seq(X)
    BY <1>1 DEF StoreType
  <2>2. ~(-1 > 0) /\ 0 + 1 = 1
    OBVIOUS
  <2>3. f = SubSeq(s, 1, Len(s))
    BY <2>2 DEF Written, Size
  <2> HIDE DEF f, s
  <2> QED BY <2>1, <2>3 DEF s
<1>4. IFramePackets \in Nat
  BY <1>1, IFramePacketsNat
<1>5. Len(V) =< Len(e) + Len(g)
  BY <1>1, <1>4, VideoWritten DEF Size
<1>6. Content = a \o b \o c \o MiscContent \o e \o f \o g
  BY DEF Content
<1>7. /\ a \in Seq(X) /\ b \in Seq(X) /\ c \in Seq(X) /\ MiscContent \in Seq(X)
      /\ e \in Seq(X) /\ f \in Seq(X) /\ g \in Seq(X) /\ V \in Seq(X)
  <2>1. MagicPacket \in X
    BY ConstantsAre DEF MagicPacket, Packet, PacketType, Makers
  <2>2. c \in Seq(X)
    BY <2>1
  <2>3. V \in Seq(X)
    BY <1>1 DEF StoreType
  <2>4. 0 \in Nat /\ 1 \in Int /\ -1 \in Int /\ IFramePackets \in Int
    BY <1>4
  <2>5. \A p \in Pids, n \in Nat, m \in Int : Written(ts, p, n, m) \in Seq(X)
    BY <1>1, WrittenInSeq
  <2> HIDE DEF X
  <2>6. /\ a \in Seq(X) /\ b \in Seq(X) /\ e \in Seq(X) /\ f \in Seq(X)
        /\ g \in Seq(X)
    BY <1>1, <1>4, <2>4, <2>5, Zenon
  <2> QED BY <1>1, <2>2, <2>3, <2>6, MiscHasTheRest DEF X
<1>8. Len(V) + 1 =< Len(Content) /\ Len(Content) \in Nat
  <2> HIDE DEF a, b, e, f, g, V, X
  <2>1. Len(c) = 1 /\ Len(MiscContent) \in Nat /\ Len(f) \in Nat
    BY <1>7
  <2>2. Len(a) \in Nat /\ Len(b) \in Nat /\ Len(e) \in Nat /\ Len(g) \in Nat
    BY <1>7
  <2> HIDE DEF c
  <2>3. Len(Content) = Len(a) + Len(b) + Len(c) + Len(MiscContent) + Len(e)
                       + Len(f) + Len(g)
    BY <1>6, <1>7
  <2> HIDE DEF Content
  <2>4. Len(V) \in Nat
    BY <1>7
  <2> QED BY <1>5, <2>1, <2>2, <2>3, <2>4
<1> DEFINE size == Len(V)
<1>9. size \in Nat /\ size = PacketsBefore(video, Len(video) + 1)
  BY <1>7 DEF VideoOnPid, Size
<1> HIDE DEF size
<1>10. (size + 1) * PacketSize < WordMod
  <2>1. size + 1 =< Len(Content)
    BY <1>8 DEF size
  <2>4. size + 1 \in Nat /\ PacketSize \in Nat
    BY <1>1, <1>9
  <2>2. (size + 1) * PacketSize =< Len(Content) * PacketSize
    BY <1>8, <2>1, <2>4, ProductMonotone, Zenon
  <2>3. (size + 1) * PacketSize \in Nat /\ Len(Content) * PacketSize \in Nat
    BY <1>1, <1>8, <1>9, ProductIsNat
  <2> QED BY <2>2, <2>3, RecodeAssumption
<1>11. size * PacketSize \in Nat /\ size * PacketSize + PacketSize < WordMod
  <2>1. (size + 1) * PacketSize = size * PacketSize + PacketSize
    BY <1>1, <1>9
  <2> QED BY <1>1, <1>9, <1>10, <2>1, ProductIsNat
<1>12. PICK n \in Nat \ {0} : n < size /\ Keep(video) = n * PacketSize
  <2>1. size * PacketSize < WordMod
    BY <1>1, <1>11, RecodeAssumption
  <2> QED BY <1>1, <1>9, <2>1, KeepIs
<1>13. n * PacketSize + PacketSize - 1 \in 0..(WordMod - 1)
  <2>1. n \in Nat /\ PacketSize \in Nat /\ n =< size
    BY <1>1, <1>9, <1>12
  <2>2. n * PacketSize =< size * PacketSize /\ n * PacketSize \in Nat
    BY <1>9, <2>1, ProductMonotone, ProductIsNat, Zenon
  <2> DEFINE x == n * PacketSize
             y == size * PacketSize
  <2>3. /\ x \in Nat /\ y \in Nat /\ x =< y /\ y + PacketSize < WordMod
        /\ PacketSize \in Nat \ {0} /\ WordMod \in Nat
    BY <1>1, <1>11, <2>2, ConstantsAre
  <2> HIDE DEF x, y
  <2>4. x + PacketSize - 1 \in 0..(WordMod - 1)
    BY <2>3
  <2> QED BY <2>4 DEF x
<1>14. IFramePackets = n
  <2>1. IFramePackets = ((n * PacketSize + PacketSize - 1) % WordMod)
                          \div PacketSize
    BY <1>12 DEF IFramePackets
  <2>2. (n * PacketSize + PacketSize - 1) % WordMod
          = n * PacketSize + (PacketSize - 1)
    <3>1. n * PacketSize \in Nat
      BY <1>1, ProductIsNat
    <3> QED BY <1>1, <1>13, <3>1, RemainderIsSelf
  <2>3. PacketSize - 1 \in 0..(PacketSize - 1)
    BY <1>1
  <2>4. (n * PacketSize + (PacketSize - 1)) \div PacketSize = n
    BY <1>1, <2>3, DivWhole
  <2> QED BY <2>1, <2>2, <2>4
<1>15. e = Kept(n) /\ g = Back(n)
  <2>1. n > 0 /\ n < Size(ts, VideoPid)
    BY <1>12 DEF size, Size
  <2> QED BY <1>1, <1>14, <2>1, WrittenIs DEF Kept, Back
<1>16. Content = Tables \o <<MagicPacket>> \o MiscContent \o Kept(n)
                 \o ts.of[altPid] \o Back(n)
  <2>1. a \o b = Tables
    BY <1>2 DEF Tables
  <2> HIDE DEF a, b, e, f, g
  <2> QED BY <1>3, <1>6, <1>15, <2>1
<1> QED BY <1>12, <1>13, <1>16 DEF size

(* The numbers in the magic packet, without a wrap. *)
LEMMA HeaderIs ==
  ASSUME RecodeInv, NEW n \in Nat,
         n * PacketSize + PacketSize - 1 \in 0..(WordMod - 1),
         Keep(video) = n * PacketSize,
         header = [misc |-> StatedMisc, keep |-> Keep(video),
                   total |-> StatedTotal, altKeep |-> Keep(alternate)],
         NEW all \in Nat, all * PacketSize < WordMod,
         Len(MiscContent) =< all, Len(ts.of[altPid]) =< all
  PROVE  /\ header.misc = Len(MiscContent) * PacketSize
         /\ header.total = Len(ts.of[altPid]) * PacketSize
         /\ header.keep = n * PacketSize
         /\ header.altKeep \in Nat
         /\ Layout!Whole(header.keep) = n * PacketSize
<1>1. /\ PacketSize \in Nat \ {0} /\ WordMod \in Nat \ {0}
      /\ ts \in StoreType /\ ListsAgree /\ altPid \in Pids
      /\ alternate \in Seq([type: Nat, packets: Nat])
  BY HeadersAssumption, ConstantsAre DEF RecodeInv, TypeOK, VideosKnown
<1>2. Len(MiscContent) \in Nat /\ Len(ts.of[altPid]) \in Nat
  <2>1. MiscContent \in Seq(PacketType) /\ ts.of[altPid] \in Seq(PacketType)
    BY <1>1, MiscHasTheRest DEF StoreType
  <2> QED BY <2>1
<1>3. ASSUME NEW l \in Nat, l =< all
      PROVE  (l * PacketSize) % WordMod = l * PacketSize
  <2>1. PacketSize \in Nat
    BY <1>1
  <2>2. l * PacketSize =< all * PacketSize /\ l * PacketSize \in Nat
    BY <1>3, <2>1, ProductMonotone, ProductIsNat, Zenon
  <2> DEFINE x == l * PacketSize
             y == all * PacketSize
  <2>3. x \in Nat /\ y \in Nat /\ x =< y /\ y < WordMod /\ WordMod \in Nat
    BY <1>1, <2>1, <2>2, ProductIsNat
  <2> HIDE DEF x, y
  <2>4. x \in 0..(WordMod - 1)
    BY <2>3
  <2>5. x % WordMod = x
    BY <2>4, RemainderIsSelf
  <2> QED BY <2>5 DEF x
<1>4. header.misc = Len(MiscContent) * PacketSize
  BY <1>2, <1>3 DEF StatedMisc
<1>5. header.total = Len(ts.of[altPid]) * PacketSize
  BY <1>2, <1>3 DEF StatedTotal, Size
<1>6. header.keep = n * PacketSize
  OBVIOUS
<1>7. header.altKeep \in Nat
  <2>1. Keep(alternate) \in 0..(WordMod - 1)
    BY <1>1, KeepInRange
  <2> QED BY <2>1
<1>8. Layout!Whole(header.keep) = n * PacketSize
  <2>1. Layout!Whole(header.keep)
          = (((n * PacketSize + PacketSize - 1) % WordMod) \div PacketSize)
              * PacketSize
    BY <1>6 DEF Layout!Whole
  <2>2. (n * PacketSize + PacketSize - 1) % WordMod
          = n * PacketSize + (PacketSize - 1)
    <3>1. n * PacketSize \in Nat
      BY <1>1, ProductIsNat
    <3> QED BY <1>1, <3>1, RemainderIsSelf
  <2>3. PacketSize - 1 \in 0..(PacketSize - 1)
    BY <1>1
  <2>4. (n * PacketSize + (PacketSize - 1)) \div PacketSize = n
    BY <1>1, <2>3, DivWhole
  <2> QED BY <2>1, <2>2, <2>4
<1> QED BY <1>4, <1>5, <1>6, <1>7, <1>8

LEMMA RegionIs ==
  ASSUME NEW x \in Nat, NEW y \in Nat
  PROVE  Region(x * PacketSize, y * PacketSize) = SubSeq(disk, x + 1, y)
<1>1. PacketSize \in Nat \ {0} /\ 0 \in 0..(PacketSize - 1)
  BY HeadersAssumption
<1>2. \A z \in Nat : (z * PacketSize) \div PacketSize = z
  <2> TAKE z \in Nat
  <2>1. z * PacketSize + 0 = z * PacketSize
    BY <1>1
  <2>2. (z * PacketSize + 0) \div PacketSize = z
    BY <1>1, DivWhole
  <2> QED BY <2>1, <2>2
<1> QED BY <1>2 DEF Region

LEMMA FileIsAsStated == RecodeInv => FileAsStated
<1> SUFFICES ASSUME RecodeInv, Complete, Result(video) >= 2 * PacketSize,
                    Len(disk) * PacketSize < WordMod
             PROVE  FileAsStated
  BY DEF FileAsStated
<1>1. /\ PidsApart /\ altPid # VideoPid /\ VideoOnPid
      /\ header = [misc |-> StatedMisc, keep |-> Keep(video),
                   total |-> StatedTotal, altKeep |-> Keep(alternate)]
      /\ disk = Content
  BY DEF RecodeInv, FileKnown, Complete
<1>2. PICK n \in Nat \ {0} :
        /\ n < Len(ts.of[VideoPid])
        /\ Keep(video) = n * PacketSize
        /\ n * PacketSize + PacketSize - 1 \in 0..(WordMod - 1)
        /\ Content = Tables \o <<MagicPacket>> \o MiscContent \o Kept(n)
                     \o ts.of[altPid] \o Back(n)
  <2>1. Len(Content) * PacketSize < WordMod
    BY <1>1
  <2> QED BY <1>1, <2>1, ContentParts
<1>3. /\ ts \in StoreType /\ ListsAgree /\ altPid \in Pids /\ VideoPid \in Pids
      /\ 0 \in Pids /\ PmtPid \in Pids
      /\ PacketSize \in Nat \ {0} /\ WordMod \in Nat \ {0}
  BY HeadersAssumption, ConstantsAre DEF RecodeInv, TypeOK
<1> DEFINE X == PacketType
           h == Tables
           c == <<MagicPacket>>
           M == MiscContent
           F == Kept(n)
           A == ts.of[altPid]
           B == Back(n)
           V == ts.of[VideoPid]
<1>4. V \in Seq(X) /\ A \in Seq(X) /\ M \in Seq(X)
  BY <1>3, MiscHasTheRest DEF StoreType
<1>5. h = <<ts.of[0][1], ts.of[PmtPid][1]>> /\ h \in Seq(X) /\ Len(h) = 2
  <2>1. ts.of[0] \in Seq(X) /\ ts.of[PmtPid] \in Seq(X)
    BY <1>3 DEF StoreType
  <2>2. ts.of[0][1] \in X /\ ts.of[PmtPid][1] \in X
    BY <1>1, <2>1 DEF PidsApart, Size
  <2>3. h = <<ts.of[0][1], ts.of[PmtPid][1]>>
    <3> DEFINE x == ts.of[0][1]
               y == ts.of[PmtPid][1]
    <3>1. h = <<x>> \o <<y>>
      BY DEF Tables
    <3> HIDE DEF x, y, h
    <3>2. h = <<x, y>>
      BY <3>1, PairOfSingles
    <3> QED BY <3>2 DEF x, y
  <2> QED BY <2>2, <2>3
<1>6. c \in Seq(X) /\ Len(c) = 1
  <2>1. MagicPacket \in X
    BY ConstantsAre DEF MagicPacket, Packet, PacketType, Makers
  <2> QED BY <2>1
<1>7. F \in Seq(X) /\ Len(F) = n /\ B \in Seq(X) /\ Len(B) = Len(V) - n
  <2> HIDE DEF V
  <2>1. F = SubSeq(V, 1, n) /\ B = SubSeq(V, n + 1, Len(V))
    BY DEF Kept, Back, V
  <2>2. n < Len(V)
    BY <1>2 DEF V
  <2> QED BY <1>4, <2>1, <2>2
<1>8. F \o B = V
  <2>1. n \in 0..Len(V)
    BY <1>2, <1>4
  <2>2. SubSeq(V, 1, n) \o SubSeq(V, n + 1, Len(V)) = V
    <3> HIDE DEF V
    <3> QED BY <1>4, <2>1, SplitSeq
  <2> QED BY <2>2 DEF Kept, Back
<1>9. disk = h \o c \o M \o F \o A \o B
  BY <1>1, <1>2
<1> HIDE DEF X, h, c, M, F, A, B, V
<1> DEFINE m == Len(M)
           l == Len(A)
           r == Len(B)
<1>10. m \in Nat /\ l \in Nat /\ r \in Nat /\ n \in Nat /\ Len(V) = n + r
  BY <1>2, <1>4, <1>7
<1>11. /\ Len(disk) = 3 + m + n + l + r
       /\ SubSeq(disk, 1, 2) = h
       /\ SubSeq(disk, 3 + 1, 3 + m) = M
       /\ SubSeq(disk, 3 + m + 1, 3 + m + n) = F
       /\ SubSeq(disk, 3 + m + n + 1, 3 + m + n + l) = A
       /\ SubSeq(disk, 3 + m + n + l + 1, 3 + m + n + l + r) = B
  <2>1. IsSixParts(disk, h, c, M, F, A, B)
    BY <1>4, <1>5, <1>6, <1>7, <1>9, PartsOfSix, Zenon
  <2>2. Len(h) = 2 /\ Len(c) = 1 /\ Len(F) = n
    BY <1>5, <1>6, <1>7
  <2>3. /\ Len(disk) = 2 + 1 + m + n + l + r
        /\ SubSeq(disk, 1, 2) = h
        /\ SubSeq(disk, 2 + 1 + 1, 2 + 1 + m) = M
        /\ SubSeq(disk, 2 + 1 + m + 1, 2 + 1 + m + n) = F
        /\ SubSeq(disk, 2 + 1 + m + n + 1, 2 + 1 + m + n + l) = A
        /\ SubSeq(disk, 2 + 1 + m + n + l + 1, Len(disk)) = B
    BY <2>1, <2>2 DEF IsSixParts
  <2> HIDE DEF m, l, r
  <2> QED BY <2>3
<1> HIDE DEF m, l, r
<1>12. /\ header.misc = m * PacketSize /\ header.total = l * PacketSize
       /\ header.keep = n * PacketSize /\ header.altKeep \in Nat
       /\ Layout!Whole(header.keep) = n * PacketSize
  <2>1. /\ Len(disk) \in Nat /\ m =< Len(disk) /\ l =< Len(disk)
    BY <1>10, <1>11
  <2>2. Len(MiscContent) =< Len(disk) /\ Len(ts.of[altPid]) =< Len(disk)
    BY <2>1 DEF m, l, M, A
  <2>3. n \in Nat
    BY <1>10
  <2> QED BY <1>1, <1>2, <2>1, <2>2, <2>3, HeaderIs DEF m, l, M, A
<1>13. /\ m * PacketSize \in Nat /\ l * PacketSize \in Nat
       /\ n * PacketSize \in Nat /\ r * PacketSize \in Nat
  BY <1>3, <1>10, ProductIsNat
<1>14. Size(ts, VideoPid) * PacketSize - n * PacketSize = r * PacketSize
  <2>1. Size(ts, VideoPid) = n + r
    BY <1>10 DEF Size, V
  <2> QED BY <1>3, <1>10, <2>1
<1>15. File = [hdr |-> 2 * PacketSize, misc |-> m * PacketSize,
               keep |-> n * PacketSize, total |-> l * PacketSize,
               altKeep |-> header.altKeep, rest |-> r * PacketSize,
               videoPid |-> VideoPid]
  BY <1>12, <1>14 DEF File
<1>16. File \in Layout!FileType
  <2>1. VideoPid \in Nat /\ 2 * PacketSize \in Nat
    BY <1>3, ConstantsAre
  <2> QED BY <1>12, <1>13, <1>15, <2>1 DEF Layout!FileType
<1>17. /\ Layout!MiscAt(File) = 3 * PacketSize
       /\ Layout!IFrameAt(File) = (3 + m) * PacketSize
       /\ Layout!AlternateAt(File) = (3 + m + n) * PacketSize
       /\ Layout!RestAt(File) = (3 + m + n + l) * PacketSize
       /\ Layout!FileSize(File) = (3 + m + n + l + r) * PacketSize
  <2>1. Layout!MiscAt(File) = 3 * PacketSize
    BY <1>3, <1>15 DEF Layout!MiscAt
  <2>2. Layout!IFrameAt(File) = (3 + m) * PacketSize
    BY <1>3, <1>10, <1>15, <2>1 DEF Layout!IFrameAt
  <2>3. Layout!AlternateAt(File) = (3 + m + n) * PacketSize
    <3>1. Layout!Whole(File.keep) = n * PacketSize
      BY <1>12, <1>15
    <3> QED BY <1>3, <1>10, <2>2, <3>1 DEF Layout!AlternateAt
  <2>4. Layout!RestAt(File) = (3 + m + n + l) * PacketSize
    BY <1>3, <1>10, <1>15, <2>3 DEF Layout!RestAt
  <2>5. Layout!FileSize(File) = (3 + m + n + l + r) * PacketSize
    BY <1>3, <1>10, <1>15, <2>4 DEF Layout!FileSize
  <2> QED BY <2>1, <2>2, <2>3, <2>4, <2>5
<1>18. /\ Region(0, File.hdr) = h
       /\ Region(Layout!MiscAt(File), Layout!IFrameAt(File)) = M
       /\ Region(Layout!IFrameAt(File), Layout!AlternateAt(File)) = F
       /\ Region(Layout!AlternateAt(File), Layout!RestAt(File)) = A
       /\ Region(Layout!RestAt(File), Layout!FileSize(File)) = B
  <2>1. /\ 3 + m \in Nat /\ 3 + m + n \in Nat /\ 3 + m + n + l \in Nat
        /\ 3 + m + n + l + r \in Nat
    BY <1>10
  <2>2. Region(0, File.hdr) = h
    <3>1. File.hdr = 2 * PacketSize /\ 0 * PacketSize = 0 /\ 0 + 1 = 1
      BY <1>3, <1>15
    <3>2. Region(0 * PacketSize, 2 * PacketSize) = SubSeq(disk, 0 + 1, 2)
      BY RegionIs
    <3> QED BY <1>11, <3>1, <3>2
  <2>3. Region(3 * PacketSize, (3 + m) * PacketSize) = SubSeq(disk, 3 + 1, 3 + m)
    BY <2>1, RegionIs
  <2>4. Region((3 + m) * PacketSize, (3 + m + n) * PacketSize)
          = SubSeq(disk, 3 + m + 1, 3 + m + n)
    BY <2>1, RegionIs
  <2>5. Region((3 + m + n) * PacketSize, (3 + m + n + l) * PacketSize)
          = SubSeq(disk, 3 + m + n + 1, 3 + m + n + l)
    BY <2>1, RegionIs
  <2>6. Region((3 + m + n + l) * PacketSize, (3 + m + n + l + r) * PacketSize)
          = SubSeq(disk, 3 + m + n + l + 1, 3 + m + n + l + r)
    BY <2>1, RegionIs
  <2> QED BY <1>11, <1>17, <2>2, <2>3, <2>4, <2>5, <2>6
<1>19. \A p \in Pids \ {0, PmtPid, VideoPid, altPid} : OnPid(M, p) = ts.of[p]
  BY <1>3, MiscHasTheRest DEF M, Placed
<1>20. Len(disk) * PacketSize = Layout!FileSize(File)
  BY <1>11, <1>17
<1> QED BY <1>5, <1>8, <1>16, <1>18, <1>19, <1>20 DEF FileAsStated, A, V

-----------------------------------------------------------------------------
(* What the runs check *)

(* The store, the PIDs, the quality search and the numbers of the magic packet
   keep their types in every run, and the search never leaves 0..51. *)
THEOREM RecodeTypes == Spec => []TypeOK
<1>1. RecodeInv => TypeOK
  BY DEF RecodeInv
<1> QED BY <1>1, RecodeInvHolds, PTL

(* The lists of TS agree: whatever run() adds, removes and replaces, the list
   of a PID holds the packets of that PID in the list of all packets, in the
   same order (TS::add, removeStream, replaceStream). *)
THEOREM StoreAgrees == Spec => []ListsAgree
<1>1. RecodeInv => ListsAgree
  BY DEF RecodeInv
<1> QED BY <1>1, RecodeInvHolds, PTL

(* The binary search of guessInputQuality() returns a quality next to which
   the other side of the original size lies, whatever the encoder makes of
   each quality. *)
THEOREM SearchBrackets == Spec => []Bracketed
<1>1. RecodeInv => Bracketed
  BY DEF RecodeInv
<1> QED BY <1>1, RecodeInvHolds, PTL

(* No trial encoding and no packet of the segment is left on the PID of the
   alternate video when it is remuxed. *)
THEOREM AlternateIsAlone == Spec => []AlternateAlone
<1>1. RecodeInv => AlternateAlone
  BY DEF RecodeInv
<1> QED BY <1>1, RecodeInvHolds, PTL

(* The file is the one its magic packet describes to the loader, for every
   segment, every layout of the PIDs and every size of the videos: no region
   overlaps another, and a region has all packets m_ts then has for it, once
   (writeOutputFile).  That is of a file that was written whole and has less
   than 4 GB, with two packets or more before the end of the first I-frame. *)
THEOREM FileDescribed == Spec => []FileAsStated
<1> QED BY FileIsAsStated, RecodeInvHolds, PTL
=============================================================================
