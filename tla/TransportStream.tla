-------------------------- MODULE TransportStream ---------------------------
(***************************************************************************)
(* Class TS: the packets of a transport stream, in a list of all of them   *)
(* and in one list for each PID.  A packet is a record with its pid; two   *)
(* packets are never equal, as two pointers are not.  A store is a record  *)
(* of the two members m_packets (all) and m_packets_by_pid (of).           *)
(***************************************************************************)
EXTENDS Integers, Sequences, SequencesExt, SequenceLoops

CONSTANT MaxPid       \* the last PID, 8191

ASSUME MaxPidAssumption == MaxPid \in Nat

Pids == 0..MaxPid

\* The packets of a PID, in their order.
OnPid(packets, pid) == Only(packets, {p \in ToSet(packets) : p.pid = pid})

EmptyStore == [all |-> <<>>, of |-> [p \in Pids |-> <<>>]]

\* add()
Added(ts, packet) ==
  [all |-> Append(ts.all, packet),
   of  |-> [ts.of EXCEPT ![packet.pid] = Append(@, packet)]]
AddedAll(ts, packets) ==
  LET added[n \in 0..Len(packets)] ==
        IF n = 0 THEN ts ELSE Added(added[n - 1], packets[n])
  IN  added[Len(packets)]

\* sizePIDStream(), in packets
Size(ts, pid) == Len(ts.of[pid])

\* getUnusedPID()
UnusedPid(ts, lowest) ==
  LET unused == {p \in Pids : p >= lowest /\ Size(ts, p) = 0}
  IN  IF unused = {} THEN 0
      ELSE CHOOSE p \in unused : \A q \in unused : p =< q

\* removeStream(): trimPIDStream( pid, 1 ) until the list is empty.  Each turn
\* deletes the first packet of the PID and its entry in both lists.
RemovedFromPid(ts, pid) == [ts EXCEPT !.of[pid] = <<>>]
Removed(ts, pid) ==
  [all |-> Only(ts.all, ToSet(ts.all) \ ToSet(ts.of[pid])),
   of  |-> [ts.of EXCEPT ![pid] = <<>>]]

\* replaceStream(): the new packets are added by the PID they carry.
Replaced(ts, pid, packets) == AddedAll(Removed(ts, pid), packets)

\* writePIDStream(): the packets written, skip >= 0.  Every count that is not
\* positive means all that remain.
Written(ts, pid, skip, count) ==
  SubSeq(ts.of[pid], skip + 1,
         IF count > 0 /\ skip + count < Size(ts, pid) THEN skip + count
         ELSE Size(ts, pid))
=============================================================================
