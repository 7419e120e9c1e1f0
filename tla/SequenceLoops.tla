--------------------------- MODULE SequenceLoops ----------------------------
(***************************************************************************)
(* What two loops over a sequence come to: keeping the elements that       *)
(* belong to a set, and adding numbers up.  Both are recursive functions,  *)
(* so that proofs can go by induction over them.                           *)
(***************************************************************************)
EXTENDS Integers, Sequences

\* The elements of s in S, in their order: SelectSeq with a set for the test.
Only(s, S) ==
  LET only[n \in 0..Len(s)] ==
        IF n = 0 THEN <<>>
        ELSE IF s[n] \in S THEN Append(only[n - 1], s[n]) ELSE only[n - 1]
  IN  only[Len(s)]

\* The first k of the numbers, added up.
SumOf(numbers, k) ==
  LET sum[n \in 0..k] == IF n = 0 THEN 0 ELSE sum[n - 1] + numbers[n]
  IN  sum[k]
=============================================================================
