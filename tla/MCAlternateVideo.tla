-------------------------- MODULE MCAlternateVideo --------------------------
(***************************************************************************)
(* Depths from the option and from the frame rate: 0 from an unknown rate, *)
(* 1 and 2; and 3 from the option.                                         *)
(***************************************************************************)
EXTENDS AlternateVideo

MCFrameOptions == {-1, 3}
MCFrameRates == {[num |-> 0, den |-> 0], [num |-> 1, den |-> 1],
                 [num |-> 2, den |-> 1]}
=============================================================================
