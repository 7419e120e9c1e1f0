---------------------------- MODULE MCMyBeLoader ----------------------------
(***************************************************************************)
(* Two addresses and four sessions: an address is used again while the     *)
(* other still holds a session that was started.                           *)
(***************************************************************************)
EXTENDS MyBeLoader
=============================================================================
