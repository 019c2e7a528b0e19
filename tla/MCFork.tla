-------------------------------- MODULE MCFork --------------------------------
(***************************************************************************)
(* Two threads, one of which forks while the other and the flush thread    *)
(* are anywhere.                                                           *)
(***************************************************************************)
EXTENDS Fork
=============================================================================
