------------------------------- MODULE MCFget -------------------------------
(***************************************************************************)
(* Fget for TLC.                                                            *)
(***************************************************************************)
EXTENDS Fget
=============================================================================
