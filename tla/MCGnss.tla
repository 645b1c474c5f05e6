------------------------------- MODULE MCGnss -------------------------------
(***************************************************************************)
(* Gnss for TLC.                                                            *)
(***************************************************************************)
EXTENDS Gnss
=============================================================================
