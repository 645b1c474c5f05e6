------------------------------- MODULE MCFput -------------------------------
(***************************************************************************)
(* Fput for TLC.                                                            *)
(***************************************************************************)
EXTENDS Fput
=============================================================================
