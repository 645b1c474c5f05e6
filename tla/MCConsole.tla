----------------------------- MODULE MCConsole ------------------------------
(***************************************************************************)
(* Console for TLC: the commands W and WW, the second one a transfer.       *)
(***************************************************************************)
EXTENDS Console

MCText == {"W", " "}
MCNames == <<<<"W">>, <<"W", "W">>>>
=============================================================================
