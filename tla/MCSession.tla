----------------------------- MODULE MCSession ------------------------------
(***************************************************************************)
(* Session for TLC: objects with bytes 0 and 1, values up to one byte over  *)
(* the length byte, lists longer than ObjMax, and three files, one of them  *)
(* with a longer URL and one whose URL does not end its line.               *)
(***************************************************************************)
EXTENDS Session

A == [type |-> "u8", tag |-> 1, value |-> <<1>>]
B == [type |-> "bin", tag |-> 0, value |-> <<0, 1, 1>>]
W == [type |-> "u8", tag |-> 1, value |-> <<1, 1, 0, 1, 1>>]
E == [type |-> "bin", tag |-> 0, value |-> <<>>]

MCTx == {<<A, B, A>>, <<W>>, <<[A EXCEPT !.type = "u16"]>>}
MCRx == {<<>>, <<B, A>>, <<E, A, B>>}

MCChar == {"https", "http", "h", "d", "/", "x", "y", "z", ":", "newline", "nul", "junk"}
MCFiles == [
    a |-> [protocol |-> <<"https">>, host |-> <<"h">>, path |-> <<"d", "/", "x">>, eol |-> <<"newline">>],
    b |-> [protocol |-> <<"http">>, host |-> <<"h">>, path |-> <<"y">>, eol |-> <<"newline">>],
    c |-> [protocol |-> <<"http">>, host |-> <<"h">>, path |-> <<"z">>, eol |-> <<>>]]
=============================================================================
