----------------------------- MODULE LineEditor -----------------------------
(***************************************************************************)
(* What the command line promises: after a $ the characters typed form a    *)
(* line, a backspace takes the last one back, the end of the line hands     *)
(* over exactly what is left, and a line that does not fit is dropped.      *)
(***************************************************************************)
EXTENDS Integers, Sequences

CONSTANTS Chars, MaxLen

VARIABLES phase, text, given

vars == <<phase, text, given>>

Init == phase = "off" /\ text = <<>> /\ given = <<>>

Close == phase' = "off" /\ text' = <<>>

Open == phase = "off" /\ phase' = "on" /\ UNCHANGED <<text, given>>

Type ==
    /\ phase = "on" /\ Len(text) < MaxLen
    /\ \E c \in Chars : text' = Append(text, c)
    /\ UNCHANGED <<phase, given>>

Erase ==
    /\ phase = "on" /\ text # <<>>
    /\ text' = SubSeq(text, 1, Len(text) - 1)
    /\ UNCHANGED <<phase, given>>

Leave == phase = "on" /\ text = <<>> /\ Close /\ UNCHANGED given

Overflow == phase = "on" /\ Len(text) = MaxLen /\ Close /\ UNCHANGED given

HandOver == phase = "on" /\ given' = text /\ Close

Next == Open \/ Type \/ Erase \/ Leave \/ Overflow \/ HandOver

Spec == Init /\ [][Next]_vars
=============================================================================
