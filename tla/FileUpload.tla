----------------------------- MODULE FileUpload -----------------------------
(***************************************************************************)
(* What $$FPUT promises: the file goes to the server block by block, in     *)
(* order and each block once, and the device says OK only when the whole    *)
(* file was delivered.                                                      *)
(***************************************************************************)
EXTENDS Integers, Sequences

CONSTANT NBlocks   \* blocks of the file

VARIABLES delivered,   \* blocks handed to the server in this session
          verdict      \* "idle" before any session, "busy" in one, then the answer

vars == <<delivered, verdict>>

Init == delivered = <<>> /\ verdict = "idle"

(* A session starts; it may also die at once without any answer.           *)
Start == /\ verdict # "busy"
         /\ delivered' = <<>>
         /\ verdict' \in {"busy", "silent"}

Deliver == /\ verdict = "busy"
           /\ Len(delivered) < NBlocks
           /\ delivered' = Append(delivered, Len(delivered) + 1)
           /\ UNCHANGED verdict

Succeed == /\ verdict = "busy"
           /\ Len(delivered) = NBlocks
           /\ verdict' = "OK"
           /\ UNCHANGED delivered

Fail == /\ verdict = "busy"
        /\ verdict' = "NG"
        /\ UNCHANGED delivered

Next == Start \/ Deliver \/ Succeed \/ Fail

Spec == Init /\ [][Next]_vars

=============================================================================
