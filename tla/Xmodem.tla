------------------------------- MODULE Xmodem -------------------------------
(***************************************************************************)
(* The XMODEM receiver and sender of src/src/xmodem.c, at the level of      *)
(* frames.  One unit of the serial line is a whole 132-byte block or a      *)
(* single control byte.  What the line did to a block is part of the unit:  *)
(* a block whose number or whose data was hit, one that lost its tail       *)
(* (trunc) or its header (junk).  The 8-bit sum and the complement of the   *)
(* block number are taken to detect every hit.                              *)
(***************************************************************************)
EXTENDS Integers, Sequences

CONSTANT BNMod   \* number of block numbers: a uint8_t, 256 in the code

ASSUME BNModAssumption == BNMod \in Nat /\ BNMod > 1

(* Mutant: the cast to uint8_t is forgotten.                                *)
NextBNUncast(bn) == bn + 1

NextBN(bn) == (bn + 1) % BNMod

(***************************************************************************)
(* Units.  data is the position of the block in the file, 0 for anything    *)
(* that is not a block.                                                     *)
(***************************************************************************)
Flaws == {"none", "bn", "data"}
Kinds == {"blk", "trunc", "junk", "EOT", "CAN", "CMD"}

Block(bn, data, flaw) == [t |-> "blk", bn |-> bn, data |-> data, flaw |-> flaw]
Ctrl(kind) == [t |-> kind, bn |-> 0, data |-> 0, flaw |-> "none"]

Units(Data) == [t : Kinds, bn : 0 .. BNMod - 1, data : Data, flaw : Flaws]

Control == {"ACK", "NAK", "CAN"}   \* what the receiver sends back

RecvRets == {"OK", "FINISHED", "CANCELED", "RETRY", "DUP", "EAGAIN"}

(***************************************************************************)
(* xmodem_block_validation.  The order of the checks matters: a repeated    *)
(* block is DUP whether or not its data is intact.                          *)
(***************************************************************************)
BlockValidation(block, bn) ==
    IF block.flaw = "bn" THEN "RETRY"
    ELSE IF block.bn = bn THEN "DUP"
    ELSE IF block.bn # NextBN(bn) \/ block.flaw = "data" THEN "RETRY"
    ELSE "OK"

(***************************************************************************)
(* What XmodemReceiveBlock may return for the unit it takes from the line   *)
(* when the last block taken was number bn.  The inner-byte timeout leaks   *)
(* the errno of the queue, which is none of the declared results.  A block  *)
(* that lost its header is read byte by byte: each byte may be refused, may *)
(* be taken for EOT or CAN, or for the header of a block that never ends.   *)
(***************************************************************************)
ReceiveRets(unit, bn) ==
    IF unit.t = "blk" THEN {BlockValidation(unit, bn)}
    ELSE IF unit.t = "trunc" THEN {"EAGAIN"}
    ELSE IF unit.t = "EOT" THEN {"FINISHED"}
    ELSE IF unit.t = "CAN" THEN {"CANCELED"}
    ELSE {"RETRY", "EAGAIN", "FINISHED", "CANCELED"}

(***************************************************************************)
(* What XmodemSendBlock and XmodemSendEnd return for the byte they take as  *)
(* the reply.                                                               *)
(***************************************************************************)
SendBlockRet(byte) ==
    CASE byte = "ACK" -> "OK"
      [] byte = "NAK" -> "RETRY"
      [] byte = "CAN" -> "CANCELED"
      [] OTHER        -> "FAILED"

SendEndRet(byte) == IF byte = "ACK" THEN "OK" ELSE "FAILED"

=============================================================================
