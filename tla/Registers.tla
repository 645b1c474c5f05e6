----------------------------- MODULE Registers ------------------------------
(***************************************************************************)
(* The register table, src/src/registers.c: a bank of 240 bytes of which    *)
(* the mode register matters, and the common registers behind it, of which  *)
(* one selects the bank.  A register file is a record [mode, bank].         *)
(***************************************************************************)
EXTENDS Integers

ModeAddr == 0           \* REG_00_MODE
BankAddr == 240         \* 0xf0
ByteValues == 0 .. 255

Banks == 2              \* entries of bank_func
Implemented == {0}      \* those with functions; the last one is empty

RegisterFile == [mode : ByteValues, bank : ByteValues]

(* Reset values; main() sets the mode afterwards.                           *)
RegistersReset == [mode |-> 0, bank |-> 0]

CanSelectListed(value) == value + 1 <= Banks

(* reg_common_write: which banks may be selected.                           *)
CanSelect(value) == value + 1 <= Banks /\ value \in Implemented

(* A negative return leaves the file as it is.                              *)
CanWrite(addr, value) == addr < BankAddr \/ (addr = BankAddr /\ CanSelect(value))

RegistersWrite(regs, addr, value) ==
    IF ~CanWrite(addr, value) THEN regs
    ELSE IF addr = ModeAddr THEN [regs EXCEPT !.mode = value]
    ELSE IF addr = BankAddr THEN [regs EXCEPT !.bank = value]
    ELSE regs
=============================================================================
