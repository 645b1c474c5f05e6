------------------------------ MODULE Console -------------------------------
(***************************************************************************)
(* The terminal side of the firmware: the UART broker, the loop of main()   *)
(* that feeds the command line byte by byte and prints the answers, the     *)
(* file transfers that take over the serial line, and the handler of LTE    *)
(* events, which prints from another context.  The host types at will.      *)
(***************************************************************************)
EXTENDS CmdLine

CONSTANTS
    TxCap, RxCap,                   \* see UartBroker
    Transfers,      \* the commands, by index in Names, that run a transfer
    AnswerLen,      \* bytes of an answer; some lines have none
    MaxBytes,       \* bound: bytes the host sends
    MaxEvents       \* bound: LTE events that print

VARIABLES
    msgq_rx, msgq_tx, is_echo, left, told, wire, echoes,        \* UartBroker
    pc,         \* where main() is
    typed       \* bytes the host has sent

Writers == {"main", "lte"}

Broker == INSTANCE UartBroker WITH Input <- Bytes

ASSUME ConsoleAssumption ==
    /\ Transfers \subseteq DOMAIN Names
    /\ TxCap \in Nat \ {0} /\ RxCap \in Nat \ {0}
    /\ AnswerLen \in Nat \ {0} /\ MaxBytes \in Nat /\ MaxEvents \in Nat

rxvars == <<msgq_rx, is_echo, echoes>>
txvars == <<msgq_tx, left, told, wire>>
vars == <<cmdvars, rxvars, txvars, pc, typed>>

TypeOK ==
    /\ CmdTypeOK /\ Broker!TypeOK
    /\ pc \in {"poll", "put", "begin", "purge", "transfer"}
    /\ typed \in 0 .. MaxBytes

Init == CmdInit /\ Broker!Init /\ pc = "poll" /\ typed = 0

HostTypes ==
    /\ typed < MaxBytes /\ typed' = typed + 1
    /\ \E b \in Bytes : Broker!FifoCb(b)
    /\ UNCHANGED <<cmdvars, pc>>

Thread == Broker!Transmit /\ UNCHANGED <<cmdvars, pc, typed>>

(* lte_handler prints a status change.                                      *)
LtePrints ==
    /\ told["lte"] < MaxEvents /\ Broker!PutBegins("lte", AnswerLen)
    /\ UNCHANGED <<cmdvars, rxvars, pc, typed>>

Put(w) ==
    /\ Broker!PutByte(w) \/ Broker!PutTimeout(w)
    /\ UNCHANGED <<cmdvars, pc, typed>>

(* main() puts an answer and comes back to its loop when it is queued.      *)
Answer == Broker!PutBegins("main", AnswerLen) /\ pc' = "put"

Answered ==
    /\ pc = "put" /\ left["main"] = <<>> /\ pc' = "poll"
    /\ UNCHANGED <<cmdvars, rxvars, txvars, typed>>

(* A byte that CmdParse answers with nothing.                               *)
PollByte ==
    /\ pc = "poll"
    /\ \E b \in Bytes :
          /\ Broker!GetByte(b)
          /\ WaitOther(b) \/ WaitDollar(b) \/ Backspace(b) \/ Store(b)
    /\ UNCHANGED <<txvars, pc, typed>>

(* The end of a line runs a command.  A transfer begins unless its          *)
(* arguments are refused; an out_len of 0 or less is no answer.             *)
PollLine ==
    /\ pc = "poll"
    /\ \E b \in Bytes : Broker!GetByte(b) /\ LineEnds(b)
    /\ \/ Answer
       \/ ran'.cmd \notin Transfers /\ UNCHANGED <<txvars, pc>>
       \/ ran'.cmd \in Transfers /\ pc' = "begin" /\ UNCHANGED txvars
    /\ UNCHANGED typed

PollFull ==
    /\ pc = "poll"
    /\ \E b \in Bytes : Broker!GetByte(b) /\ BufferFull(b)
    /\ Answer
    /\ UNCHANGED typed

XmodemBegin ==
    /\ \/ pc = "begin" /\ pc' = "purge" /\ Broker!SetEcho(FALSE)
       \/ pc = "purge" /\ pc' = "transfer" /\ Broker!ClearReceiveQueue
    /\ UNCHANGED <<cmdvars, txvars, typed>>

(* The transfer takes the bytes that come; Fput and Fget model what it does *)
(* with them, and that it ends.                                             *)
TransferByte ==
    /\ pc = "transfer"
    /\ \E b \in Bytes : Broker!GetByte(b)
    /\ UNCHANGED <<cmdvars, txvars, pc, typed>>

XmodemEnd ==
    /\ pc = "transfer" /\ Broker!SetEcho(TRUE)
    /\ Answer
    /\ UNCHANGED <<cmdvars, typed>>

Main ==
    \/ PollByte \/ PollLine \/ PollFull \/ Put("main") \/ Answered
    \/ XmodemBegin \/ TransferByte \/ XmodemEnd

Next == HostTypes \/ Thread \/ LtePrints \/ Put("lte") \/ Main

(* main() sleeps for a millisecond in every turn and waits when the queue   *)
(* is full, so the thread of the broker runs although its priority is       *)
(* lower.  Host and LTE events may stop at any time.                        *)
Spec == Init /\ [][Next]_vars /\ WF_vars(Main) /\ WF_vars(Thread)

-----------------------------------------------------------------------------

NoHoles == Broker!NoHoles

(* Nothing the host sends during a transfer is echoed into it, whenever the *)
(* interrupt comes.                                                         *)
QuietTransfer == [][pc = "transfer" /\ pc' = "transfer" => echoes' = echoes]_vars

(* Whatever is typed and whoever prints, main() comes back from answers and *)
(* transfers and takes every byte that found room.                          *)
BytesAreTaken == msgq_rx # <<>> ~> msgq_rx = <<>>
=============================================================================
