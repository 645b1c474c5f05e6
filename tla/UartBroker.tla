----------------------------- MODULE UartBroker -----------------------------
(***************************************************************************)
(* The UART broker, src/src/uart_broker.c: two byte queues, an interrupt    *)
(* handler that fills one, a thread that empties the other, and writers in  *)
(* several threads that put their messages byte by byte.                    *)
(***************************************************************************)
EXTENDS Integers, Sequences

CONSTANTS
    Writers,    \* contexts that print: main() and the handler of LTE events
    Input,      \* what the host may send
    TxCap,      \* UART_TX_BUF_SZ: 256 in the code
    RxCap       \* UART_RX_BUF_SZ: 1024 in the code

VARIABLES
    msgq_rx, msgq_tx, is_echo,
    left,       \* what each writer has yet to put: the data and len of UartBrokerPut
    told,       \* messages each writer has begun
    wire,       \* what the thread sent to the host (history)
    echoes      \* bytes echoed to the host (history)

rxvars == <<msgq_rx, is_echo, echoes>>
txvars == <<msgq_tx, left, told, wire>>
ubvars == <<msgq_rx, is_echo, echoes, msgq_tx, left, told, wire>>

(* A byte of a message: who prints it, which of his messages, which byte.   *)
Byte == [from : Writers, msg : Nat, pos : Nat \ {0}]
Message(w, n, len) == [i \in 1 .. len |-> [from |-> w, msg |-> n, pos |-> i]]

TypeOK ==
    /\ msgq_rx \in Seq(Input) /\ Len(msgq_rx) <= RxCap
    /\ msgq_tx \in Seq(Byte) /\ Len(msgq_tx) <= TxCap
    /\ is_echo \in BOOLEAN
    /\ left \in [Writers -> Seq(Byte)] /\ told \in [Writers -> Nat]
    /\ wire \in Seq(Byte) /\ echoes \in Nat

Init ==
    /\ msgq_rx = <<>> /\ msgq_tx = <<>> /\ is_echo = TRUE
    /\ left = [w \in Writers |-> <<>>] /\ told = [w \in Writers |-> 0]
    /\ wire = <<>> /\ echoes = 0

FifoCbUnbounded(b) ==
    /\ msgq_rx' = Append(msgq_rx, b)
    /\ echoes' = IF is_echo THEN echoes + 1 ELSE echoes
    /\ UNCHANGED <<is_echo, txvars>>

FifoCbEchoing(b) ==
    /\ msgq_rx' = IF Len(msgq_rx) < RxCap THEN Append(msgq_rx, b) ELSE msgq_rx
    /\ echoes' = echoes + 1
    /\ UNCHANGED <<is_echo, txvars>>

(* uart_broker_fifo_cb: a byte that finds the queue full is lost, and       *)
(* echoed all the same, past the transmit queue.                            *)
FifoCb(b) ==
    /\ msgq_rx' = IF Len(msgq_rx) < RxCap THEN Append(msgq_rx, b) ELSE msgq_rx
    /\ echoes' = IF is_echo THEN echoes + 1 ELSE echoes
    /\ UNCHANGED <<is_echo, txvars>>

(* uart_broker_thread.                                                      *)
Transmit ==
    /\ msgq_tx # <<>>
    /\ wire' = Append(wire, Head(msgq_tx)) /\ msgq_tx' = Tail(msgq_tx)
    /\ UNCHANGED <<rxvars, left, told>>

PutBegins(w, len) ==
    /\ left[w] = <<>>
    /\ told' = [told EXCEPT ![w] = @ + 1]
    /\ left' = [left EXCEPT ![w] = Message(w, told[w], len)]
    /\ UNCHANGED <<msgq_tx, wire>>

PutByte(w) ==
    /\ left[w] # <<>> /\ Len(msgq_tx) < TxCap
    /\ msgq_tx' = Append(msgq_tx, Head(left[w]))
    /\ left' = [left EXCEPT ![w] = Tail(@)]
    /\ UNCHANGED <<rxvars, told, wire>>

PutTimeoutSkipping(w) ==
    /\ left[w] # <<>> /\ Len(msgq_tx) = TxCap
    /\ left' = [left EXCEPT ![w] = Tail(@)]
    /\ UNCHANGED <<rxvars, msgq_tx, told, wire>>

(* The queue stayed full for 10 ms: the rest of the message is dropped.     *)
PutTimeout(w) ==
    /\ left[w] # <<>> /\ Len(msgq_tx) = TxCap
    /\ left' = [left EXCEPT ![w] = <<>>]
    /\ UNCHANGED <<rxvars, msgq_tx, told, wire>>

GetBytePeeking(b) ==
    /\ msgq_rx # <<>> /\ b = Head(msgq_rx)
    /\ UNCHANGED rxvars

GetByte(b) ==
    /\ msgq_rx # <<>> /\ b = Head(msgq_rx)
    /\ msgq_rx' = Tail(msgq_rx)
    /\ UNCHANGED <<is_echo, echoes>>

ClearReceiveQueue == msgq_rx' = <<>> /\ UNCHANGED <<is_echo, echoes>>

SetEcho(e) == is_echo' = e /\ UNCHANGED <<msgq_rx, echoes>>

-----------------------------------------------------------------------------

(* Whoever prints in between and however often the transmit queue is full:  *)
(* what the host gets of a message is a beginning of it, in order and       *)
(* without a hole, and no message begins before the writer's last one.      *)
NoHoles ==
    \A i, j \in DOMAIN wire :
        LET a == wire[i]
            b == wire[j]
        IN  i < j /\ a.from = b.from =>
              /\ a.msg <= b.msg
              /\ a.msg = b.msg => a.pos < b.pos
              /\ b.pos > 1 => \E k \in 1 .. j - 1 : wire[k] = [b EXCEPT !.pos = @ - 1]
=============================================================================
