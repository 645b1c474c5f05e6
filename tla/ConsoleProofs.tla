--------------------------- MODULE ConsoleProofs ----------------------------
(***************************************************************************)
(* The terminal side as a whole, for every size of the queues and of the    *)
(* line buffer, every table of commands and any number of bytes and events: *)
(* what the interrupt handler, the thread of the broker, main() and the     *)
(* handler of LTE events do to each other's state in any interleaving.      *)
(***************************************************************************)
EXTENDS Console, CmdLineProofs, SeqFacts

(* What the proofs use of the constants.                                    *)
LEMMA Capacities ==
    /\ TxCap \in Nat /\ RxCap \in Nat /\ MaxBytes \in Nat
    /\ AnswerLen \in Nat \ {0}
  BY ConsoleAssumption

-----------------------------------------------------------------------------
(* The command line inside the console.                                     *)

(* Whatever the other contexts do, and whatever bytes are lost on the way   *)
(* in or taken by a transfer, the command line only ever takes its own      *)
(* steps.                                                                   *)
LEMMA CommandLineStep == [Next]_vars => [CmdNext]_cmdvars
  <1>. SUFFICES ASSUME [Next]_vars PROVE [CmdNext]_cmdvars
    OBVIOUS
  <1>1. CASE PollByte \/ PollLine \/ PollFull
    BY <1>1 DEF PollByte, PollLine, PollFull, CmdNext, CmdParse
  <1>2. CASE \/ HostTypes \/ Thread \/ LtePrints \/ Put("lte") \/ Put("main")
             \/ Answered \/ XmodemBegin \/ TransferByte \/ XmodemEnd \/ UNCHANGED vars
    <2>1. UNCHANGED cmdvars
      BY <1>2 DEF HostTypes, Thread, LtePrints, Put, Answered, XmodemBegin,
         TransferByte, XmodemEnd, vars
    <2>. QED  BY <2>1
  <1>. QED  BY <1>1, <1>2 DEF Next, Main

(* The console drives the command line as CmdLine describes it, so all that *)
(* is proved there holds here.                                              *)
THEOREM ConsoleRunsCmdLine == Spec => CmdSpec
  <1>1. Init => CmdInit
    BY DEF Init
  <1>. QED  BY <1>1, CommandLineStep, PTL DEF Spec, CmdSpec

(* The index stays in the line buffer, transfers and lost bytes included.   *)
THEOREM ConsoleIndex == Spec => []IndexInBuffer
  BY ConsoleRunsCmdLine, IndexCorrect, PTL

(* Nothing of an earlier line is left in the buffer: no transfer and no     *)
(* lost byte makes main() skip the memset of a new line.                    *)
THEOREM ConsoleOnlyThisLine == Spec => []OnlyThisLine
  BY ConsoleRunsCmdLine, OnlyThisLineCorrect, PTL

(* The command that runs is the one the edited line names.                  *)
THEOREM ConsoleRunsTheLine == Spec => []RunsTheLine
  BY ConsoleRunsCmdLine, RunsTheLineCorrect, PTL

(* Behind the queue, too, the command line is a line editor.                *)
THEOREM ConsoleEditor == Spec => IsLineEditor
  BY ConsoleRunsCmdLine, EditorCorrect, PTL

-----------------------------------------------------------------------------
(* What a step does to the two directions of the serial line.               *)

(* Everything that changes the direction to the host.                       *)
LEMMA TxSteps ==
    ASSUME [Next]_vars
    PROVE  \/ UNCHANGED txvars
           \/ Broker!Transmit
           \/ \E w \in Writers : \/ Broker!PutBegins(w, AnswerLen)
                                 \/ Broker!PutByte(w) \/ Broker!PutTimeout(w)
  <1>1. "main" \in Writers /\ "lte" \in Writers
    BY DEF Writers
  <1>. HIDE DEF Writers
  <1>2. CASE HostTypes
    BY <1>2 DEF HostTypes, Broker!FifoCb, Broker!txvars, txvars
  <1>3. CASE Thread
    BY <1>3 DEF Thread
  <1>4. CASE LtePrints \/ Put("lte") \/ Put("main")
    BY <1>1, <1>4 DEF LtePrints, Put
  <1>5. CASE PollByte \/ PollLine \/ PollFull
    BY <1>1, <1>5 DEF PollByte, PollLine, PollFull, Answer
  <1>6. CASE Answered \/ XmodemBegin \/ TransferByte \/ XmodemEnd
    BY <1>1, <1>6 DEF Answered, XmodemBegin, TransferByte, XmodemEnd, Answer
  <1>7. CASE UNCHANGED vars
    BY <1>7 DEF vars
  <1>. QED  BY <1>2, <1>3, <1>4, <1>5, <1>6, <1>7 DEF Next, Main

(* Everything that changes the direction from the host.                     *)
LEMMA RxSteps ==
    ASSUME [Next]_vars
    PROVE  \/ UNCHANGED rxvars
           \/ \E b \in Bytes : Broker!FifoCb(b) \/ Broker!GetByte(b)
           \/ Broker!ClearReceiveQueue
           \/ Broker!SetEcho(TRUE) \/ Broker!SetEcho(FALSE)
  <1>1. CASE HostTypes
    BY <1>1 DEF HostTypes
  <1>2. CASE Thread \/ LtePrints \/ Put("lte") \/ Put("main") \/ Answered
    BY <1>2 DEF Thread, LtePrints, Put, Answered, Broker!Transmit, Broker!PutByte,
       Broker!PutTimeout, Broker!rxvars, rxvars
  <1>3. CASE PollByte \/ PollLine \/ PollFull \/ TransferByte
    BY <1>3 DEF PollByte, PollLine, PollFull, TransferByte
  <1>4. CASE XmodemBegin \/ XmodemEnd
    BY <1>4 DEF XmodemBegin, XmodemEnd
  <1>5. CASE UNCHANGED vars
    BY <1>5 DEF vars
  <1>. QED  BY <1>1, <1>2, <1>3, <1>4, <1>5 DEF Next, Main

-----------------------------------------------------------------------------
(* Types and capacities.                                                    *)

RxTypes ==
    /\ msgq_rx \in Seq(Bytes) /\ Len(msgq_rx) <= RxCap
    /\ is_echo \in BOOLEAN /\ echoes \in Nat

TxTypes ==
    /\ msgq_tx \in Seq(Broker!Byte) /\ Len(msgq_tx) <= TxCap
    /\ left \in [Writers -> Seq(Broker!Byte)] /\ told \in [Writers -> Nat]
    /\ wire \in Seq(Broker!Byte)

(* A message is a sequence of bytes numbered from 1.                        *)
LEMMA MessageFacts ==
    ASSUME NEW w \in Writers, NEW n \in Nat
    PROVE  LET m == Broker!Message(w, n, AnswerLen)
           IN  /\ m \in Seq(Broker!Byte) /\ Len(m) = AnswerLen
               /\ \A i \in 1 .. AnswerLen : m[i] = [from |-> w, msg |-> n, pos |-> i]
  <1>1. \A i \in 1 .. AnswerLen : [from |-> w, msg |-> n, pos |-> i] \in Broker!Byte
    BY Capacities DEF Broker!Byte
  <1>. QED  BY <1>1, Capacities DEF Broker!Message

(* The receive queue keeps its type and its capacity: the interrupt handler *)
(* loses what finds it full.                                                *)
LEMMA RxTypesStep ==
    ASSUME RxTypes, [Next]_vars
    PROVE  RxTypes'
  <1>. USE Capacities
  <1>1. CASE UNCHANGED rxvars
    BY <1>1 DEF rxvars, RxTypes
  <1>2. ASSUME NEW b \in Bytes, Broker!FifoCb(b) PROVE RxTypes'
    <2>1. Append(msgq_rx, b) \in Seq(Bytes) /\ Len(Append(msgq_rx, b)) = Len(msgq_rx) + 1
      BY AppendFacts DEF RxTypes
    <2>2. Len(msgq_rx) \in Nat
      BY DEF RxTypes
    <2>. QED  BY <1>2, <2>1, <2>2 DEF RxTypes, Broker!FifoCb
  <1>3. ASSUME NEW b \in Bytes, Broker!GetByte(b) PROVE RxTypes'
    <2>1. Tail(msgq_rx) \in Seq(Bytes) /\ Len(Tail(msgq_rx)) = Len(msgq_rx) - 1
      BY <1>3 DEF RxTypes, Broker!GetByte
    <2>2. Len(msgq_rx) \in Nat
      BY DEF RxTypes
    <2>. QED  BY <1>3, <2>1, <2>2 DEF RxTypes, Broker!GetByte
  <1>4. CASE Broker!ClearReceiveQueue
    BY <1>4 DEF RxTypes, Broker!ClearReceiveQueue
  <1>5. CASE Broker!SetEcho(TRUE) \/ Broker!SetEcho(FALSE)
    BY <1>5 DEF RxTypes, Broker!SetEcho
  <1>. QED  BY <1>1, <1>2, <1>3, <1>4, <1>5, RxSteps

(* The transmit queue keeps its type and its capacity, whoever writes.      *)
LEMMA TxTypesStep ==
    ASSUME TxTypes, [Next]_vars
    PROVE  TxTypes'
  <1>. USE Capacities
  <1>. DEFINE B == Broker!Byte
  <1>0. /\ msgq_tx \in Seq(B) /\ Len(msgq_tx) <= TxCap /\ wire \in Seq(B)
        /\ left \in [Writers -> Seq(B)] /\ told \in [Writers -> Nat] /\ Len(msgq_tx) \in Nat
    BY DEF TxTypes
  <1>1. CASE UNCHANGED txvars
    BY <1>1 DEF txvars, TxTypes
  <1>2. CASE Broker!Transmit
    <2>1. Head(msgq_tx) \in B /\ Tail(msgq_tx) \in Seq(B) /\ Len(Tail(msgq_tx)) = Len(msgq_tx) - 1
      BY <1>0, <1>2 DEF Broker!Transmit
    <2>2. Append(wire, Head(msgq_tx)) \in Seq(B)
      BY <1>0, <2>1, AppendFacts
    <2>. QED  BY <1>0, <1>2, <2>1, <2>2 DEF TxTypes, Broker!Transmit
  <1>3. ASSUME NEW w \in Writers, Broker!PutBegins(w, AnswerLen) PROVE TxTypes'
    <2>1. Broker!Message(w, told[w], AnswerLen) \in Seq(B)
      BY <1>0, MessageFacts
    <2>. QED  BY <1>0, <1>3, <2>1 DEF TxTypes, Broker!PutBegins
  <1>4. ASSUME NEW w \in Writers, Broker!PutByte(w) PROVE TxTypes'
    <2>1. left[w] \in Seq(B) /\ left[w] # <<>> /\ Len(msgq_tx) < TxCap
      BY <1>0, <1>4 DEF Broker!PutByte
    <2>2. Head(left[w]) \in B /\ Tail(left[w]) \in Seq(B)
      BY <2>1, TailFacts
    <2>3. Append(msgq_tx, Head(left[w])) \in Seq(B)
          /\ Len(Append(msgq_tx, Head(left[w]))) = Len(msgq_tx) + 1
      BY <1>0, <2>2, AppendFacts
    <2>. QED  BY <1>0, <1>4, <2>1, <2>2, <2>3 DEF TxTypes, Broker!PutByte, Broker!rxvars
  <1>5. ASSUME NEW w \in Writers, Broker!PutTimeout(w) PROVE TxTypes'
    BY <1>0, <1>5, EmptySeq DEF TxTypes, Broker!PutTimeout
  <1>. QED  BY <1>1, <1>2, <1>3, <1>4, <1>5, TxSteps

(* main() is in one of its places and the host has typed what it may.       *)
PlaceType ==
    /\ pc \in {"poll", "put", "begin", "purge", "transfer"}
    /\ typed \in 0 .. MaxBytes

(* Every step keeps it so.                                                  *)
LEMMA PlaceTypeStep ==
    ASSUME PlaceType, [Next]_vars
    PROVE  PlaceType'
  <1>. USE Capacities DEF PlaceType
  <1>1. CASE HostTypes
    BY <1>1 DEF HostTypes
  <1>2. CASE Thread \/ LtePrints \/ Put("lte") \/ Put("main") \/ PollByte \/ TransferByte
             \/ UNCHANGED vars
    BY <1>2 DEF Thread, LtePrints, Put, PollByte, TransferByte, vars
  <1>3. CASE PollLine \/ PollFull \/ Answered \/ XmodemBegin \/ XmodemEnd
    BY <1>3 DEF PollLine, PollFull, Answered, XmodemBegin, XmodemEnd, Answer
  <1>. QED  BY <1>1, <1>2, <1>3 DEF Next, Main

(* No queue grows beyond its capacity, no index leaves its buffer, whatever *)
(* the interleaving of the interrupt handler, the threads and the host.     *)
THEOREM ConsoleTypes == Spec => []TypeOK
  <1>. DEFINE Inv == CmdInv /\ Written /\ RxTypes /\ TxTypes /\ PlaceType
  <1>1. Init => RxTypes /\ TxTypes /\ PlaceType
    BY Capacities, EmptySeq DEF Init, Broker!Init, RxTypes, TxTypes, PlaceType
  <1>2. RxTypes /\ TxTypes /\ PlaceType /\ [Next]_vars => (RxTypes /\ TxTypes /\ PlaceType)'
    BY RxTypesStep, TxTypesStep, PlaceTypeStep
  <1>3. CmdInv /\ RxTypes /\ TxTypes /\ PlaceType => TypeOK
    BY DEF CmdInv, RxTypes, TxTypes, PlaceType, TypeOK, Broker!TypeOK
  <1>. QED
    BY <1>1, <1>2, <1>3, ConsoleRunsCmdLine, CmdInvariant, PTL DEF Spec

-----------------------------------------------------------------------------
(* The echo and a transfer.                                                 *)

(* From the purge of the receive queue on, the echo is off.                 *)
EchoOff == pc \in {"purge", "transfer"} => ~is_echo

(* Every step keeps it off until XmodemEnd.                                 *)
LEMMA EchoOffStep == EchoOff /\ [Next]_vars => EchoOff'
  <1>. SUFFICES ASSUME EchoOff, [Next]_vars PROVE EchoOff'
    OBVIOUS
  <1>. USE DEF EchoOff
  <1>1. CASE HostTypes \/ Thread \/ LtePrints \/ Put("lte") \/ Put("main") \/ UNCHANGED vars
    BY <1>1 DEF HostTypes, Broker!FifoCb, Thread, LtePrints, Put, Broker!Transmit,
       Broker!PutByte, Broker!PutTimeout, Broker!rxvars, rxvars, vars
  <1>2. CASE PollByte \/ PollLine \/ PollFull \/ Answered \/ TransferByte
    BY <1>2 DEF PollByte, PollLine, PollFull, Answered, TransferByte, Answer, Broker!GetByte
  <1>3. CASE XmodemBegin \/ XmodemEnd
    BY <1>3 DEF XmodemBegin, XmodemEnd, Answer, Broker!SetEcho, Broker!ClearReceiveQueue
  <1>. QED  BY <1>1, <1>2, <1>3 DEF Next, Main

(* Nothing the host sends during a transfer is echoed into it, at whatever  *)
(* step of XmodemBegin or of the transfer the interrupt comes.              *)
THEOREM TransferIsQuiet == Spec => QuietTransfer
  <1>1. Init => EchoOff
    BY DEF Init, EchoOff
  <1>2. EchoOff /\ [Next]_vars => [pc = "transfer" /\ pc' = "transfer" => echoes' = echoes]_vars
    <2>. SUFFICES ASSUME EchoOff, Next, pc = "transfer", pc' = "transfer"
                  PROVE  echoes' = echoes
      OBVIOUS
    <2>1. ~is_echo
      BY DEF EchoOff
    <2>. QED  BY <2>1, RxSteps DEF rxvars, Broker!FifoCb, Broker!GetByte,
              Broker!ClearReceiveQueue, Broker!SetEcho
  <1>. QED  BY <1>1, <1>2, EchoOffStep, PTL DEF Spec, QuietTransfer

-----------------------------------------------------------------------------
(* Messages of several writers in one queue.                                *)

(* What was queued so far, sent or not.                                     *)
Queued == wire \o msgq_tx

(* The byte before one of the same message.                                 *)
Before(b) == [b EXCEPT !.pos = @ - 1]

(* NoHoles of any sequence of bytes.                                        *)
Gapless(q) ==
    \A i, j \in DOMAIN q : i < j /\ q[i].from = q[j].from =>
        /\ q[i].msg <= q[j].msg
        /\ q[i].msg = q[j].msg => q[i].pos < q[j].pos
        /\ q[j].pos > 1 => \E k \in 1 .. j - 1 : q[k] = Before(q[j])

(* The message a writer is putting is its last one; what it has left goes   *)
(* on where the queued part of it ends.                                     *)
Continues(w) ==
    LET next == left[w][1].pos
    IN  left[w] # <<>> =>
          /\ \A k \in DOMAIN left[w] :
                left[w][k] = [from |-> w, msg |-> told[w] - 1, pos |-> next + k - 1]
          /\ \A i \in DOMAIN Queued :
                Queued[i].from = w /\ Queued[i].msg = told[w] - 1 => Queued[i].pos < next
          /\ next > 1 => \E k \in DOMAIN Queued :
                Queued[k] = [from |-> w, msg |-> told[w] - 1, pos |-> next - 1]

StreamInv ==
    /\ Gapless(Queued)
    /\ \A i \in DOMAIN Queued : Queued[i].msg < told[Queued[i].from]
    /\ \A w \in Writers : Continues(w)

(* The queue is what the wire goes on with.                                 *)
LEMMA QueuedFacts ==
    ASSUME TxTypes
    PROVE  /\ Queued \in Seq(Broker!Byte)
           /\ \A i \in DOMAIN wire : i \in DOMAIN Queued /\ Queued[i] = wire[i]
  BY DEF TxTypes, Queued

(* The thread moves a byte from the queue to the wire.                      *)
LEMMA QueuedTransmit ==
    ASSUME TxTypes, Broker!Transmit
    PROVE  Queued' = Queued
  <1>1. wire \in Seq(Broker!Byte) /\ msgq_tx \in Seq(Broker!Byte) /\ msgq_tx # <<>>
    BY DEF TxTypes, Broker!Transmit
  <1>2. wire' = Append(wire, Head(msgq_tx)) /\ msgq_tx' = Tail(msgq_tx)
    BY DEF Broker!Transmit
  <1>3. Queued \in Seq(Broker!Byte) /\ Queued' \in Seq(Broker!Byte) /\ Len(Queued') = Len(Queued)
    BY <1>1, <1>2 DEF Queued
  <1>4. \A i \in 1 .. Len(Queued') : Queued'[i] = Queued[i]
    BY <1>1, <1>2, <1>3 DEF Queued
  <1>. QED  BY <1>3, <1>4, SeqEqual

(* A writer adds the next byte of its message.                              *)
LEMMA QueuedPut ==
    ASSUME TxTypes, NEW w \in Writers, Broker!PutByte(w)
    PROVE  Queued' = Append(Queued, left[w][1])
  <1>1. /\ wire \in Seq(Broker!Byte) /\ msgq_tx \in Seq(Broker!Byte)
        /\ left[w] \in Seq(Broker!Byte) /\ left[w] # <<>>
    BY DEF TxTypes, Broker!PutByte
  <1>2. Head(left[w]) = left[w][1] /\ left[w][1] \in Broker!Byte
    BY <1>1, TailFacts
  <1>3. wire' = wire /\ msgq_tx' = Append(msgq_tx, left[w][1])
    BY <1>2 DEF Broker!PutByte
  <1>. HIDE DEF Writers
  <1>4. /\ Append(Queued, left[w][1]) \in Seq(Broker!Byte)
        /\ Queued' \in Seq(Broker!Byte)
        /\ Len(Queued') = Len(Append(Queued, left[w][1]))
    BY <1>1, <1>2, <1>3 DEF Queued
  <1>5. \A i \in 1 .. Len(Queued') : Queued'[i] = Append(Queued, left[w][1])[i]
    BY <1>1, <1>2, <1>3, <1>4 DEF Queued
  <1>. QED  BY <1>4, <1>5, SeqEqual

(* A byte that goes on where its writer's last one ends leaves no hole.     *)
LEMMA GaplessAppend ==
    ASSUME NEW q \in Seq(Broker!Byte), Gapless(q), NEW e \in Broker!Byte,
           \A i \in DOMAIN q : q[i].from = e.from =>
               q[i].msg <= e.msg /\ (q[i].msg = e.msg => q[i].pos < e.pos),
           e.pos > 1 => \E k \in DOMAIN q : q[k] = Before(e)
    PROVE  Gapless(Append(q, e))
  <1>. DEFINE r == Append(q, e)
  <1>1. /\ Len(q) \in Nat /\ DOMAIN q = 1 .. Len(q) /\ DOMAIN r = 1 .. Len(q) + 1
        /\ \A i \in 1 .. Len(q) : r[i] = q[i]
        /\ r[Len(q) + 1] = e
    OBVIOUS
  <1>. HIDE DEF r
  <1>2. ASSUME NEW i \in DOMAIN r, NEW j \in DOMAIN r, i < j, r[i].from = r[j].from
        PROVE  /\ r[i].msg <= r[j].msg
               /\ r[i].msg = r[j].msg => r[i].pos < r[j].pos
               /\ r[j].pos > 1 => \E k \in 1 .. j - 1 : r[k] = Before(r[j])
    <2>1. i \in 1 .. Len(q) /\ r[i] = q[i]
      BY <1>1, <1>2
    <2>2. CASE j \in 1 .. Len(q)
      <3>1. r[j] = q[j] /\ \A k \in 1 .. j - 1 : r[k] = q[k]
        BY <1>1, <2>2
      <3>. QED  BY <1>1, <1>2, <2>1, <2>2, <3>1 DEF Gapless
    <2>3. CASE j = Len(q) + 1
      <3>1. r[j] = e /\ j - 1 = Len(q) /\ q[i].from = e.from /\ i \in DOMAIN q
        BY <1>1, <1>2, <2>1, <2>3
      <3>. QED  BY <1>1, <2>1, <3>1
    <2>4. j \in 1 .. Len(q) \/ j = Len(q) + 1
      BY <1>1
    <2>. QED  BY <2>2, <2>3, <2>4
  <1>. QED  BY <1>2 DEF Gapless, r

(* Every step keeps the stream so.                                          *)
LEMMA StreamStep ==
    ASSUME TxTypes, StreamInv, [Next]_vars
    PROVE  StreamInv'
  <1>. DEFINE B == Broker!Byte
  <1>0. /\ left \in [Writers -> Seq(B)] /\ told \in [Writers -> Nat]
        /\ Queued \in Seq(B)
        /\ \A i \in DOMAIN Queued : Queued[i] \in B
    BY QueuedFacts, ElementOf DEF TxTypes
  <1>b. \A e \in B : e.from \in Writers /\ e.msg \in Nat /\ e.pos \in Nat \ {0}
    BY DEF Broker!Byte
  <1>c. \A i \in DOMAIN Queued :
           Queued[i].from \in Writers /\ Queued[i].msg \in Nat /\ Queued[i].pos \in Nat \ {0}
    BY <1>0, <1>b
  <1>. HIDE DEF B, Writers
  <1>1. CASE UNCHANGED txvars
    BY <1>1 DEF txvars, StreamInv, Continues, Queued
  <1>2. CASE Broker!Transmit
    <2>1. Queued' = Queued /\ UNCHANGED <<left, told>>
      BY <1>2, QueuedTransmit DEF Broker!Transmit
    <2>. QED  BY <2>1 DEF StreamInv, Continues
  <1>3. ASSUME NEW w \in Writers, Broker!PutBegins(w, AnswerLen) PROVE StreamInv'
    <2>1. Queued' = Queued
      BY <1>3 DEF Broker!PutBegins, Queued
    <2>2. \A v \in Writers :
             /\ told'[v] = IF v = w THEN told[w] + 1 ELSE told[v]
             /\ left'[v] = IF v = w THEN Broker!Message(w, told[w], AnswerLen) ELSE left[v]
      BY <1>0, <1>3 DEF Broker!PutBegins
    <2>3. \A i \in DOMAIN Queued : Queued[i].msg < told'[Queued[i].from]
      <3>1. ASSUME NEW i \in DOMAIN Queued PROVE Queued[i].msg < told'[Queued[i].from]
        <4>1. Queued[i].msg < told[Queued[i].from]
          BY DEF StreamInv
        <4>2. told[Queued[i].from] \in Nat
          BY <1>0, <1>c
        <4>. QED  BY <1>c, <2>2, <4>1, <4>2
      <3>. QED  BY <3>1
    <2>4. Continues(w)'
      <3>. DEFINE m == Broker!Message(w, told[w], AnswerLen)
      <3>1. /\ m \in Seq(Broker!Byte) /\ Len(m) = AnswerLen
            /\ \A i \in 1 .. AnswerLen : m[i] = [from |-> w, msg |-> told[w], pos |-> i]
        BY <1>0, MessageFacts
      <3>2. left'[w] = m /\ told'[w] - 1 = told[w]
        <4>1. told'[w] = told[w] + 1 /\ told[w] \in Nat
          BY <1>0, <2>2
        <4>. QED  BY <2>2, <4>1
      <3>. HIDE DEF m
      <3>3. DOMAIN m = 1 .. AnswerLen /\ m[1].pos = 1
        BY <3>1, Capacities
      <3>4. \A i \in DOMAIN Queued : Queued[i].from = w => Queued[i].msg < told[w]
        BY DEF StreamInv
      <3>5. \A k \in DOMAIN m : m[k] = [from |-> w, msg |-> told[w], pos |-> 1 + k - 1]
        BY <3>1, <3>3, Capacities
      <3>6. \A i \in DOMAIN Queued : ~(Queued[i].from = w /\ Queued[i].msg = told[w])
        BY <1>0, <1>b, <3>4
      <3>. QED  BY <2>1, <3>2, <3>3, <3>5, <3>6 DEF Continues
    <2>5. ASSUME NEW v \in Writers, v # w PROVE Continues(v)'
      <3>1. left'[v] = left[v] /\ told'[v] = told[v] /\ Continues(v)
        BY <2>2, <2>5 DEF StreamInv
      <3>. QED  BY <2>1, <3>1 DEF Continues
    <2>. QED  BY <2>1, <2>3, <2>4, <2>5 DEF StreamInv
  <1>4. ASSUME NEW w \in Writers, Broker!PutByte(w) PROVE StreamInv'
    <2>. DEFINE e == left[w][1]
                n == Len(Queued) + 1
    <2>1. Queued' = Append(Queued, e) /\ told' = told
      BY <1>4, QueuedPut DEF Broker!PutByte
    <2>2. left[w] \in Seq(B) /\ left[w] # <<>> /\ Continues(w)
      BY <1>0, <1>4 DEF Broker!PutByte, StreamInv
    <2>3. 1 \in DOMAIN left[w] /\ e \in B
      BY <2>2, TailFacts
    <2>4. e = [from |-> w, msg |-> told[w] - 1, pos |-> e.pos]
      <3>1. e = [from |-> w, msg |-> told[w] - 1, pos |-> e.pos + 1 - 1]
        BY <2>2, <2>3 DEF Continues
      <3>. QED  BY <1>b, <2>3, <3>1
    <2>5. e.from = w /\ e.msg = told[w] - 1 /\ e.pos \in Nat \ {0} /\ told[w] \in Nat
      BY <1>0, <1>b, <2>3, <2>4
    <2>6. /\ \A i \in DOMAIN Queued : Queued[i].from = e.from =>
                Queued[i].msg <= e.msg /\ (Queued[i].msg = e.msg => Queued[i].pos < e.pos)
          /\ e.pos > 1 => \E k \in DOMAIN Queued : Queued[k] = Before(e)
      <3>1. ASSUME NEW i \in DOMAIN Queued, Queued[i].from = w
            PROVE  Queued[i].msg <= e.msg /\ (Queued[i].msg = e.msg => Queued[i].pos < e.pos)
        BY <1>0, <1>b, <2>2, <2>5, <3>1 DEF StreamInv, Continues
      <3>2. ASSUME e.pos > 1
            PROVE  \E k \in DOMAIN Queued : Queued[k] = Before(e)
        <4>1. Before(e) = [from |-> w, msg |-> told[w] - 1, pos |-> e.pos - 1]
          BY <2>4 DEF Before
        <4>. QED  BY <2>2, <3>2, <4>1 DEF Continues
      <3>. QED  BY <2>5, <3>1, <3>2
    <2>. HIDE DEF e
    <2>7. Gapless(Queued')
      BY <1>0, <2>1, <2>3, <2>6, GaplessAppend DEF StreamInv, B
    <2>8. /\ Len(Queued) \in Nat /\ DOMAIN Queued = 1 .. Len(Queued)
          /\ DOMAIN Queued' = 1 .. n /\ Queued'[n] = e
          /\ \A i \in 1 .. Len(Queued) : Queued'[i] = Queued[i]
      BY <1>0, <2>1, <2>3
    <2>9. \A i \in DOMAIN Queued' : Queued'[i].msg < told'[Queued'[i].from]
      <3>1. \A i \in 1 .. Len(Queued) : Queued'[i].msg < told'[Queued'[i].from]
        BY <2>1, <2>8 DEF StreamInv
      <3>2. Queued'[n].msg < told'[Queued'[n].from]
        BY <2>1, <2>5, <2>8
      <3>. QED  BY <2>8, <3>1, <3>2
    <2>10. \A v \in Writers : left'[v] = IF v = w THEN Tail(left[w]) ELSE left[v]
      BY <1>0, <1>4 DEF Broker!PutByte
    <2>11. Continues(w)'
      <3>. SUFFICES ASSUME left'[w] # <<>> PROVE Continues(w)'
        BY DEF Continues
      <3>. DEFINE t == Tail(left[w])
      <3>1. left'[w] = t /\ t # <<>>
        BY <2>10
      <3>2. \A k \in DOMAIN t :
               /\ k \in Nat /\ k + 1 \in DOMAIN left[w] /\ t[k] = left[w][k + 1]
        BY <2>2, TailFacts
      <3>3. \A k \in DOMAIN t : t[k] = [from |-> w, msg |-> told[w] - 1, pos |-> e.pos + k]
        <4>1. ASSUME NEW k \in DOMAIN t
              PROVE  t[k] = [from |-> w, msg |-> told[w] - 1, pos |-> e.pos + k]
          <5>1. left[w][k + 1] = [from |-> w, msg |-> told[w] - 1, pos |-> e.pos + (k + 1) - 1]
            BY <2>2, <3>2 DEF Continues, e
          <5>2. e.pos + (k + 1) - 1 = e.pos + k
            BY <2>5, <3>2
          <5>. QED  BY <3>2, <5>1, <5>2
        <4>. QED  BY <4>1
      <3>4. t \in Seq(B) /\ 1 \in DOMAIN t
        BY <2>2, <3>1, TailFacts
      <3>. HIDE DEF t
      <3>5. t[1].pos = e.pos + 1
        BY <3>3, <3>4
      <3>6. \A k \in DOMAIN t :
               t[k] = [from |-> w, msg |-> told[w] - 1, pos |-> t[1].pos + k - 1]
        <4>1. \A k \in DOMAIN t : k \in Nat
          BY <3>4
        <4>2. \A k \in Nat : e.pos + k = t[1].pos + k - 1
          BY <2>5, <3>5
        <4>. QED  BY <3>3, <4>1, <4>2
      <3>7. \A i \in DOMAIN Queued' :
               Queued'[i].from = w /\ Queued'[i].msg = told[w] - 1 => Queued'[i].pos < t[1].pos
        <4>1. \A i \in 1 .. Len(Queued) :
                 Queued'[i].from = w /\ Queued'[i].msg = told[w] - 1 => Queued'[i].pos < e.pos
          BY <2>2, <2>8 DEF Continues, e
        <4>2. \A i \in 1 .. Len(Queued) : Queued'[i].pos \in Nat
          BY <1>0, <1>b, <2>8
        <4>. QED  BY <2>5, <2>8, <3>5, <4>1, <4>2
      <3>8. Queued'[n] = [from |-> w, msg |-> told[w] - 1, pos |-> t[1].pos - 1]
        BY <2>4, <2>5, <2>8, <3>5
      <3>9. n \in DOMAIN Queued'
        BY <2>8
      <3>. QED  BY <2>1, <3>1, <3>6, <3>7, <3>8, <3>9 DEF Continues
    <2>12. ASSUME NEW v \in Writers, v # w PROVE Continues(v)'
      <3>1. left'[v] = left[v] /\ told'[v] = told[v] /\ Continues(v)
        BY <2>1, <2>10, <2>12 DEF StreamInv
      <3>2. \A i \in DOMAIN Queued' : \/ i \in DOMAIN Queued /\ Queued'[i] = Queued[i]
                                      \/ Queued'[i].from # v
        BY <2>5, <2>8, <2>12
      <3>3. \A k \in DOMAIN Queued : k \in DOMAIN Queued' /\ Queued'[k] = Queued[k]
        BY <2>8
      <3>. QED  BY <3>1, <3>2, <3>3 DEF Continues
    <2>. QED  BY <2>7, <2>9, <2>11, <2>12 DEF StreamInv
  <1>5. ASSUME NEW w \in Writers, Broker!PutTimeout(w) PROVE StreamInv'
    <2>1. Queued' = Queued /\ told' = told
      BY <1>5 DEF Broker!PutTimeout, Queued
    <2>2. \A v \in Writers : left'[v] = IF v = w THEN <<>> ELSE left[v]
      BY <1>0, <1>5 DEF Broker!PutTimeout
    <2>3. ASSUME NEW v \in Writers PROVE Continues(v)'
      <3>1. Continues(v)
        BY DEF StreamInv
      <3>. QED  BY <2>1, <2>2, <3>1 DEF Continues
    <2>. QED  BY <2>1, <2>3 DEF StreamInv
  <1>. QED  BY <1>1, <1>2, <1>3, <1>4, <1>5, TxSteps

(* Whoever prints in between, however often the transmit queue stays full   *)
(* and messages are dropped, what the host gets of a message is a beginning *)
(* of it, in order and without a hole, and messages of one writer do not    *)
(* overtake each other.                                                     *)
THEOREM ConsoleNoHoles == Spec => []NoHoles
  <1>1. Init => TxTypes /\ StreamInv
    <2>. SUFFICES ASSUME Init PROVE TxTypes /\ StreamInv
      OBVIOUS
    <2>1. TxTypes
      BY Capacities, EmptySeq DEF Init, Broker!Init, TxTypes
    <2>2. Queued = <<>> /\ \A w \in Writers : left[w] = <<>>
      BY DEF Init, Broker!Init, Queued
    <2>. QED  BY <2>1, <2>2 DEF StreamInv, Gapless, Continues
  <1>2. TxTypes /\ StreamInv /\ [Next]_vars => (TxTypes /\ StreamInv)'
    BY TxTypesStep, StreamStep
  <1>3. TxTypes /\ StreamInv => NoHoles
    <2>. SUFFICES ASSUME TxTypes, StreamInv PROVE NoHoles
      OBVIOUS
    <2>1. \A i \in DOMAIN wire : i \in DOMAIN Queued /\ Queued[i] = wire[i] /\ i \in 1 .. Len(wire)
      BY QueuedFacts DEF TxTypes
    <2>2. \A j \in DOMAIN wire : \A k \in 1 .. j - 1 : k \in DOMAIN wire
      BY DEF TxTypes
    <2>3. Gapless(wire)
      BY <2>1, <2>2 DEF StreamInv, Gapless
    <2>. QED  BY <2>3 DEF Gapless, Before, NoHoles, Broker!NoHoles
  <1>. QED  BY <1>1, <1>2, <1>3, PTL DEF Spec
=============================================================================
