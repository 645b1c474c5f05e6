----------------------------- MODULE FputProofs -----------------------------
(***************************************************************************)
(* Proofs about Fput, for every file, every number of block numbers, every  *)
(* retry limit, every queue and any number of line faults.                  *)
(***************************************************************************)
EXTENDS Fput, SeqFacts, TLAPS

(* What the proofs use of the constants; the retry limits, the capacity of  *)
(* the queue, the size and the switches of the environment are arbitrary.   *)
LEMMA Params ==
    /\ BNMod \in Nat /\ BNMod > 1
    /\ NBlocks \in Nat \ {0}
    /\ BlockLen \in Nat \ {0}
  BY BNModAssumption, FputAssumption

USE Params

----------------------------------------------------------------------------
(* Block numbers stay in range.                                             *)

(* A remainder is a block number.                                           *)
LEMMA ModRange == \A x \in Nat : x % BNMod \in 0 .. BNMod - 1
  OBVIOUS

(* The number of the first block is 1, whatever BNMod is.                   *)
LEMMA OneMod == 1 % BNMod = 1
  OBVIOUS

(* The successor of a block number is one.                                  *)
LEMMA NextBNRange == \A b \in 0 .. BNMod - 1 : NextBN(b) \in 0 .. BNMod - 1
  BY ModRange DEF NextBN

(* A block of the host, hit or not, is a unit.                              *)
LEMMA HostBlockType ==
    ASSUME NEW i \in FrameData, NEW flaw \in Flaws
    PROVE  Block(i % BNMod, i, flaw) \in Units(FrameData)
  BY ModRange DEF Block, Units, FrameData, Kinds

(* A control byte is a unit.                                                *)
LEMMA CtrlType == \A k \in Kinds : Ctrl(k) \in Units(FrameData)
  BY DEF Ctrl, Units, FrameData, Flaws

----------------------------------------------------------------------------
(* The pieces actions are made of.                                          *)

(* XmodemReceiveBlock keeps the queue and the block buffer in their types   *)
(* and takes at most one unit.                                              *)
LEMMA ReceiveType ==
    ASSUME TypeOK, NEW ret, XmodemReceiveBlock(ret)
    PROVE  /\ rxq' \in Seq(Units(FrameData))
           /\ blk' \in FrameData
           /\ rxq' = rxq \/ (rxq # <<>> /\ rxq' = Tail(rxq))
  <1>1. CASE ReceiveTimeout(ret)
    BY <1>1 DEF ReceiveTimeout, TypeOK
  <1>2. CASE ReceiveUnit(ret)
    <2>1. rxq # <<>> /\ (rxq' = Tail(rxq) \/ rxq' = rxq)
      BY <1>2 DEF ReceiveUnit
    <2>2. rxq \in Seq(Units(FrameData)) /\ blk \in FrameData
      BY DEF TypeOK
    <2>3. Head(rxq) \in Units(FrameData) /\ Tail(rxq) \in Seq(Units(FrameData))
      BY <2>1, <2>2, TailFacts
    <2>4. blk' = blk \/ blk' = Head(rxq).data
      BY <1>2 DEF ReceiveUnit
    <2>. QED  BY <2>1, <2>2, <2>3, <2>4 DEF Units
  <1>. QED  BY <1>1, <1>2 DEF XmodemReceiveBlock

(* Only an undamaged block with the number after bn is taken.               *)
LEMMA ReceiveOk ==
    ASSUME TypeOK, XmodemReceiveBlock("OK")
    PROVE  /\ rxq # <<>> /\ rxq' = Tail(rxq)
           /\ Head(rxq).t = "blk" /\ blk' = Head(rxq).data
           /\ Head(rxq).bn # bn /\ Head(rxq).bn = NextBN(bn)
  <1>1. ReceiveUnit("OK")
    BY DEF XmodemReceiveBlock, ReceiveTimeout
  <1>2. "OK" \in ReceiveRets(Head(rxq), bn)
    BY <1>1 DEF ReceiveUnit
  <1>3. Head(rxq).t = "blk" /\ BlockValidation(Head(rxq), bn) = "OK"
    BY <1>2 DEF ReceiveRets
  <1>4. Head(rxq).bn # bn /\ Head(rxq).bn = NextBN(bn)
    BY <1>3 DEF BlockValidation
  <1>. QED  BY <1>1, <1>3, <1>4 DEF ReceiveUnit

(* One byte to the host, queued or not, keeps the line in its type.         *)
LEMMA ReplyType ==
    ASSUME TypeOK, NEW byte \in Control, Reply(byte) \/ Queued(byte) \/ NotQueued
    PROVE  toHost' \in Seq(Control) /\ faults' \in Nat
  <1>1. toHost \in Seq(Control) /\ faults \in Nat
    BY DEF TypeOK
  <1>2. faults' \in Nat
    BY <1>1 DEF Reply, Queued, NotQueued, Fault
  <1>3. toHost' = toHost \/ toHost' = Append(toHost, byte)
    BY DEF Reply, Queued, NotQueued
  <1>. QED  BY <1>1, <1>2, <1>3, AppendFacts

(* What a cancel leaves on the line: none, one or both of its CAN.          *)
LEMMA CancelFacts ==
    ASSUME TypeOK, TransmitCancel
    PROVE  \/ toHost' = toHost
           \/ toHost' = Append(toHost, "CAN")
           \/ toHost' = Append(Append(toHost, "CAN"), "CAN")
  BY DEF TransmitCancel

(* The two CAN keep the line in its type.                                   *)
LEMMA CancelType ==
    ASSUME TypeOK, TransmitCancel
    PROVE  toHost' \in Seq(Control) /\ faults' \in Nat
  <1>1. toHost \in Seq(Control) /\ "CAN" \in Control /\ faults \in Nat
    BY DEF TypeOK, Control
  <1>2. Append(toHost, "CAN") \in Seq(Control)
    BY <1>1, AppendFacts
  <1>3. Append(Append(toHost, "CAN"), "CAN") \in Seq(Control)
    BY <1>1, <1>2, AppendFacts
  <1>4. faults' \in Nat
    BY <1>1 DEF TransmitCancel, Fault
  <1>. QED  BY <1>1, <1>2, <1>3, <1>4, CancelFacts

(* A unit that arrives keeps the receive queue in its type.                 *)
LEMMA ArriveType ==
    ASSUME TypeOK, NEW unit \in Units(FrameData), Arrive(unit)
    PROVE  rxq' \in Seq(Units(FrameData))
  BY AppendFacts DEF TypeOK, Arrive

(* A block sent by the host, lost or damaged, keeps the queue in its type.  *)
LEMMA SendBlockType ==
    ASSUME TypeOK, NEW i \in 1 .. NBlocks, SendBlock(i)
    PROVE  rxq' \in Seq(Units(FrameData)) /\ faults' \in Nat
  <1>1. i \in FrameData
    BY DEF FrameData
  <1>2. HostBlock(i) \in Units(FrameData) /\ Damaged(i) \subseteq Units(FrameData)
    BY <1>1, HostBlockType, CtrlType DEF HostBlock, Damaged, Flaws, Kinds
  <1>3. faults' \in Nat
    BY DEF SendBlock, Fault, TypeOK
  <1>4. rxq' = rxq \/ \E unit \in Units(FrameData) : Arrive(unit)
    BY <1>2 DEF SendBlock
  <1>. QED  BY <1>3, <1>4, ArriveType DEF TypeOK

(* The EOT of the host keeps the queue in its type.                         *)
LEMMA SendEotType ==
    ASSUME TypeOK, SendEot
    PROVE  rxq' \in Seq(Units(FrameData)) /\ faults' \in Nat
  <1>1. faults' \in Nat
    BY DEF SendEot, Fault, TypeOK
  <1>2. rxq' = rxq \/ \E unit \in Units(FrameData) : Arrive(unit)
    BY CtrlType DEF SendEot, Kinds
  <1>. QED  BY <1>1, <1>2, ArriveType DEF TypeOK

(* A chunk passed to the server keeps what it has in its type.              *)
LEMMA ChunkType ==
    ASSUME TypeOK, NEW data \in FrameData, SendChunkedData(data)
    PROVE  /\ upload' \in Seq([data : FrameData, len : 0 .. BlockLen])
           /\ total' \in Nat
  <1>1. PICK len \in SendLens : /\ upload' = Append(upload, [data |-> data, len |-> len])
                                /\ total' = total + len
    BY DEF SendChunkedData
  <1>2. len \in 0 .. BlockLen
    BY DEF SendLens
  <1>. QED  BY <1>1, <1>2, AppendFacts DEF TypeOK

(* The host takes the first byte of the line.                               *)
LEMMA HeardType ==
    ASSUME TypeOK, NEW byte, Heard(byte)
    PROVE  toHost' \in Seq(Control) /\ toHost # <<>> /\ Head(toHost) = byte /\ toHost' = Tail(toHost)
  BY TailFacts DEF TypeOK, Control, Heard

----------------------------------------------------------------------------
(* TypeOK is invariant.                                                     *)

(* The initial state is well typed.                                         *)
LEMMA TypeInit == Init => TypeOK
  <1>. SUFFICES ASSUME Init PROVE TypeOK
    OBVIOUS
  <1>1. echo \in BOOLEAN /\ sockOpen \in BOOLEAN /\ stored \in BOOLEAN
    BY DEF Init
  <1>2. /\ rxq \in Seq(Units(FrameData)) /\ toHost \in Seq(Control)
        /\ upload \in Seq([data : FrameData, len : 0 .. BlockLen])
    BY EmptySeq DEF Init
  <1>3. bn = 0 /\ blk = 0 /\ hidx = 1
    BY DEF Init
  <1>4. bn \in 0 .. BNMod - 1 /\ blk \in FrameData /\ hidx \in 1 .. NBlocks
    BY <1>3 DEF FrameData
  <1>. QED  BY <1>1, <1>2, <1>4 DEF Init, TypeOK, Statuses, Verdicts

(* A step of the device keeps the types.                                    *)
LEMMA TypeDevice ==
    ASSUME TypeOK, Device
    PROVE  TypeOK'
<1>. USE DEF device, server, host
<1>1. CASE FputStart
  <2>1. toHost' \in Seq(Control) /\ faults' \in Nat
    BY <1>1, ReplyType DEF FputStart, Control
  <2>2. echo' \in BOOLEAN /\ stored' \in BOOLEAN
    BY <1>1 DEF FputStart
  <2>3. /\ rxq' \in Seq(Units(FrameData))
        /\ upload' \in Seq([data : FrameData, len : 0 .. BlockLen])
    BY <1>1, EmptySeq DEF FputStart
  <2>4. bn' \in 0 .. BNMod - 1 /\ retry' \in Nat /\ total' \in Nat
    BY <1>1 DEF FputStart
  <2>5. pc' \in {"first", "idle"} /\ result' \in Verdicts
    BY <1>1 DEF FputStart, Verdicts
  <2>6. UNCHANGED <<blk, sockOpen, upStatus, cmpStatus, host>>
    BY <1>1 DEF FputStart
  <2>. QED  BY <2>1, <2>2, <2>3, <2>4, <2>5, <2>6 DEF TypeOK
<1>2. CASE ParseStray
  BY <1>2, TailFacts DEF ParseStray, TypeOK
<1>3. CASE FirstBlock
  BY <1>3, ReceiveType, NextBNRange DEF FirstBlock, TypeOK
<1>4. CASE FirstRetry
  <2>1. toHost' \in Seq(Control) /\ faults' \in Nat
    BY <1>4, ReplyType DEF FirstRetry, Control
  <2>. QED  BY <1>4, <2>1, ReceiveType DEF FirstRetry, TypeOK
<1>5. CASE FirstRetryOver
  BY <1>5, CancelType, ReceiveType DEF FirstRetryOver, Answer, XmodemEnd, TypeOK, Verdicts
<1>6. CASE FirstFailed
  <2>1. toHost' \in Seq(Control) /\ faults' \in Nat
    BY <1>6, ReplyType DEF FirstFailed, Control, TypeOK
  <2>2. rxq' \in Seq(Units(FrameData)) /\ blk' \in FrameData
    BY <1>6, ReceiveType DEF FirstFailed
  <2>. QED  BY <1>6, <2>1, <2>2 DEF FirstFailed, Answer, XmodemEnd, TypeOK, Verdicts
<1>7. CASE UploadRefused
  BY <1>7 DEF UploadRefused, Answer, XmodemEnd, TypeOK, Verdicts
<1>8. CASE Connected
  BY <1>8 DEF Connected, TypeOK
<1>9. CASE FirstChunk
  <2>1. toHost' \in Seq(Control) /\ faults' \in Nat
    BY <1>9, ReplyType DEF FirstChunk, Control
  <2>2. blk \in FrameData /\ 1 \in 0 .. BNMod - 1
    BY DEF TypeOK
  <2>. QED  BY <1>9, <2>1, <2>2, ChunkType DEF FirstChunk, TypeOK
<1>10. CASE FirstChunkFailed
  BY <1>10 DEF FirstChunkFailed, TypeOK
<1>11. CASE NextChunk
  <2>1. toHost' \in Seq(Control) /\ faults' \in Nat
    BY <1>11, ReplyType DEF NextChunk, Control
  <2>2. rxq' \in Seq(Units(FrameData)) /\ blk' \in FrameData
    BY <1>11, ReceiveType DEF NextChunk
  <2>3. upload' \in Seq([data : FrameData, len : 0 .. BlockLen]) /\ total' \in Nat
    BY <1>11, <2>2, ChunkType DEF NextChunk
  <2>. QED  BY <1>11, <2>1, <2>2, <2>3, NextBNRange DEF NextChunk, TypeOK
<1>12. CASE NextChunkFailed
  BY <1>12, CancelType, ReceiveType, NextBNRange
     DEF NextChunkFailed, Answer, XmodemEnd, TypeOK, Verdicts
<1>13. CASE AskAgain
  <2>1. toHost' \in Seq(Control) /\ faults' \in Nat
    BY <1>13, ReplyType DEF AskAgain, Control
  <2>. QED  BY <1>13, <2>1, ReceiveType DEF AskAgain, TypeOK
<1>14. CASE RetryOver
  <2>1. toHost' \in Seq(Control) /\ faults' \in Nat
    BY <1>14, CancelType DEF RetryOver
  <2>2. rxq' \in Seq(Units(FrameData)) /\ blk' \in FrameData
    BY <1>14, ReceiveType DEF RetryOver
  <2>3. echo' \in BOOLEAN /\ sockOpen' \in BOOLEAN
    BY <1>14 DEF RetryOver, Answer, XmodemEnd
  <2>4. retry' \in Nat /\ bn' = bn /\ total' = total
    BY <1>14 DEF RetryOver, TypeOK
  <2>5. pc' = "idle" /\ result' = "NG"
    BY <1>14 DEF RetryOver, Answer
  <2>6. UNCHANGED <<upStatus, cmpStatus, server, host>>
    BY <1>14 DEF RetryOver
  <2>. QED  BY <2>1, <2>2, <2>3, <2>4, <2>5, <2>6 DEF TypeOK, Verdicts
<1>15. CASE Unanswered
  <2>1. toHost' \in Seq(Control) /\ faults' \in Nat
    BY <1>15 DEF Unanswered, Control, TypeOK, NotQueued, Fault
  <2>2. rxq' \in Seq(Units(FrameData)) /\ blk' \in FrameData
    BY <1>15, ReceiveType DEF Unanswered
  <2>. QED  BY <1>15, <2>1, <2>2 DEF Unanswered, TypeOK
<1>16. CASE TransferEnds
  <2>1. toHost' \in Seq(Control) /\ faults' \in Nat
    BY <1>16, ReplyType DEF TransferEnds, Control, TypeOK
  <2>2. rxq' \in Seq(Units(FrameData)) /\ blk' \in FrameData
    BY <1>16, ReceiveType DEF TransferEnds
  <2>3. sockOpen' \in BOOLEAN
    BY <1>16 DEF TransferEnds
  <2>. QED  BY <1>16, <2>1, <2>2, <2>3 DEF TransferEnds, TypeOK
<1>17. CASE UploadResponse
  <2>1. PICK status \in Statuses : UploadStatus(status)
    BY <1>17 DEF UploadResponse, TypeOK, Statuses
  <2>. QED  BY <1>17, <2>1 DEF UploadResponse, UploadStatus, Answer, XmodemEnd, TypeOK, Verdicts
<1>18. CASE CompleteResponse
  <2>1. PICK status \in Statuses : CompleteStatus(status)
    BY <1>18 DEF CompleteResponse, TypeOK, Statuses
  <2>2. stored' \in BOOLEAN
    BY <1>18 DEF CompleteResponse, TypeOK
  <2>. QED  BY <1>18, <2>1, <2>2 DEF CompleteResponse, CompleteStatus, Answer, XmodemEnd, TypeOK, Verdicts
<1>19. CASE RequestFailed
  BY <1>19 DEF RequestFailed, Answer, XmodemEnd, TypeOK, Verdicts
<1>20. CASE Unconnected
  BY <1>20 DEF Unconnected, UploadStatus, Answer, XmodemEnd, TypeOK, Verdicts
<1>. QED
  BY <1>1, <1>2, <1>3, <1>4, <1>5, <1>6, <1>7, <1>8, <1>9, <1>10, <1>11, <1>12,
     <1>13, <1>14, <1>15, <1>16, <1>17, <1>18, <1>19, <1>20 DEF Device

(* A step of the host keeps the types.                                      *)
LEMMA TypeHost ==
    ASSUME TypeOK, Host
    PROVE  TypeOK'
<1>. USE DEF device, server, host
<1>1. CASE HostCommand
  BY <1>1, CtrlType, ArriveType DEF HostCommand, TypeOK, Kinds
<1>2. CASE HostFirst
  BY <1>2, HeardType, SendBlockType DEF HostFirst, TypeOK
<1>3. CASE HostNextBlock
  <2>1. hidx + 1 \in 1 .. NBlocks
    BY <1>3 DEF HostNextBlock, TypeOK
  <2>. QED  BY <1>3, <2>1, HeardType, SendBlockType DEF HostNextBlock, TypeOK
<1>4. CASE HostLastAcked
  BY <1>4, HeardType, SendEotType DEF HostLastAcked, TypeOK
<1>5. CASE HostDone
  BY <1>5, HeardType DEF HostDone, TypeOK
<1>6. CASE HostAgain
  <2>1. rxq' \in Seq(Units(FrameData)) /\ faults' \in Nat
    BY <1>6, SendBlockType, SendEotType DEF HostAgain, SendCurrent, TypeOK
  <2>2. toHost' \in Seq(Control)
    BY <1>6, HeardType DEF HostAgain, TypeOK
  <2>. QED  BY <1>6, <2>1, <2>2 DEF HostAgain, TypeOK
<1>7. CASE HostAbort
  <2>1. rxq' \in Seq(Units(FrameData))
    BY <1>7, CtrlType, ArriveType DEF HostAbort, TypeOK, Kinds
  <2>2. toHost' \in Seq(Control)
    BY <1>7, HeardType DEF HostAbort, TypeOK
  <2>. QED  BY <1>7, <2>1, <2>2 DEF HostAbort, TypeOK
<1>8. CASE HostSkips
  <2>1. toHost' \in Seq(Control) /\ faults' \in Nat
    BY <1>8, TailFacts DEF HostSkips, TypeOK, Control, Fault
  <2>. QED  BY <1>8, <2>1 DEF HostSkips, TypeOK
<1>. QED
  BY <1>1, <1>2, <1>3, <1>4, <1>5, <1>6, <1>7, <1>8 DEF Host

(* Every step keeps the types.                                              *)
LEMMA TypeStep == TypeOK /\ [Next]_vars => TypeOK'
  BY TypeDevice, TypeHost DEF Next, vars, device, server, host, TypeOK

(* The state of Fput always has its type, whatever the constants: no index, *)
(* counter or buffer leaves its range.                                      *)
THEOREM TypeCorrect == Spec => []TypeOK
  BY TypeInit, TypeStep, PTL DEF Spec

----------------------------------------------------------------------------
(* The line: what one Tail and one Append do to the order of its blocks.    *)

(* Every unit has a position in the file.                                   *)
LEMMA DataNat ==
    ASSUME NEW q \in Seq(Units(FrameData))
    PROVE  \A i \in DOMAIN q : q[i].data \in Nat
  <1>1. \A i \in DOMAIN q : q[i] \in Units(FrameData)
    OBVIOUS
  <1>2. \A unit \in Units(FrameData) : unit.data \in Nat
    BY DEF Units, FrameData
  <1>. QED  BY <1>1, <1>2

(* Taking the first unit keeps the order, and nothing left is older than    *)
(* it.                                                                      *)
LEMMA OrderedTail ==
    ASSUME NEW q \in Seq(Units(FrameData)), q # <<>>,
           NEW lo \in Nat, NEW hi \in Nat, Ordered(q, lo, hi)
    PROVE  /\ Ordered(Tail(q), lo, hi)
           /\ Head(q).t = "blk" =>
                 /\ Head(q).bn = Head(q).data % BNMod
                 /\ Head(q).data >= 1 /\ Head(q).data >= lo /\ Head(q).data <= hi
                 /\ Ordered(Tail(q), Head(q).data, hi)
  <1>1. /\ Head(q) = q[1] /\ 1 \in DOMAIN q
        /\ \A i \in DOMAIN Tail(q) :
              i \in Nat /\ i > 0 /\ i + 1 \in DOMAIN q /\ Tail(q)[i] = q[i + 1]
    BY TailFacts
  <1>2. \A i \in DOMAIN q : q[i].data \in Nat
    BY DataNat
  <1>3. ASSUME NEW i \in DOMAIN Tail(q), Tail(q)[i].t = "blk"
        PROVE  /\ Tail(q)[i].bn = Tail(q)[i].data % BNMod
               /\ Tail(q)[i].data >= 1 /\ Tail(q)[i].data >= lo
               /\ Tail(q)[i].data <= hi
               /\ Head(q).t = "blk" => Tail(q)[i].data >= Head(q).data
    <2>1. /\ i + 1 \in DOMAIN q /\ Tail(q)[i] = q[i + 1] /\ i \in Nat /\ 1 < i + 1
          /\ 1 \in DOMAIN q /\ Head(q) = q[1]
      BY <1>1
    <2>2. q[1].data \in Nat /\ q[i + 1].data \in Nat
      BY <1>2, <2>1
    <2>3. q[1].t = "blk" => q[1].data <= q[i + 1].data
      BY <1>3, <2>1 DEF Ordered
    <2>. QED  BY <1>3, <2>1, <2>2, <2>3 DEF Ordered
  <1>4. ASSUME NEW i \in DOMAIN Tail(q), NEW j \in DOMAIN Tail(q),
               Tail(q)[i].t = "blk", Tail(q)[j].t = "blk", i < j
        PROVE  Tail(q)[i].data <= Tail(q)[j].data
    <2>1. /\ i + 1 \in DOMAIN q /\ Tail(q)[i] = q[i + 1]
          /\ j + 1 \in DOMAIN q /\ Tail(q)[j] = q[j + 1]
          /\ i \in Nat /\ j \in Nat
      BY <1>1
    <2>2. i + 1 < j + 1
      BY <1>4, <2>1
    <2>. QED  BY <1>4, <2>1, <2>2 DEF Ordered
  <1>5. Ordered(Tail(q), lo, hi)
    BY <1>3, <1>4 DEF Ordered
  <1>6. ASSUME Head(q).t = "blk" PROVE Ordered(Tail(q), Head(q).data, hi)
    BY <1>3, <1>4, <1>6 DEF Ordered
  <1>. QED  BY <1>1, <1>5, <1>6 DEF Ordered

(* A unit that is no block, or a block as new as any, keeps the order.      *)
LEMMA OrderedAppend ==
    ASSUME NEW q \in Seq(Units(FrameData)), NEW unit \in Units(FrameData),
           NEW lo \in Nat, NEW hi \in Nat, NEW top \in Nat,
           Ordered(q, lo, hi), hi <= top,
           unit.t = "blk" => /\ unit.bn = unit.data % BNMod /\ unit.data = top
                             /\ top >= 1 /\ top >= lo
    PROVE  Ordered(Append(q, unit), lo, top)
  <1>1. \A i \in DOMAIN Append(q, unit) :
           \/ i \in DOMAIN q /\ Append(q, unit)[i] = q[i] /\ i < Len(q) + 1
           \/ i = Len(q) + 1 /\ Append(q, unit)[i] = unit /\ i \notin DOMAIN q
    BY AppendFacts
  <1>2. \A i \in DOMAIN q : q[i].data \in Nat
    BY DataNat
  <1>3. Len(q) \in Nat /\ \A i \in DOMAIN q : i \in Nat /\ i <= Len(q)
    OBVIOUS
  <1>4. ASSUME NEW i \in DOMAIN Append(q, unit), Append(q, unit)[i].t = "blk"
        PROVE  /\ Append(q, unit)[i].bn = Append(q, unit)[i].data % BNMod
               /\ Append(q, unit)[i].data >= 1 /\ Append(q, unit)[i].data >= lo
               /\ Append(q, unit)[i].data <= top
    <2>1. CASE i \in DOMAIN q /\ Append(q, unit)[i] = q[i]
      BY <1>2, <1>4, <2>1 DEF Ordered
    <2>2. CASE Append(q, unit)[i] = unit
      BY <1>4, <2>2
    <2>. QED  BY <1>1, <2>1, <2>2
  <1>5. ASSUME NEW i \in DOMAIN Append(q, unit), NEW j \in DOMAIN Append(q, unit),
               Append(q, unit)[i].t = "blk", Append(q, unit)[j].t = "blk", i < j
        PROVE  Append(q, unit)[i].data <= Append(q, unit)[j].data
    <2>1. i \in DOMAIN q /\ Append(q, unit)[i] = q[i]
      BY <1>1, <1>3, <1>5
    <2>2. CASE j \in DOMAIN q /\ Append(q, unit)[j] = q[j]
      BY <1>5, <2>1, <2>2 DEF Ordered
    <2>3. CASE Append(q, unit)[j] = unit
      <3>1. unit.data = top
        BY <1>5, <2>3
      <3>. QED  BY <1>4, <1>5, <2>3, <3>1
    <2>. QED  BY <1>1, <2>2, <2>3
  <1>. QED  BY <1>4, <1>5 DEF Ordered

(* The upper bound of the order may be raised.                              *)
LEMMA OrderedGrows ==
    ASSUME NEW q \in Seq(Units(FrameData)),
           NEW lo \in Nat, NEW hi \in Nat, NEW top \in Nat,
           Ordered(q, lo, hi), hi <= top
    PROVE  Ordered(q, lo, top)
  <1>1. \A i \in DOMAIN q : q[i].data \in Nat
    BY DataNat
  <1>. QED  BY <1>1 DEF Ordered

(* XmodemReceiveBlock keeps the order.                                      *)
LEMMA OrderedReceive ==
    ASSUME TypeOK, NEW ret, XmodemReceiveBlock(ret),
           NEW lo \in Nat, NEW hi \in Nat, Ordered(rxq, lo, hi)
    PROVE  Ordered(rxq', lo, hi)
  BY ReceiveType, OrderedTail DEF TypeOK

(* A control byte keeps the order.                                          *)
LEMMA OrderedControl ==
    ASSUME TypeOK, NEW k \in Kinds \ {"blk"}, Arrive(Ctrl(k)),
           NEW lo \in Nat, NEW hi \in Nat, Ordered(rxq, lo, hi)
    PROVE  Ordered(rxq', lo, hi)
  <1>1. Ctrl(k) \in Units(FrameData) /\ Ctrl(k).t # "blk"
    BY CtrlType DEF Ctrl
  <1>. QED  BY <1>1, OrderedAppend DEF Arrive, TypeOK

(* Sending the host's current block, sound or damaged, keeps the order.     *)
LEMMA OrderedSendBlock ==
    ASSUME TypeOK, NEW n \in 1 .. NBlocks, SendBlock(n),
           NEW lo \in Nat, NEW hi \in Nat, lo <= n, hi <= n, Ordered(rxq, lo, hi)
    PROVE  Ordered(rxq', lo, n)
  <1>1. n \in FrameData /\ n \in Nat
    BY DEF FrameData
  <1>2. \A flaw \in Flaws :
           LET b == Block(n % BNMod, n, flaw)
           IN  b \in Units(FrameData) /\ b.bn = b.data % BNMod /\ b.data = n
    BY <1>1, HostBlockType DEF Block
  <1>3. ASSUME NEW flaw \in Flaws, Arrive(Block(n % BNMod, n, flaw))
        PROVE  Ordered(rxq', lo, n)
    <2>1. PICK b \in Units(FrameData) :
             b = Block(n % BNMod, n, flaw) /\ b.bn = b.data % BNMod /\ b.data = n
      BY <1>2
    <2>2. rxq \in Seq(Units(FrameData)) /\ n >= 1
      BY DEF TypeOK
    <2>3. Ordered(Append(rxq, b), lo, n)
      BY <1>1, <2>1, <2>2, OrderedAppend
    <2>4. Ordered(rxq, lo, n)
      BY <1>1, <2>2, OrderedGrows
    <2>. QED  BY <1>3, <2>1, <2>3, <2>4 DEF Arrive
  <1>4. ASSUME NEW k \in Kinds \ {"blk"}, Arrive(Ctrl(k))
        PROVE  Ordered(rxq', lo, n)
    <2>1. rxq \in Seq(Units(FrameData)) /\ rxq' \in Seq(Units(FrameData))
      BY <1>4, CtrlType, ArriveType DEF TypeOK
    <2>2. Ordered(rxq', lo, hi)
      BY <1>4, OrderedControl
    <2>. QED  BY <1>1, <2>1, <2>2, OrderedGrows
  <1>5. CASE UNCHANGED rxq
    BY <1>1, <1>5, OrderedGrows DEF TypeOK
  <1>. QED  BY <1>3, <1>4, <1>5 DEF SendBlock, HostBlock, Damaged, Flaws, Kinds

(* The EOT keeps the order.                                                 *)
LEMMA OrderedSendEot ==
    ASSUME TypeOK, SendEot,
           NEW lo \in Nat, NEW hi \in Nat, Ordered(rxq, lo, hi)
    PROVE  Ordered(rxq', lo, hi)
  BY OrderedControl DEF SendEot, Kinds

----------------------------------------------------------------------------
(* Credit: what one byte queued, heard or lost does to the balance.         *)

(* Only an ACK adds to the ACK on the line.                                 *)
LEMMA AcksAppend ==
    ASSUME NEW q \in Seq(Control), NEW byte \in Control
    PROVE  /\ byte # "ACK" => Acks(Append(q, byte)) \subseteq Acks(q)
           /\ Acks(Append(q, byte)) \subseteq Acks(q) \cup {Len(q) + 1}
  BY AppendFacts DEF Acks

(* Hearing one byte adds no ACK to the line.                                *)
LEMMA AcksTail ==
    ASSUME NEW q \in Seq(Control), q # <<>>
    PROVE  /\ \A i \in Acks(Tail(q)) : i \in Nat /\ i + 1 \in Acks(q) /\ i + 1 # 1
           /\ Head(q) = "ACK" => 1 \in Acks(q)
  BY TailFacts DEF Acks

(* The host may believe less.                                               *)
LEMMA CreditWeakens ==
    ASSUME NEW q, NEW pos \in Int, NEW less \in Int, NEW n \in Nat, less <= pos
    PROVE  /\ OpenCredit(q, pos, n) => OpenCredit(q, less, n) /\ ClosedCredit(q, less, n)
           /\ ClosedCredit(q, pos, n) => ClosedCredit(q, less, n)
  BY DEF OpenCredit, ClosedCredit

(* A byte that is no ACK leaves the balance as it is.                       *)
LEMMA CreditOther ==
    ASSUME NEW q \in Seq(Control), NEW byte \in Control \ {"ACK"},
           NEW pos \in Int, NEW n \in Nat
    PROVE  /\ OpenCredit(q, pos, n) => OpenCredit(Append(q, byte), pos, n)
           /\ ClosedCredit(q, pos, n) => ClosedCredit(Append(q, byte), pos, n)
  BY AcksAppend DEF OpenCredit, ClosedCredit

(* A chunk passed on pays for one ACK.                                      *)
LEMMA CreditChunk ==
    ASSUME NEW q \in Seq(Control), NEW pos \in Int, NEW n \in Nat,
           OpenCredit(q, pos, n), pos >= n
    PROVE  OpenCredit(q, pos, n + 1) /\ OpenCredit(Append(q, "ACK"), pos, n + 1)
  <1>1. Acks(q) = {}
    BY DEF OpenCredit
  <1>2. Acks(Append(q, "ACK")) \subseteq {Len(q) + 1}
    BY <1>1, AcksAppend DEF Control
  <1>. QED  BY <1>1, <1>2 DEF OpenCredit

(* The ACK of the EOT is the one left over at the end.                      *)
LEMMA CreditEot ==
    ASSUME NEW q \in Seq(Control), NEW pos \in Int, NEW n \in Nat,
           OpenCredit(q, pos, n)
    PROVE  ClosedCredit(Append(q, "ACK"), pos, n)
  <1>1. Acks(Append(q, "ACK")) \subseteq Acks(q) \cup {Len(q) + 1}
    BY AcksAppend DEF Control
  <1>. QED  BY <1>1 DEF OpenCredit, ClosedCredit

(* An ACK the host hears moves from the line to its belief.                 *)
LEMMA CreditHeard ==
    ASSUME NEW q \in Seq(Control), q # <<>>, NEW pos \in Int, NEW n \in Nat
    PROVE  /\ OpenCredit(q, pos, n) =>
                 /\ OpenCredit(Tail(q), pos, n)
                 /\ Head(q) = "ACK" => OpenCredit(Tail(q), pos + 1, n)
           /\ ClosedCredit(q, pos, n) =>
                 /\ ClosedCredit(Tail(q), pos, n)
                 /\ Head(q) = "ACK" => ClosedCredit(Tail(q), pos + 1, n)
  <1>1. /\ \A i \in Acks(Tail(q)) : i \in Nat /\ i + 1 \in Acks(q) /\ i + 1 # 1
        /\ Head(q) = "ACK" => 1 \in Acks(q)
    BY AcksTail
  <1>2. OpenCredit(q, pos, n) =>
           /\ OpenCredit(Tail(q), pos, n)
           /\ Head(q) = "ACK" => OpenCredit(Tail(q), pos + 1, n)
    BY <1>1 DEF OpenCredit
  <1>3. ClosedCredit(q, pos, n) => ClosedCredit(Tail(q), pos, n)
    BY <1>1 DEF ClosedCredit
  <1>4. ASSUME ClosedCredit(q, pos, n), Head(q) = "ACK"
        PROVE  ClosedCredit(Tail(q), pos + 1, n)
    <2>1. 1 \in Acks(q) /\ pos + 1 <= n + 1
      BY <1>1, <1>4 DEF ClosedCredit
    <2>2. \A i \in Acks(Tail(q)) : pos + 1 <= n
      BY <1>1, <1>4, <2>1 DEF ClosedCredit
    <2>3. \A i, j \in Acks(Tail(q)) : i = j
      BY <1>1, <1>4, <2>1 DEF ClosedCredit
    <2>. QED  BY <2>1, <2>2, <2>3 DEF ClosedCredit
  <1>. QED  BY <1>2, <1>3, <1>4

(* The belief of the host is a number, at most one from its index.          *)
LEMMA PosFacts ==
    ASSUME TypeOK
    PROVE  Pos \in Int /\ Pos >= hidx - 1 /\ Pos >= 0 /\ Len(upload) \in Nat
  BY DEF TypeOK, Pos

----------------------------------------------------------------------------
(* The host's side of the invariant, and the command on the line.           *)

(* A step of the device leaves the host alone.                              *)
LEMMA DeviceKeepsHost == Device => UNCHANGED host
  BY DEF Device, FputStart, ParseStray, FirstBlock, FirstRetry, FirstRetryOver,
     FirstFailed, UploadRefused, Connected, FirstChunk, FirstChunkFailed,
     NextChunk, NextChunkFailed, AskAgain, RetryOver, Unanswered, TransferEnds,
     Unconnected, UploadResponse, CompleteResponse, RequestFailed, device, server, host

(* A step of the host leaves the device and the server alone.               *)
LEMMA HostKeepsDevice == Host => UNCHANGED <<device, server>>
  BY DEF Host, HostCommand, HostFirst, HostNextBlock, HostLastAcked, HostDone,
     HostAgain, HostAbort, HostSkips, host

(* Every step keeps what the host's states say of its index and tries.      *)
LEMMA HostInvStep == IInv /\ [Next]_vars => HostInv'
  <1>. SUFFICES ASSUME IInv, [Next]_vars PROVE HostInv'
    OBVIOUS
  <1>1. CASE Device \/ UNCHANGED vars
    BY <1>1, DeviceKeepsHost DEF IInv, HostInv, vars, host
  <1>2. CASE Host
    BY <1>2 DEF IInv, HostInv, TypeOK, host, Sending, Host, HostCommand, HostFirst,
       HostNextBlock, HostLastAcked, HostDone, HostAgain, HostAbort, HostSkips
  <1>. QED  BY <1>1, <1>2 DEF Next

(* Nothing but a new command puts a command on the line.                    *)
LEMMA NoCommandTail ==
    ASSUME NEW S, NEW q \in Seq(S), q # <<>>, NoCommand(q)
    PROVE  NoCommand(Tail(q))
  BY TailFacts DEF NoCommand

(* A unit that is no command brings none.                                   *)
LEMMA NoCommandArrive ==
    ASSUME TypeOK, NEW unit \in Units(FrameData), unit.t # "CMD", NoCommand(rxq), Arrive(unit)
    PROVE  NoCommand(rxq')
  BY AppendFacts DEF NoCommand, Arrive, TypeOK

(* XmodemReceiveBlock brings no command.                                    *)
LEMMA NoCommandReceive ==
    ASSUME TypeOK, NEW ret, XmodemReceiveBlock(ret), NoCommand(rxq)
    PROVE  NoCommand(rxq')
  BY ReceiveType, NoCommandTail DEF TypeOK

(* Nothing the host sends during a session is a command.                    *)
LEMMA NoCommandSent ==
    ASSUME TypeOK, NoCommand(rxq),
           (\E i \in 1 .. NBlocks : SendBlock(i)) \/ SendEot \/ Arrive(Ctrl("CAN"))
    PROVE  NoCommand(rxq')
  <1>1. \A k \in Kinds \ {"CMD"} : Ctrl(k) \in Units(FrameData) /\ Ctrl(k).t # "CMD"
    BY CtrlType DEF Ctrl
  <1>2. CASE \E i \in 1 .. NBlocks : SendBlock(i)
    <2>1. PICK i \in 1 .. NBlocks : SendBlock(i)
      BY <1>2
    <2>2. \A flaw \in Flaws : /\ Block(i % BNMod, i, flaw) \in Units(FrameData)
                              /\ Block(i % BNMod, i, flaw).t # "CMD"
      <3>1. i \in FrameData
        BY DEF FrameData
      <3>. QED  BY <3>1, HostBlockType DEF Block
    <2>3. \A unit \in {HostBlock(i)} \cup Damaged(i) : unit \in Units(FrameData) /\ unit.t # "CMD"
      BY <1>1, <2>2 DEF HostBlock, Damaged, Flaws, Kinds
    <2>. QED  BY <2>1, <2>3, NoCommandArrive DEF SendBlock
  <1>3. CASE SendEot
    BY <1>1, <1>3, NoCommandArrive DEF SendEot, Kinds
  <1>4. CASE Arrive(Ctrl("CAN"))
    BY <1>1, <1>4, NoCommandArrive DEF Kinds
  <1>. QED  BY <1>2, <1>3, <1>4

(* Every step keeps a command alone on the line.                            *)
LEMMA CommandInvStep == IInv /\ [Next]_vars => CommandInv'
  <1>. SUFFICES ASSUME IInv, [Next]_vars PROVE CommandInv'
    OBVIOUS
  <1>. USE DEF device, server, host
  <1>1. TypeOK /\ CommandInv /\ HostInv
    BY DEF IInv
  <1>2. CASE UNCHANGED vars
    BY <1>1, <1>2 DEF CommandInv, vars, NoCommand
  <1>3. CASE FputStart
    BY <1>3 DEF FputStart, CommandInv, NoCommand
  <1>4. CASE ParseStray
    <2>1. NoCommand(rxq) => NoCommand(rxq')
      BY <1>1, <1>4, NoCommandTail DEF ParseStray, TypeOK
    <2>. QED  BY <1>1, <1>4, <2>1 DEF ParseStray, CommandInv
  <1>5. CASE Device /\ ~FputStart /\ ~ParseStray
    <2>1. pc # "idle"
      BY <1>5 DEF Device, FirstBlock, FirstRetry, FirstRetryOver,
         FirstFailed, UploadRefused, Connected, FirstChunk, FirstChunkFailed,
         NextChunk, NextChunkFailed, AskAgain, RetryOver, Unanswered, TransferEnds,
         Unconnected, UploadResponse, CompleteResponse, RequestFailed
    <2>2. NoCommand(rxq)
      BY <1>1, <2>1 DEF CommandInv
    <2>3. rxq' = rxq \/ \E ret \in RecvRets : XmodemReceiveBlock(ret)
      BY <1>5 DEF Device, FirstBlock, FirstRetry, FirstRetryOver,
         FirstFailed, UploadRefused, Connected, FirstChunk, FirstChunkFailed,
         NextChunk, NextChunkFailed, AskAgain, RetryOver, Unanswered, TransferEnds,
         Unconnected, UploadResponse, CompleteResponse, RequestFailed, RecvRets
    <2>4. NoCommand(rxq')
      BY <1>1, <2>2, <2>3, NoCommandReceive
    <2>. QED  BY <2>4 DEF CommandInv
  <1>6. CASE HostCommand
    BY <1>6 DEF HostCommand, CommandInv
  <1>7. CASE HostAbort
    <2>1. NoCommand(rxq) => NoCommand(rxq')
      BY <1>1, <1>7, NoCommandSent DEF HostAbort
    <2>2. ~NoCommand(rxq) => toHost' = <<>>
      BY <1>1, <1>7 DEF HostAbort, CommandInv, Heard
    <2>. QED  BY <1>1, <1>7, <2>1, <2>2 DEF HostAbort, CommandInv
  <1>8. CASE Host /\ ~HostCommand /\ ~HostAbort
    <2>1. NoCommand(rxq)
      BY <1>1, <1>8 DEF Host, HostFirst, HostNextBlock, HostLastAcked, HostDone,
         HostAgain, HostSkips, Heard, Sending, CommandInv
    <2>2. rxq' = rxq \/ (\E i \in 1 .. NBlocks : SendBlock(i)) \/ SendEot
      BY <1>1, <1>8 DEF Host, HostFirst, HostNextBlock, HostLastAcked, HostDone,
         HostAgain, HostSkips, SendCurrent, TypeOK
    <2>3. NoCommand(rxq')
      BY <1>1, <2>1, <2>2, NoCommandSent
    <2>. QED  BY <2>3 DEF CommandInv
  <1>. QED  BY <1>2, <1>3, <1>4, <1>5, <1>6, <1>7, <1>8 DEF Next

----------------------------------------------------------------------------
(* What the device takes and passes on.                                     *)

Core == UploadInOrder /\ LineInv /\ PhaseInv /\ CreditInv

(* What the invariant says while blocks are taken.                          *)
LEMMA OpenFacts ==
    ASSUME IInv, pc \in Open
    PROVE  /\ Ordered(rxq, Len(upload), hidx)
           /\ OpenCredit(toHost, Pos, Len(upload))
           /\ Len(upload) \in Nat /\ Len(upload) <= hidx /\ hidx <= Len(upload) + 1
           /\ hidx \in 1 .. NBlocks
           /\ pc \in Early => Len(upload) = 0 /\ hidx = 1
  <1>1. TypeOK /\ LineInv /\ PhaseInv /\ CreditInv
    BY DEF IInv
  <1>2. Pos <= Len(upload) /\ Pos >= hidx - 1 /\ Len(upload) \in Nat /\ hidx \in 1 .. NBlocks
    BY <1>1, PosFacts DEF CreditInv, OpenCredit, TypeOK
  <1>3. pc \in Early => Len(upload) = 0
    BY <1>1 DEF PhaseInv
  <1>. QED  BY <1>1, <1>2, <1>3, PosFacts DEF LineInv, PhaseInv, CreditInv

(* The block taken is the one after the last passed on: a repeated block    *)
(* has the number of the last one, and the host is at most one ahead.       *)
LEMMA TakenBlock ==
    ASSUME IInv, pc \in Open, bn = Len(upload) % BNMod, XmodemReceiveBlock("OK")
    PROVE  /\ blk' = Len(upload) + 1 /\ blk' <= hidx
           /\ NextBN(bn) = (Len(upload) + 1) % BNMod
           /\ Ordered(rxq', Len(upload) + 1, hidx)
  <1>1. TypeOK
    BY DEF IInv
  <1>2. /\ rxq # <<>> /\ rxq' = Tail(rxq)
        /\ Head(rxq).t = "blk" /\ blk' = Head(rxq).data
        /\ Head(rxq).bn # bn /\ Head(rxq).bn = NextBN(bn)
    BY <1>1, ReceiveOk
  <1>3. /\ Head(rxq).bn = Head(rxq).data % BNMod
        /\ Head(rxq).data >= Len(upload) /\ Head(rxq).data <= hidx
        /\ Ordered(Tail(rxq), Head(rxq).data, hidx)
    BY <1>1, <1>2, OpenFacts, OrderedTail DEF TypeOK
  <1>4. Head(rxq).data # Len(upload)
    BY <1>2, <1>3
  <1>5. Head(rxq).data \in Nat
    BY <1>1, <1>2, TailFacts, DataNat DEF TypeOK
  <1>6. Head(rxq).data = Len(upload) + 1
    BY <1>3, <1>4, <1>5, OpenFacts
  <1>. QED  BY <1>2, <1>3, <1>6

(* The next block of the file keeps the server's file in order.             *)
LEMMA ChunkInOrder ==
    ASSUME TypeOK, UploadInOrder, NEW data \in FrameData, SendChunkedData(data),
           data = Len(upload) + 1
    PROVE  UploadInOrder' /\ Len(upload') = Len(upload) + 1 /\ upload' # <<>>
  <1>1. PICK len \in SendLens : upload' = Append(upload, [data |-> data, len |-> len])
    BY DEF SendChunkedData
  <1>2. [data |-> data, len |-> len] \in [data : FrameData, len : 0 .. BlockLen]
    BY DEF SendLens
  <1>3. upload \in Seq([data : FrameData, len : 0 .. BlockLen]) /\ Len(upload) \in Nat
    BY DEF TypeOK
  <1>4. /\ Len(upload') = Len(upload) + 1
        /\ \A i \in DOMAIN upload' :
              \/ i \in DOMAIN upload /\ upload'[i] = upload[i]
              \/ i = Len(upload) + 1 /\ upload'[i] = [data |-> data, len |-> len]
    BY <1>1, <1>2, <1>3, AppendFacts
  <1>5. Len(upload') <= NBlocks
    BY <1>4 DEF FrameData
  <1>6. \A i \in DOMAIN upload' : upload'[i].data = i
    BY <1>4 DEF UploadInOrder
  <1>. QED  BY <1>3, <1>4, <1>5, <1>6 DEF UploadInOrder

(* A step in which blocks are still taken and nothing is passed on.         *)
LEMMA StaysOpen ==
    ASSUME IInv, pc \in Open, pc' \in Open, UNCHANGED <<upload, host>>,
           PhaseInv', Ordered(rxq', Len(upload), hidx),
           \/ toHost' = toHost
           \/ toHost' = Append(toHost, "NAK")
    PROVE  Core'
  <1>1. Pos' = Pos /\ hidx' = hidx
    BY DEF Pos, host
  <1>2. toHost \in Seq(Control) /\ "NAK" \in Control \ {"ACK"} /\ TypeOK
    BY DEF IInv, TypeOK, Control
  <1>3. OpenCredit(toHost', Pos, Len(upload))
    BY <1>2, OpenFacts, CreditOther, PosFacts
  <1>4. UploadInOrder'
    BY DEF IInv, UploadInOrder
  <1>. QED  BY <1>1, <1>3, <1>4 DEF Core, LineInv, CreditInv

(* A step after which no more blocks are taken.                             *)
LEMMA Closes ==
    ASSUME IInv, pc \in Open, pc' \notin Open, UNCHANGED <<upload, host>>,
           \/ toHost' = toHost
           \/ toHost' = Append(toHost, "ACK")
           \/ toHost' = Append(toHost, "CAN")
           \/ toHost' = Append(Append(toHost, "CAN"), "CAN")
    PROVE  Core'
  <1>1. Pos' = Pos
    BY DEF Pos, host
  <1>2. toHost \in Seq(Control) /\ "CAN" \in Control \ {"ACK"} /\ TypeOK
    BY DEF IInv, TypeOK, Control
  <1>3. Append(toHost, "CAN") \in Seq(Control)
    BY <1>2, AppendFacts
  <1>4. OpenCredit(toHost, Pos, Len(upload)) /\ Pos \in Int /\ Len(upload) \in Nat
    BY <1>2, OpenFacts, PosFacts
  <1>5. ClosedCredit(toHost, Pos, Len(upload))
    BY <1>4, CreditWeakens
  <1>6. ClosedCredit(toHost', Pos, Len(upload))
    BY <1>2, <1>3, <1>4, <1>5, CreditOther, CreditEot
  <1>7. UploadInOrder'
    BY DEF IInv, UploadInOrder
  <1>8. LineInv' /\ PhaseInv'
    BY DEF LineInv, PhaseInv, Open, Early
  <1>. QED  BY <1>1, <1>6, <1>7, <1>8 DEF Core, CreditInv

(* A step outside the transfer.                                             *)
LEMMA StaysClosed ==
    ASSUME IInv, pc \notin Open, pc' \notin Open, UNCHANGED <<upload, host, toHost>>
    PROVE  Core'
  <1>1. Pos' = Pos
    BY DEF Pos, host
  <1>2. LineInv' /\ PhaseInv'
    BY DEF LineInv, PhaseInv, Open, Early
  <1>3. UploadInOrder' /\ CreditInv'
    BY <1>1 DEF IInv, UploadInOrder, CreditInv
  <1>. QED  BY <1>2, <1>3 DEF Core

(* A block is passed on and acknowledged, or the ACK is lost.               *)
LEMMA PassesOn ==
    ASSUME IInv, pc \in Open, pc' = "recv", UNCHANGED host,
           NEW data \in FrameData, data = Len(upload) + 1, data <= hidx, SendChunkedData(data),
           bn' = (Len(upload) + 1) % BNMod,
           Ordered(rxq', Len(upload) + 1, hidx),
           Reply("ACK")
    PROVE  Core'
  <1>1. Pos' = Pos /\ hidx' = hidx
    BY DEF Pos, host
  <1>2. TypeOK /\ UploadInOrder /\ toHost \in Seq(Control)
    BY DEF IInv, TypeOK
  <1>3. UploadInOrder' /\ Len(upload') = Len(upload) + 1 /\ upload' # <<>>
    BY <1>2, ChunkInOrder
  <1>4. Pos \in Int /\ Len(upload) \in Nat /\ Pos >= Len(upload)
    BY <1>2, PosFacts DEF TypeOK
  <1>5. OpenCredit(toHost', Pos, Len(upload) + 1)
    BY <1>2, <1>4, OpenFacts, CreditChunk DEF Reply
  <1>6. CreditInv' /\ LineInv'
    BY <1>1, <1>3, <1>5 DEF CreditInv, LineInv, Open
  <1>7. PhaseInv'
    BY <1>1, <1>3 DEF PhaseInv, Early
  <1>. QED  BY <1>3, <1>6, <1>7 DEF Core

(* A step of the device keeps order, phases and balance.                    *)
LEMMA CoreDevice ==
    ASSUME IInv, Device
    PROVE  Core'
<1>. USE DEF device, server
<1>0. TypeOK /\ PhaseInv /\ CommandInv /\ UNCHANGED host
  BY DeviceKeepsHost DEF IInv
<1>1. CASE FputStart
  <2>1. rxq # <<>> /\ ~NoCommand(rxq)
    BY <1>0, <1>1, TailFacts DEF FputStart, NoCommand, TypeOK
  <2>2. toHost = <<>> /\ Pos = 0 /\ Pos' = 0 /\ hidx' = hidx /\ hidx = 1
    BY <1>0, <2>1 DEF CommandInv, Pos, host
  <2>3. rxq' = <<>> /\ upload' = <<>> /\ bn' = 0 /\ pc' \in {"first", "idle"}
    BY <1>1 DEF FputStart
  <2>4. Acks(toHost') = {}
    BY <1>1, <2>2 DEF FputStart, Queued, NotQueued, Acks
  <2>5. OpenCredit(toHost', 0, 0) /\ ClosedCredit(toHost', 0, 0)
    BY <2>4 DEF OpenCredit, ClosedCredit
  <2>6. UploadInOrder'
    BY <2>3 DEF UploadInOrder
  <2>7. CreditInv'
    BY <2>2, <2>3, <2>5 DEF CreditInv
  <2>8. LineInv'
    BY <2>3 DEF LineInv, Ordered
  <2>9. PhaseInv'
    BY <2>2, <2>3 DEF PhaseInv, Early, Open
  <2>. QED  BY <2>6, <2>7, <2>8, <2>9 DEF Core
<1>2. CASE ParseStray
  BY <1>0, <1>2, StaysClosed DEF ParseStray, Open, Early
<1>3. CASE FirstBlock
  <2>1. pc = "first" /\ pc \in Open /\ pc' = "url" /\ XmodemReceiveBlock("OK")
        /\ UNCHANGED <<toHost, upload>> /\ bn = 0
    BY <1>0, <1>3 DEF FirstBlock, Open, Early, PhaseInv
  <2>2. Len(upload) = 0 /\ hidx = 1 /\ upload = <<>> /\ bn = Len(upload) % BNMod
    BY <1>0, <2>1, OpenFacts DEF Early, PhaseInv
  <2>3. blk' = 1 /\ Ordered(rxq', 0, 1)
    BY <1>0, <2>1, <2>2, TakenBlock, OpenFacts, OrderedReceive
  <2>4. PhaseInv'
    BY <1>0, <2>1, <2>2, <2>3 DEF PhaseInv, Early, Open, host
  <2>. QED  BY <1>0, <2>1, <2>2, <2>3, <2>4, StaysOpen DEF Open, Early
<1>4. CASE FirstRetry
  <2>1. pc = "first" /\ pc \in Open /\ pc' = "first" /\ XmodemReceiveBlock("RETRY")
        /\ UNCHANGED <<bn, upload>> /\ Reply("NAK")
    BY <1>4 DEF FirstRetry, Open, Early
  <2>2. Ordered(rxq', Len(upload), hidx)
    BY <1>0, <2>1, OpenFacts, OrderedReceive
  <2>3. PhaseInv'
    BY <1>0, <2>1 DEF PhaseInv, Early, Open, host
  <2>. QED  BY <1>0, <2>1, <2>2, <2>3, StaysOpen DEF Reply
<1>5. CASE FirstRetryOver
  BY <1>0, <1>5, CancelFacts, Closes DEF FirstRetryOver, Answer, Open, Early
<1>6. CASE FirstFailed
  BY <1>0, <1>6, Closes DEF FirstFailed, Reply, Answer, Open, Early
<1>7. CASE UploadRefused
  BY <1>0, <1>7, Closes DEF UploadRefused, Answer, Open, Early
<1>8. CASE Connected
  <2>1. pc = "url" /\ pc \in Open /\ pc' = "chunk" /\ UNCHANGED <<bn, blk, rxq, toHost, upload>>
    BY <1>8 DEF Connected, Open, Early
  <2>2. PhaseInv'
    BY <1>0, <2>1 DEF PhaseInv, Early, Open, host
  <2>. QED  BY <1>0, <2>1, <2>2, OpenFacts, StaysOpen DEF Open, Early
<1>9. CASE FirstChunk
  <2>1. pc = "chunk" /\ pc \in Open /\ pc' = "recv" /\ bn' = 1 /\ UNCHANGED rxq
        /\ SendChunkedData(blk) /\ Reply("ACK") /\ blk = 1
    BY <1>0, <1>9 DEF FirstChunk, Open, Early, PhaseInv
  <2>2. Len(upload) = 0 /\ hidx = 1 /\ Ordered(rxq, 0, 1)
    BY <2>1, OpenFacts DEF Early
  <2>3. rxq \in Seq(Units(FrameData)) /\ rxq' = rxq
    BY <1>0, <2>1 DEF TypeOK
  <2>4. Ordered(rxq', 1, 1)
    BY <2>2, <2>3 DEF Ordered
  <2>5. bn' = (Len(upload) + 1) % BNMod
    BY <2>1, <2>2, OneMod
  <2>6. 1 \in FrameData
    BY DEF FrameData
  <2>. QED  BY <1>0, <2>1, <2>2, <2>4, <2>5, <2>6, PassesOn
<1>10. CASE FirstChunkFailed
  BY <1>0, <1>10, Closes DEF FirstChunkFailed, Open, Early
<1>11. CASE NextChunk
  <2>1. pc = "recv" /\ pc \in Open /\ pc' = "recv" /\ bn' = NextBN(bn) /\ Reply("ACK")
        /\ SendChunkedData(blk') /\ XmodemReceiveBlock("OK") /\ bn = Len(upload) % BNMod
    BY <1>0, <1>11 DEF NextChunk, Open, PhaseInv
  <2>2. /\ blk' = Len(upload) + 1 /\ blk' <= hidx
        /\ NextBN(bn) = (Len(upload) + 1) % BNMod
        /\ Ordered(rxq', Len(upload) + 1, hidx)
    BY <2>1, TakenBlock
  <2>3. blk' \in FrameData
    BY <1>0, <2>1, ReceiveType
  <2>. QED  BY <1>0, <2>1, <2>2, <2>3, PassesOn
<1>12. CASE NextChunkFailed
  BY <1>0, <1>12, CancelFacts, Closes DEF NextChunkFailed, Answer, Open, Early
<1>13. CASE AskAgain
  <2>1. pc = "recv" /\ pc \in Open /\ pc' = "recv" /\ XmodemReceiveBlock("RETRY")
        /\ UNCHANGED <<bn, upload>> /\ Reply("NAK")
    BY <1>13 DEF AskAgain, Open
  <2>2. Ordered(rxq', Len(upload), hidx)
    BY <1>0, <2>1, OpenFacts, OrderedReceive
  <2>3. PhaseInv'
    BY <1>0, <2>1 DEF PhaseInv, Early, Open, host
  <2>. QED  BY <1>0, <2>1, <2>2, <2>3, StaysOpen DEF Reply
<1>14. CASE RetryOver
  BY <1>0, <1>14, CancelFacts, Closes DEF RetryOver, Answer, Open, Early
<1>15. CASE Unanswered
  <2>1. pc = "recv" /\ pc \in Open /\ pc' = "recv" /\ UNCHANGED <<bn, upload, toHost>>
        /\ \E ret \in RecvRets : XmodemReceiveBlock(ret)
    BY <1>15 DEF Unanswered, Open, RecvRets, NotQueued
  <2>2. Ordered(rxq', Len(upload), hidx)
    BY <1>0, <2>1, OpenFacts, OrderedReceive
  <2>3. PhaseInv'
    BY <1>0, <2>1 DEF PhaseInv, Early, Open, host
  <2>. QED  BY <1>0, <2>1, <2>2, <2>3, StaysOpen
<1>16. CASE TransferEnds
  BY <1>0, <1>16, Closes DEF TransferEnds, Queued, Open, Early
<1>17. CASE UploadResponse
  <2>1. pc = "respond" /\ pc' \in {"complete", "idle"} /\ UNCHANGED <<upload, toHost>>
    BY <1>17 DEF UploadResponse, UploadStatus, Answer
  <2>. QED  BY <1>0, <2>1, StaysClosed DEF Open, Early
<1>18. CASE CompleteResponse
  <2>1. pc = "complete" /\ pc' = "idle" /\ UNCHANGED <<upload, toHost>>
    BY <1>18 DEF CompleteResponse, CompleteStatus, Answer
  <2>. QED  BY <1>0, <2>1, StaysClosed DEF Open, Early
<1>19. CASE RequestFailed
  BY <1>0, <1>19, StaysClosed DEF RequestFailed, Answer, Open, Early
<1>20. CASE Unconnected
  <2>1. pc = "url" /\ pc' \in {"complete", "idle"} /\ UNCHANGED <<upload, toHost>>
    BY <1>20 DEF Unconnected, UploadStatus, Answer, server
  <2>. QED  BY <1>0, <2>1, Closes DEF Open, Early
<1>. QED
  BY <1>1, <1>2, <1>3, <1>4, <1>5, <1>6, <1>7, <1>8, <1>9, <1>10, <1>11, <1>12,
     <1>13, <1>14, <1>15, <1>16, <1>17, <1>18, <1>19, <1>20 DEF Device

----------------------------------------------------------------------------
(* What the host sends and believes.                                        *)

(* A step of the host, from what it does to the line and to the balance.    *)
LEMMA HostStep ==
    ASSUME IInv, UNCHANGED <<device, server>>, hidx' \in Nat,
           pc \in Open => Ordered(rxq', Len(upload), hidx') /\ hidx <= hidx',
           pc \in Open => OpenCredit(toHost', Pos', Len(upload)),
           pc \notin Open => ClosedCredit(toHost', Pos', Len(upload))
    PROVE  Core'
  <1>1. TypeOK /\ UploadInOrder /\ PhaseInv
    BY DEF IInv
  <1>2. UploadInOrder'
    BY <1>1 DEF UploadInOrder, server
  <1>3. CreditInv' /\ LineInv'
    BY DEF CreditInv, LineInv, device, server
  <1>4. PhaseInv'
    <2>1. pc \in Open => Len(upload) <= hidx'
      BY OpenFacts
    <2>. QED  BY <1>1, <2>1 DEF PhaseInv, device, server
  <1>. QED  BY <1>2, <1>3, <1>4 DEF Core

(* A step of the host keeps order, phases and balance.                      *)
LEMMA CoreHost ==
    ASSUME IInv, Host
    PROVE  Core'
<1>. DEFINE n == Len(upload)
<1>0. /\ TypeOK /\ HostInv /\ CreditInv /\ UNCHANGED <<device, server>>
      /\ n \in Nat /\ Pos \in Int /\ toHost \in Seq(Control) /\ hidx \in 1 .. NBlocks
      /\ hidx \in Nat
  BY HostKeepsDevice, PosFacts DEF IInv, TypeOK
<1>a. /\ pc \in Open => OpenCredit(toHost, Pos, n) /\ Ordered(rxq, n, hidx) /\ n <= hidx
      /\ pc \notin Open => ClosedCredit(toHost, Pos, n)
  BY <1>0, OpenFacts DEF CreditInv
<1>b. ASSUME NEW byte, Heard(byte)
      PROVE  /\ pc \in Open => OpenCredit(toHost', Pos, n)
             /\ pc \notin Open => ClosedCredit(toHost', Pos, n)
             /\ byte = "ACK" /\ pc \in Open => OpenCredit(toHost', Pos + 1, n)
             /\ byte = "ACK" /\ pc \notin Open => ClosedCredit(toHost', Pos + 1, n)
  BY <1>0, <1>a, <1>b, CreditHeard DEF Heard
<1>1. CASE HostCommand
  <2>1. pc = "idle" /\ pc \notin Open /\ hidx' = 1 /\ hpc' = "waitNak" /\ toHost' = <<>>
    BY <1>1 DEF HostCommand, Open, Early
  <2>2. Pos' = 0 /\ Acks(toHost') = {}
    BY <2>1 DEF Pos, Acks
  <2>3. ClosedCredit(toHost', Pos', n)
    BY <1>0, <2>2 DEF ClosedCredit
  <2>. QED  BY <1>0, <2>1, <2>3, HostStep
<1>2. CASE HostFirst
  <2>1. hidx = 1 /\ hidx' = hidx /\ Heard("NAK") /\ SendBlock(1) /\ Pos' = Pos
    BY <1>0, <1>2 DEF HostFirst, HostInv, Pos
  <2>2. pc \in Open => Ordered(rxq', n, hidx')
    BY <1>0, <1>a, <2>1, OrderedSendBlock
  <2>. QED  BY <1>0, <1>a, <1>b, <2>1, <2>2, HostStep
<1>3. CASE HostNextBlock
  <2>1. /\ hidx' = hidx + 1 /\ hidx + 1 \in 1 .. NBlocks /\ Pos' = Pos + 1
        /\ Heard("ACK") /\ SendBlock(hidx + 1)
    BY <1>0, <1>3 DEF HostNextBlock, Pos
  <2>2. pc \in Open => Ordered(rxq', n, hidx')
    BY <1>0, <1>a, <2>1, OrderedSendBlock
  <2>. QED  BY <1>0, <1>a, <1>b, <2>1, <2>2, HostStep
<1>4. CASE HostLastAcked
  <2>1. hidx' = hidx /\ Pos' = Pos + 1 /\ Heard("ACK") /\ SendEot
    BY <1>0, <1>4 DEF HostLastAcked, Pos
  <2>2. pc \in Open => Ordered(rxq', n, hidx')
    BY <1>0, <1>a, <2>1, OrderedSendEot
  <2>. QED  BY <1>0, <1>a, <1>b, <2>1, <2>2, HostStep
<1>5. CASE HostDone
  <2>1. hidx' = hidx /\ rxq' = rxq /\ Pos' = Pos + 1 /\ Heard("ACK")
    BY <1>0, <1>5 DEF HostDone, Pos
  <2>. QED  BY <1>0, <1>a, <1>b, <2>1, HostStep
<1>6. CASE HostAgain
  <2>1. /\ hidx' = hidx /\ Pos' = Pos
        /\ Heard("NAK") \/ toHost' = toHost
        /\ SendBlock(hidx) \/ SendEot
    BY <1>0, <1>6 DEF HostAgain, SendCurrent, Pos
  <2>2. pc \in Open => Ordered(rxq', n, hidx')
    BY <1>0, <1>a, <2>1, OrderedSendBlock, OrderedSendEot
  <2>. QED  BY <1>0, <1>a, <1>b, <2>1, <2>2, HostStep
<1>7. CASE HostAbort
  <2>1. /\ hidx' = hidx /\ Pos' <= Pos /\ Pos' \in Int
        /\ Heard("CAN") \/ Heard("NAK") \/ toHost' = toHost
        /\ Arrive(Ctrl("CAN")) \/ rxq' = rxq
    BY <1>0, <1>7 DEF HostAbort, Sending, HostInv, Pos
  <2>2. pc \in Open => Ordered(rxq', n, hidx')
    BY <1>0, <1>a, <2>1, OrderedControl DEF Kinds
  <2>3. /\ pc \in Open => OpenCredit(toHost', Pos, n)
        /\ pc \notin Open => ClosedCredit(toHost', Pos, n)
    BY <1>a, <1>b, <2>1
  <2>4. /\ pc \in Open => OpenCredit(toHost', Pos', n)
        /\ pc \notin Open => ClosedCredit(toHost', Pos', n)
    BY <1>0, <2>1, <2>3, CreditWeakens
  <2>. QED  BY <1>0, <1>a, <2>1, <2>2, <2>4, HostStep
<1>8. CASE HostSkips
  <2>1. hidx' = hidx /\ Pos' = Pos /\ rxq' = rxq /\ toHost # <<>> /\ toHost' = Tail(toHost)
    BY <1>8 DEF HostSkips, host, Pos
  <2>2. /\ pc \in Open => OpenCredit(toHost', Pos', n)
        /\ pc \notin Open => ClosedCredit(toHost', Pos', n)
    BY <1>0, <1>a, <2>1, CreditHeard
  <2>. QED  BY <1>0, <1>a, <2>1, <2>2, HostStep
<1>. QED
  BY <1>1, <1>2, <1>3, <1>4, <1>5, <1>6, <1>7, <1>8 DEF Host

----------------------------------------------------------------------------
(* The inductive invariant and what follows from it.                        *)

(* The invariant holds initially.                                           *)
LEMMA IInvInit == Init => IInv
  <1>. SUFFICES ASSUME Init PROVE IInv
    OBVIOUS
  <1>1. /\ pc = "idle" /\ hpc = "idle" /\ hidx = 1
        /\ rxq = <<>> /\ toHost = <<>> /\ upload = <<>>
    BY DEF Init
  <1>2. Acks(toHost) = {} /\ Pos = 0 /\ Len(upload) = 0
    BY <1>1 DEF Acks, Pos
  <1>3. UploadInOrder
    BY <1>1 DEF UploadInOrder
  <1>4. CreditInv
    BY <1>1, <1>2 DEF CreditInv, ClosedCredit, Open, Early
  <1>5. HostInv /\ CommandInv /\ LineInv /\ PhaseInv
    BY <1>1 DEF HostInv, CommandInv, NoCommand, LineInv, PhaseInv, Open, Early
  <1>. QED  BY <1>3, <1>4, <1>5, TypeInit DEF IInv

(* The invariant is inductive.                                              *)
LEMMA IInvStep == IInv /\ [Next]_vars => IInv'
  <1>. SUFFICES ASSUME IInv, [Next]_vars PROVE IInv'
    OBVIOUS
  <1>1. TypeOK' /\ HostInv' /\ CommandInv'
    BY TypeStep, HostInvStep, CommandInvStep DEF IInv
  <1>2. CASE Next
    BY <1>1, <1>2, CoreDevice, CoreHost DEF Next, Core, IInv
  <1>3. CASE UNCHANGED vars
    BY <1>3 DEF IInv, TypeOK, UploadInOrder, HostInv, CommandInv, LineInv, PhaseInv,
       CreditInv, Pos, vars, device, server, host
  <1>. QED  BY <1>2, <1>3

(* The inductive invariant of Fput: the balance of what the host believes,  *)
(* what is on its way and what was passed on, in every phase.               *)
THEOREM InvariantCorrect == Spec => []IInv
  BY IInvInit, IInvStep, PTL DEF Spec

(* Whatever the line loses, damages, repeats or makes up, the server gets   *)
(* the blocks of the file in order and each of them once, for every size of *)
(* the file and every number of block numbers above one.                    *)
THEOREM UploadCorrect == Spec => []UploadInOrder
  <1>1. IInv => UploadInOrder
    BY DEF IInv
  <1>. QED  BY <1>1, InvariantCorrect, PTL

(* A host that saw its EOT acknowledged has had every block passed on.      *)
THEOREM HostDoneCorrect == Spec => []HostDoneUploaded
  <1>1. IInv => HostDoneUploaded
    <2>. SUFFICES ASSUME IInv, hpc = "done" PROVE Len(upload) = NBlocks
      BY DEF HostDoneUploaded
    <2>1. TypeOK /\ UploadInOrder /\ CreditInv /\ Pos = NBlocks + 1 /\ Len(upload) \in Nat
      BY PosFacts DEF IInv, Pos
    <2>2. Pos <= Len(upload) + 1
      BY <2>1 DEF CreditInv, OpenCredit, ClosedCredit
    <2>. QED  BY <2>1, <2>2 DEF UploadInOrder
  <1>. QED  BY <1>1, InvariantCorrect, PTL

----------------------------------------------------------------------------
(* The size given with the command and the blocks of the file.              *)

(* n whole blocks hold the size only when n is the number of blocks: the    *)
(* last block of the file is needed for its last byte.                      *)
LEMMA WholeSize ==
    ASSUME NEW n \in Nat, n <= NBlocks, n * BlockLen >= Size
    PROVE  n = NBlocks
  <1>. SUFFICES ASSUME n <= NBlocks - 1 PROVE FALSE
    OBVIOUS
  <1>1. PICK d \in Nat : NBlocks - 1 = n + d
    <2>. WITNESS NBlocks - 1 - n \in Nat
    <2>. QED  OBVIOUS
  <1>2. (NBlocks - 1) * BlockLen = n * BlockLen + d * BlockLen
    BY <1>1
  <1>3. d * BlockLen \in Nat /\ n * BlockLen \in Nat
    OBVIOUS
  <1>4. Size \in Nat /\ Size >= (NBlocks - 1) * BlockLen + 1
    BY FputAssumption
  <1>. QED  BY <1>2, <1>3, <1>4

(* One more block is BlockLen more bytes.                                   *)
LEMMA OneMore == \A n \in Nat : (n + 1) * BlockLen = n * BlockLen + BlockLen
  OBVIOUS

----------------------------------------------------------------------------
(* The echo.                                                                *)

(* The only way out of the command with the echo off is the NAK that could  *)
(* not be queued when the command starts.                                   *)
EchoInv == pc = "idle" => echo \/ (TxFault /\ result = "silent")

(* Every step keeps the echo so.                                            *)
LEMMA EchoStep == EchoInv /\ [Next]_vars => EchoInv'
  <1>. SUFFICES ASSUME EchoInv, [Next]_vars PROVE EchoInv'
    OBVIOUS
  <1>1. CASE FputStart
    BY <1>1 DEF FputStart, NotQueued, EchoInv
  <1>2. CASE ParseStray \/ Host \/ UNCHANGED vars
    BY <1>2, HostKeepsDevice DEF ParseStray, vars, device, EchoInv
  <1>3. CASE Device /\ ~FputStart /\ ~ParseStray
    <2>1. pc' = "idle" => echo'
      BY <1>3 DEF Device, FirstBlock, FirstRetry, FirstRetryOver,
         FirstFailed, UploadRefused, Connected, FirstChunk, FirstChunkFailed,
         NextChunk, NextChunkFailed, AskAgain, RetryOver, Unanswered, TransferEnds,
         Unconnected, UploadResponse, CompleteResponse, RequestFailed,
         UploadStatus, CompleteStatus, Answer, XmodemEnd
    <2>. QED  BY <2>1 DEF EchoInv
  <1>. QED  BY <1>1, <1>2, <1>3 DEF Next

(* The echo is on between commands whenever the command said anything at    *)
(* all, whatever the host, the line and the server do.                      *)
THEOREM EchoUnlessSilent == Spec => []EchoInv
  <1>1. Init => EchoInv
    BY DEF Init, EchoInv
  <1>. QED  BY <1>1, EchoStep, PTL DEF Spec

(* Where the transmit queue never stays full, whoever calls XmodemBegin     *)
(* calls XmodemEnd: the echo is on between commands.                        *)
THEOREM EchoCorrect ==
    ASSUME ~TxFault
    PROVE  Spec => []EchoRestored
  <1>1. EchoInv => EchoRestored
    BY DEF EchoInv, EchoRestored
  <1>. QED  BY <1>1, EchoUnlessSilent, PTL

----------------------------------------------------------------------------
(* The answer OK.                                                           *)

(* Every chunk took a whole block.                                          *)
WholeBlocks == \A i \in DOMAIN upload : upload[i].len = BlockLen

(* The command counts the bytes it passed on, and the completion is only    *)
(* reported for the whole file.                                             *)
CountInv ==
    /\ WholeBlocks
    /\ pc # "idle" => total = Len(upload) * BlockLen
    /\ pc = "complete" => Len(upload) = NBlocks

(* An answer is there between commands and at no other time; when it is OK, *)
(* the server has confirmed the whole file.                                 *)
AnswerInv ==
    /\ pc = "idle" <=> result # "busy"
    /\ result = "OK" => stored /\ Len(upload) = NBlocks

OkInv == CountInv /\ AnswerInv

(* A chunk of a server that takes whole blocks adds one block and BlockLen  *)
(* bytes.                                                                   *)
LEMMA WholeChunk ==
    ASSUME ~ShortSend, TypeOK, NEW data \in FrameData, SendChunkedData(data),
           WholeBlocks, total = Len(upload) * BlockLen
    PROVE  /\ upload' = Append(upload, [data |-> data, len |-> BlockLen])
           /\ Len(upload') = Len(upload) + 1
           /\ WholeBlocks'
           /\ total' = Len(upload') * BlockLen
  <1>1. PICK len \in SendLens : /\ upload' = Append(upload, [data |-> data, len |-> len])
                                /\ total' = total + len
    BY DEF SendChunkedData
  <1>2. len = BlockLen
    BY DEF SendLens
  <1>3. upload \in Seq([data : FrameData, len : 0 .. BlockLen])
    BY DEF TypeOK
  <1>4. [data |-> data, len |-> BlockLen] \in [data : FrameData, len : 0 .. BlockLen]
    OBVIOUS
  <1>5. Len(upload') = Len(upload) + 1 /\ Len(upload) \in Nat
    BY <1>1, <1>2, <1>3, <1>4, AppendFacts
  <1>6. WholeBlocks'
    BY <1>1, <1>2, <1>3, <1>4, AppendFacts DEF WholeBlocks
  <1>. QED  BY <1>1, <1>2, <1>5, <1>6, OneMore

(* What both actions that pass a block on do to the file of the server: the *)
(* block is the next one.                                                   *)
LEMMA NextOfFile ==
    ASSUME IInv, FirstChunk \/ NextChunk
    PROVE  /\ Len(upload) + 1 \in FrameData /\ SendChunkedData(Len(upload) + 1)
           /\ Len(upload) \in Nat /\ Len(upload) < NBlocks
           /\ pc \in Open /\ pc' = "recv" /\ UNCHANGED <<result, stored>>
  <1>1. TypeOK /\ PhaseInv
    BY DEF IInv
  <1>2. CASE FirstChunk
    <2>1. pc = "chunk" /\ SendChunkedData(blk) /\ pc' = "recv" /\ UNCHANGED <<result, stored>>
      BY <1>2 DEF FirstChunk
    <2>2. Len(upload) = 0 /\ blk = 1 /\ pc \in Open
      BY <1>1, <2>1, OpenFacts DEF PhaseInv, Early, Open
    <2>. QED  BY <2>1, <2>2 DEF FrameData
  <1>3. CASE NextChunk
    <2>1. /\ pc = "recv" /\ XmodemReceiveBlock("OK") /\ SendChunkedData(blk')
          /\ pc' = "recv" /\ UNCHANGED <<result, stored>>
      BY <1>3 DEF NextChunk
    <2>2. pc \in Open /\ bn = Len(upload) % BNMod
      BY <1>1, <2>1 DEF PhaseInv, Open
    <2>3. blk' = Len(upload) + 1 /\ blk' <= hidx /\ Len(upload) \in Nat /\ hidx \in 1 .. NBlocks
      BY <2>1, <2>2, TakenBlock, OpenFacts
    <2>. QED  BY <2>1, <2>2, <2>3 DEF FrameData
  <1>. QED  BY <1>2, <1>3

(* Every step of a server that always answers and takes whole blocks keeps  *)
(* the count and the answer.                                                *)
LEMMA OkStep ==
    ASSUME ~SilentServer, ~ShortSend, IInv, OkInv, [Next]_vars
    PROVE  OkInv'
<1>. USE DEF OkInv, CountInv, AnswerInv
<1>0. TypeOK /\ UploadInOrder
  BY DEF IInv
<1>1. CASE FputStart
  <2>1. upload' = <<>> /\ Len(upload') = 0 /\ total' = 0 /\ WholeBlocks'
    BY <1>1 DEF FputStart, WholeBlocks
  <2>. QED  BY <1>1, <2>1 DEF FputStart
<1>2. CASE ParseStray \/ Host \/ UNCHANGED vars
  <2>1. UNCHANGED <<device, server>>
    BY <1>2, HostKeepsDevice DEF ParseStray, vars
  <2>. QED  BY <2>1 DEF device, server, WholeBlocks
<1>3. CASE FirstChunk \/ NextChunk
  <2>1. /\ Len(upload) + 1 \in FrameData /\ SendChunkedData(Len(upload) + 1)
        /\ pc \in Open /\ pc' = "recv" /\ UNCHANGED <<result, stored>>
    BY <1>3, NextOfFile
  <2>2. pc # "idle"
    BY <2>1 DEF Open, Early
  <2>3. WholeBlocks' /\ total' = Len(upload') * BlockLen
    BY <1>0, <2>1, <2>2, WholeChunk
  <2>. QED  BY <2>1, <2>2, <2>3
<1>4. CASE UploadResponse
  <2>1. pc = "respond" /\ UNCHANGED <<total, server>>
    BY <1>4 DEF UploadResponse
  <2>2. CASE pc' = "complete" /\ result' = result
    <3>1. Accepted
      BY <1>4, <2>2 DEF UploadResponse, UploadStatus, Answer
    <3>2. Len(upload) = NBlocks
      BY <1>0, <2>1, <3>1, WholeSize DEF Accepted, UploadInOrder, TypeOK
    <3>. QED  BY <2>1, <2>2, <3>2 DEF server, WholeBlocks
  <2>3. CASE pc' = "idle" /\ result' = "NG"
    BY <2>1, <2>3 DEF server, WholeBlocks
  <2>. QED  BY <1>4, <2>2, <2>3 DEF UploadResponse, UploadStatus, Answer
<1>5. CASE CompleteResponse
  <2>1. pc = "complete" /\ pc' = "idle" /\ UNCHANGED upload
    BY <1>5 DEF CompleteResponse, CompleteStatus, Answer
  <2>2. \/ result' = "OK" /\ stored'
        \/ result' = "NG"
    BY <1>5 DEF CompleteResponse, CompleteStatus, Answer
  <2>. QED  BY <2>1, <2>2 DEF WholeBlocks
<1>6. CASE \/ FirstRetryOver \/ FirstFailed \/ UploadRefused \/ NextChunkFailed
           \/ RetryOver \/ RequestFailed
  <2>1. pc # "idle" /\ pc' = "idle" /\ result' = "NG" /\ UNCHANGED upload
    BY <1>6 DEF FirstRetryOver, FirstFailed, UploadRefused, NextChunkFailed,
       RetryOver, RequestFailed, Answer, server
  <2>. QED  BY <2>1 DEF WholeBlocks
<1>7. CASE \/ FirstBlock \/ FirstRetry \/ Connected \/ FirstChunkFailed
           \/ AskAgain \/ Unanswered \/ TransferEnds
  <2>1. pc # "idle" /\ pc' \notin {"idle", "complete"} /\ UNCHANGED <<result, total, server>>
    BY <1>7 DEF FirstBlock, FirstRetry, Connected, FirstChunkFailed,
       AskAgain, Unanswered, TransferEnds
  <2>. QED  BY <2>1 DEF server, WholeBlocks
<1>8. ~Unconnected
  BY DEF Unconnected
<1>. QED
  BY <1>1, <1>2, <1>3, <1>4, <1>5, <1>6, <1>7, <1>8 DEF Next, Device

(* The count and the answer are right initially.                            *)
LEMMA OkInit == Init => OkInv
  <1>. SUFFICES ASSUME Init PROVE OkInv
    OBVIOUS
  <1>1. pc = "idle" /\ result = "idle" /\ upload = <<>>
    BY DEF Init
  <1>. QED  BY <1>1 DEF OkInv, CountInv, AnswerInv, WholeBlocks

(* The invariant behind the answer, with the one behind the order.          *)
LEMMA OkInvariant ==
    ASSUME ~SilentServer, ~ShortSend
    PROVE  Spec => [](IInv /\ OkInv)
  <1>1. IInv /\ OkInv /\ [Next]_vars => (IInv /\ OkInv)'
    BY IInvStep, OkStep
  <1>. QED  BY <1>1, IInvInit, OkInit, PTL DEF Spec

(* Against a server that answers every request and a send() that takes      *)
(* whole blocks, OK from $$FPUT means that the whole file went out, in      *)
(* order, and that the server confirmed it in this very session.  The two   *)
(* runs that expect a violation show that neither hypothesis can go.        *)
THEOREM OkCorrect ==
    ASSUME ~SilentServer, ~ShortSend
    PROVE  Spec => []OkMeansStored
  <1>1. IInv /\ OkInv => OkMeansStored
    BY DEF IInv, OkInv, CountInv, AnswerInv, WholeBlocks, UploadInOrder, OkMeansStored
  <1>. QED  BY <1>1, OkInvariant, PTL

----------------------------------------------------------------------------
(* The abstract upload.                                                     *)

delivered == [i \in DOMAIN upload |-> upload[i].data]

(* Without blocks nothing is delivered.                                     *)
LEMMA NothingDelivered ==
    ASSUME NEW u, u = <<>>
    PROVE  [i \in DOMAIN u |-> u[i].data] = <<>>
  OBVIOUS

(* A block passed on is a block delivered.                                  *)
LEMMA DeliveredGrows ==
    ASSUME TypeOK, NEW data \in FrameData, NEW len \in 0 .. BlockLen,
           upload' = Append(upload, [data |-> data, len |-> len])
    PROVE  delivered' = Append(delivered, data) /\ Len(delivered) = Len(upload)
  <1>1. upload \in Seq([data : FrameData, len : 0 .. BlockLen])
    BY DEF TypeOK
  <1>2. /\ Len(upload) \in Nat /\ DOMAIN upload = 1 .. Len(upload)
        /\ DOMAIN upload' = 1 .. Len(upload) + 1
        /\ \A i \in 1 .. Len(upload) : upload'[i] = upload[i]
        /\ upload'[Len(upload) + 1].data = data
    BY <1>1
  <1>3. delivered \in Seq(FrameData) /\ Len(delivered) = Len(upload)
    <2>1. \A i \in 1 .. Len(upload) : upload[i] \in [data : FrameData, len : 0 .. BlockLen]
      BY <1>1, <1>2, ElementOf
    <2>2. delivered \in [1 .. Len(upload) -> FrameData]
      BY <1>2, <2>1 DEF delivered
    <2>. QED  BY <1>2, <2>2
  <1>4. delivered' = [i \in 1 .. Len(upload) + 1 |->
                        IF i \in 1 .. Len(upload) THEN delivered[i] ELSE data]
    BY <1>2 DEF delivered
  <1>5. delivered' \in Seq(FrameData) /\ Len(delivered') = Len(delivered) + 1
    BY <1>2, <1>3, <1>4
  <1>6. /\ Append(delivered, data) \in Seq(FrameData)
        /\ Len(Append(delivered, data)) = Len(delivered) + 1
        /\ \A i \in 1 .. Len(delivered) + 1 : delivered'[i] = Append(delivered, data)[i]
    BY <1>2, <1>3, <1>4
  <1>. QED  BY <1>3, <1>5, <1>6, SeqEqual

(* Every step of the command is a step of the abstract upload or none.      *)
LEMMA UploadStep ==
    ASSUME ~SilentServer, ~ShortSend, IInv, OkInv, [Next]_vars
    PROVE  [Abs!Next]_Abs!vars
<1>. USE DEF OkInv, AnswerInv, CountInv
<1>0. TypeOK
  BY DEF IInv
<1>a. ASSUME UNCHANGED upload PROVE UNCHANGED delivered
  BY <1>a DEF delivered
<1>b. ASSUME UNCHANGED <<upload, result>> PROVE UNCHANGED Abs!vars
  BY <1>b DEF Abs!vars
<1>c. ASSUME pc # "idle", result' = "NG", UNCHANGED upload PROVE Abs!Fail
  BY <1>c DEF Abs!Fail
<1>1. CASE FputStart
  <2>1. upload' = <<>> /\ result # "busy" /\ result' \in {"busy", "silent"}
    BY <1>1 DEF FputStart
  <2>2. delivered' = <<>>
    BY <2>1, NothingDelivered DEF delivered
  <2>. QED  BY <2>1, <2>2 DEF delivered, Abs!Next, Abs!Start
<1>2. CASE ParseStray \/ Host \/ UNCHANGED vars
  <2>1. UNCHANGED <<device, server>>
    BY <1>2, HostKeepsDevice DEF ParseStray, vars
  <2>. QED  BY <1>b, <2>1 DEF device, server
<1>3. CASE FirstChunk \/ NextChunk
  <2>1. /\ Len(upload) + 1 \in FrameData /\ SendChunkedData(Len(upload) + 1)
        /\ Len(upload) \in Nat /\ Len(upload) < NBlocks
        /\ pc \in Open /\ UNCHANGED result
    BY <1>3, NextOfFile
  <2>2. result = "busy"
    BY <2>1 DEF Open, Early
  <2>3. PICK len \in SendLens :
          upload' = Append(upload, [data |-> Len(upload) + 1, len |-> len])
    BY <2>1 DEF SendChunkedData
  <2>4. len \in 0 .. BlockLen
    BY <2>3 DEF SendLens
  <2>5. delivered' = Append(delivered, Len(upload) + 1) /\ Len(delivered) = Len(upload)
    BY <1>0, <2>1, <2>3, <2>4, DeliveredGrows
  <2>6. Abs!Deliver
    BY <2>1, <2>2, <2>5 DEF delivered, Abs!Deliver
  <2>. QED  BY <2>6 DEF Abs!Next
<1>4. CASE UploadResponse
  <2>1. pc # "idle" /\ UNCHANGED upload /\ result' \in {result, "NG"}
    BY <1>4 DEF UploadResponse, UploadStatus, Answer, server
  <2>. QED  BY <1>b, <1>c, <2>1 DEF Abs!Next
<1>5. CASE CompleteResponse
  <2>1. pc = "complete" /\ UNCHANGED upload /\ result' \in {"OK", "NG"}
    BY <1>5 DEF CompleteResponse, CompleteStatus, Answer
  <2>2. CASE result' = "OK"
    <3>1. Len(delivered) = NBlocks
      BY <1>0, <2>1 DEF delivered, TypeOK
    <3>2. Abs!Succeed
      BY <1>a, <2>1, <2>2, <3>1 DEF delivered, Abs!Succeed
    <3>. QED  BY <3>2 DEF Abs!Next
  <2>. QED  BY <1>c, <2>1, <2>2 DEF Abs!Next
<1>6. CASE \/ FirstRetryOver \/ FirstFailed \/ UploadRefused \/ NextChunkFailed
           \/ RetryOver \/ RequestFailed
  <2>1. pc # "idle" /\ result' = "NG" /\ UNCHANGED upload
    BY <1>6 DEF FirstRetryOver, FirstFailed, UploadRefused, NextChunkFailed,
       RetryOver, RequestFailed, Answer, server
  <2>. QED  BY <1>c, <2>1 DEF Abs!Next
<1>7. CASE \/ FirstBlock \/ FirstRetry \/ Connected \/ FirstChunkFailed
           \/ AskAgain \/ Unanswered \/ TransferEnds
  <2>1. UNCHANGED <<result, server>>
    BY <1>7 DEF FirstBlock, FirstRetry, Connected, FirstChunkFailed,
       AskAgain, Unanswered, TransferEnds
  <2>. QED  BY <1>b, <2>1 DEF server
<1>8. ~Unconnected
  BY DEF Unconnected
<1>. QED
  BY <1>1, <1>2, <1>3, <1>4, <1>5, <1>6, <1>7, <1>8 DEF Next, Device

(* Against such a server $$FPUT implements the abstract upload: the file    *)
(* goes out block by block, and OK is only said of a whole one.             *)
THEOREM UploadImplemented ==
    ASSUME ~SilentServer, ~ShortSend
    PROVE  Spec => ImplementsUpload
  <1>1. Init => Abs!Init
    <2>. SUFFICES ASSUME Init PROVE Abs!Init
      OBVIOUS
    <2>1. upload = <<>> /\ result = "idle"
      BY DEF Init
    <2>. QED  BY <2>1, NothingDelivered DEF delivered, Abs!Init
  <1>2. IInv /\ OkInv /\ [Next]_vars => [Abs!Next]_Abs!vars
    BY UploadStep
  <1>. QED  BY <1>1, <1>2, OkInvariant, PTL DEF Spec, ImplementsUpload, Abs!Spec

=============================================================================
