----------------------------- MODULE FgetProofs -----------------------------
(***************************************************************************)
(* Proofs about Fget, for every file, every fragment size, every number of  *)
(* tries, a host as slow as it likes and any number of line faults.         *)
(***************************************************************************)
EXTENDS Fget, SeqFacts, TLAPS

(* What the proofs use of the constants.                                    *)
LEMMA Params ==
    /\ BNMod \in Nat /\ BNMod > 1
    /\ NChunks \in Nat \ {0} /\ FragLen \in Nat \ {0}
    /\ SendTries \in Nat \ {0} /\ ReqTries \in Nat \ {0} /\ RxCap \in Nat \ {0}
  BY BNModAssumption, FgetAssumption

USE Params

(* The successor of a block number is another block number.                 *)
LEMMA NextBNFacts ==
    \A b \in 0 .. BNMod - 1 : NextBN(b) \in 0 .. BNMod - 1 /\ NextBN(b) # b
  <1>. SUFFICES ASSUME NEW b \in 0 .. BNMod - 1
                PROVE  NextBN(b) \in 0 .. BNMod - 1 /\ NextBN(b) # b
    OBVIOUS
  <1>1. CASE b + 1 = BNMod
    BY <1>1 DEF NextBN
  <1>2. CASE b + 1 < BNMod
    <2>1. (b + 1) % BNMod = b + 1
      BY <1>2
    <2>. QED  BY <1>2, <2>1 DEF NextBN
  <1>. QED  BY <1>1, <1>2

(* A control byte is a unit of its kind.                                    *)
LEMMA CtrlType == \A k \in Kinds : Ctrl(k) \in Units(FrameData) /\ Ctrl(k).t = k
  BY DEF Ctrl, Units, FrameData, Flaws

----------------------------------------------------------------------------
(* The two queues.                                                          *)

RxType(q) == q \in Seq(Replies \cup {"CMD"}) /\ Len(q) <= RxCap

(* What an action may do to the receive queue.                              *)
Takes == rxq' = rxq \/ rxq' = <<>> \/ (rxq # <<>> /\ rxq' = Tail(rxq))

Gives ==
    \/ rxq' = rxq
    \/ \E e \in Replies : Len(rxq) < RxCap /\ rxq' = Append(rxq, e)

(* Taking from the queue keeps its type.                                    *)
LEMMA RxTakes ==
    ASSUME RxType(rxq), Takes
    PROVE  RxType(rxq')
  <1>1. ASSUME rxq # <<>>, rxq' = Tail(rxq) PROVE RxType(rxq')
    <2>1. Tail(rxq) \in Seq(Replies \cup {"CMD"})
      BY <1>1, TailFacts DEF RxType
    <2>2. Len(Tail(rxq)) = Len(rxq) - 1
      BY <1>1 DEF RxType
    <2>. QED  BY <1>1, <2>1, <2>2 DEF RxType
  <1>2. ASSUME rxq' = <<>> PROVE RxType(rxq')
    BY <1>2, EmptySeq DEF RxType
  <1>. QED  BY <1>1, <1>2 DEF Takes, RxType

(* A byte that arrives, or is dropped by a full queue, keeps its type.      *)
LEMMA RxGives ==
    ASSUME RxType(rxq), Gives
    PROVE  RxType(rxq')
  <1>1. ASSUME NEW e \in Replies, Len(rxq) < RxCap, rxq' = Append(rxq, e)
        PROVE  RxType(rxq')
    BY <1>1, AppendFacts DEF RxType
  <1>. QED  BY <1>1 DEF Gives, RxType

(* Every way to wait for a byte takes at most one.                          *)
LEMMA ReplyTaken ==
    /\ \A byte : Got(byte) => Takes
    /\ \A ret : Replied(ret) => Takes
    /\ TimedOut => Takes
  BY DEF Got, Replied, TimedOut, Takes

(* What the host says reaches the queue as it is, as junk or not at all.    *)
LEMMA SayFacts ==
    ASSUME NEW byte \in Control, Say(byte), faults \in Nat
    PROVE  Gives /\ faults' \in Nat
  <1>1. byte \in Replies /\ "junk" \in Replies
    BY DEF Replies
  <1>. QED  BY <1>1 DEF Say, Arrive, Gives, Fault

(* Whether it could be queued or not.                                       *)
LEMMA QueuedFacts ==
    ASSUME TypeOK, NEW unit \in Units(FrameData), Queued(unit) \/ NotQueued
    PROVE  /\ toHost' \in Seq(Units(FrameData)) /\ faults' \in Nat
           /\ toHost' = toHost \/ toHost' = Append(toHost, unit)
  <1>1. toHost \in Seq(Units(FrameData)) /\ faults \in Nat
    BY DEF TypeOK
  <1>. QED  BY <1>1, AppendFacts DEF Queued, NotQueued, Fault

(* A refused command puts a CAN on the line and comes back with NG.         *)
LEMMA RefuseFacts ==
    ASSUME TypeOK, Refuse
    PROVE  /\ toHost' \in Seq(Units(FrameData)) /\ faults' \in Nat
           /\ toHost' = toHost \/ toHost' = Append(toHost, Ctrl("CAN"))
           /\ pc' = "idle" /\ result' = "NG" /\ echo' = TRUE
  <1>1. Ctrl("CAN") \in Units(FrameData)
    BY CtrlType DEF Kinds
  <1>. QED  BY <1>1, QueuedFacts DEF Refuse, TransmitCancel, Answer

(* A hit on the first unit leaves its kind, number and data as they were.   *)
LEMMA HitFacts ==
    ASSUME NEW q \in Seq(Units(FrameData)), q # <<>>, NEW r,
           r = [q EXCEPT ![1] = [@ EXCEPT !.flaw = "data"]]
    PROVE  /\ r \in Seq(Units(FrameData)) /\ DOMAIN r = DOMAIN q
           /\ \A i \in DOMAIN q :
                 r[i].t = q[i].t /\ r[i].bn = q[i].bn /\ r[i].data = q[i].data
  <1>. DEFINE hit == [q[1] EXCEPT !.flaw = "data"]
  <1>1. 1 \in DOMAIN q /\ q[1] \in Units(FrameData)
    OBVIOUS
  <1>2. /\ hit \in Units(FrameData)
        /\ hit.t = q[1].t /\ hit.bn = q[1].bn /\ hit.data = q[1].data
    BY <1>1 DEF Units, Flaws
  <1>3. r = [q EXCEPT ![1] = hit]
    OBVIOUS
  <1>. HIDE DEF hit
  <1>4. r \in Seq(Units(FrameData)) /\ DOMAIN r = DOMAIN q
    BY <1>1, <1>2, <1>3
  <1>5. \A i \in DOMAIN q : r[i] = IF i = 1 THEN hit ELSE q[i]
    BY <1>1, <1>3
  <1>. QED  BY <1>2, <1>4, <1>5

----------------------------------------------------------------------------
(* Type correctness, with the counters that keep the block in the file.     *)

(* The type of the queue, out of TypeOK.                                    *)
LEMMA TypeRx == TypeOK => RxType(rxq)
  BY DEF TypeOK, RxType

(* The initial state is well typed.                                         *)
LEMMA TypeInit == Init => TypeOK
  <1>. SUFFICES ASSUME Init PROVE TypeOK
    OBVIOUS
  <1>1. /\ rxq \in Seq(Replies \cup {"CMD"}) /\ Len(rxq) <= RxCap
        /\ toHost \in Seq(Units(FrameData)) /\ hdata \in Seq(1 .. NChunks)
    BY EmptySeq DEF Init
  <1>2. echo \in BOOLEAN
    BY DEF Init
  <1>. QED  BY <1>1, <1>2 DEF Init, TypeOK

(* A step of main() keeps the types.                                        *)
LEMMA TypeMain ==
    ASSUME TypeOK, Counters, Main
    PROVE  TypeOK'
<1>. USE DEF main, download, shared, line, host
<1>0. RxType(rxq)
  BY TypeRx
<1>1. CASE FgetStart
  <2>1. RxType(rxq')
    BY <1>0, <1>1, RxTakes DEF FgetStart, Takes
  <2>2. echo' \in BOOLEAN
    BY <1>1 DEF FgetStart
  <2>3. /\ pc' = "waitReq" /\ req' = 0 /\ result' = "busy"
        /\ UNCHANGED <<download, shared, toHost, host, faults>>
    BY <1>1 DEF FgetStart
  <2>. QED  BY <2>1, <2>2, <2>3 DEF TypeOK, RxType
<1>2. CASE ParseStray
  <2>1. RxType(rxq')
    BY <1>0, <1>2, RxTakes DEF ParseStray, Takes
  <2>. QED  BY <1>2, <2>1 DEF ParseStray, TypeOK, RxType
<1>3. CASE Requested
  <2>1. RxType(rxq')
    BY <1>0, <1>3, RxTakes, ReplyTaken DEF Requested
  <2>. QED  BY <1>3, <2>1 DEF Requested, TypeOK, RxType
<1>4. CASE RequestCanceled
  <2>1. RxType(rxq')
    BY <1>0, <1>4, RxTakes, ReplyTaken DEF RequestCanceled
  <2>. QED  BY <1>4, <2>1, RefuseFacts DEF RequestCanceled, TypeOK, RxType
<1>5. CASE NotRequested
  <2>1. RxType(rxq')
    BY <1>0, <1>5, RxTakes, ReplyTaken DEF NotRequested, Takes
  <2>2. req' \in 0 .. ReqTries
    BY <1>5 DEF NotRequested, Counters, TypeOK
  <2>3. CASE req' < ReqTries
    BY <1>5, <2>1, <2>2, <2>3 DEF NotRequested, TypeOK, RxType
  <2>4. CASE ~(req' < ReqTries)
    BY <1>5, <2>1, <2>2, <2>4, RefuseFacts DEF NotRequested, TypeOK, RxType
  <2>. QED  BY <2>3, <2>4
<1>6. CASE DownloadRefused
  BY <1>6, RefuseFacts DEF DownloadRefused, TypeOK
<1>7. CASE DownloadStarts
  BY <1>7 DEF DownloadStarts, TypeOK
<1>8. CASE DownloadEnds
  <2>1. CASE cbErr = 0
    BY <1>8, <2>1 DEF DownloadEnds, TypeOK
  <2>2. CASE cbErr # 0
    <3>1. Refuse /\ sem' = 0 /\ UNCHANGED <<req, download, cbErr, rxq, host>>
      BY <1>8, <2>2 DEF DownloadEnds
    <3>2. /\ toHost' \in Seq(Units(FrameData)) /\ faults' \in Nat
          /\ pc' = "idle" /\ result' = "NG" /\ echo' = TRUE
      BY <3>1, RefuseFacts
    <3>. QED  BY <3>1, <3>2 DEF TypeOK
  <2>. QED  BY <2>1, <2>2
<1>9. CASE EndSent
  <2>1. CASE Queued(Ctrl("EOT")) /\ pc' = "eotReply" /\ UNCHANGED <<echo, result>>
    <3>1. toHost' \in Seq(Units(FrameData)) /\ faults' \in Nat
      BY <2>1, CtrlType, QueuedFacts DEF Kinds
    <3>. QED  BY <1>9, <2>1, <3>1 DEF EndSent, TypeOK
  <2>2. CASE Fault /\ toHost' \in {toHost, Append(toHost, Ctrl("CAN"))} /\ Answer("NG")
    <3>1. Ctrl("CAN") \in Units(FrameData) /\ toHost \in Seq(Units(FrameData)) /\ faults \in Nat
      BY CtrlType DEF Kinds, TypeOK
    <3>2. toHost' \in Seq(Units(FrameData)) /\ faults' \in Nat
      BY <2>2, <3>1, AppendFacts DEF Fault
    <3>. QED  BY <1>9, <2>2, <3>2 DEF EndSent, Answer, TypeOK
  <2>. QED  BY <1>9, <2>1, <2>2 DEF EndSent
<1>10. CASE EndAcked
  <2>1. RxType(rxq')
    BY <1>0, <1>10, RxTakes, ReplyTaken DEF EndAcked
  <2>. QED  BY <1>10, <2>1 DEF EndAcked, Answer, TypeOK, RxType
<1>11. CASE EndRefused
  <2>1. RxType(rxq')
    BY <1>0, <1>11, RxTakes, ReplyTaken DEF EndRefused
  <2>. QED  BY <1>11, <2>1, RefuseFacts DEF EndRefused, TypeOK, RxType
<1>. QED
  BY <1>1, <1>2, <1>3, <1>4, <1>5, <1>6, <1>7, <1>8, <1>9, <1>10, <1>11 DEF Main

(* After the last try, and after an ACK, the callback turns to the next     *)
(* block; it never leaves the fragment.                                     *)
LEMMA NextFacts ==
    ASSUME TypeOK, Counters, dpc = "reply", NextOfFragment
    PROVE  /\ chunk' = chunk + 1 /\ chunk' \in 1 .. NChunks + 1
           /\ frag' \in 0 .. FragLen /\ try' \in 0 .. SendTries - 1
           /\ dpc' \in {"fetch", "send"}
           /\ dpc' = "send" => frag' >= 1 /\ chunk' + frag' <= NChunks + 1
  BY DEF TypeOK, Counters, NextOfFragment

(* The block the callback is at is one of the file.                         *)
LEMMA BlockType ==
    ASSUME TypeOK, Counters, dpc \in {"send", "reply"}
    PROVE  Block(bn, chunk, "none") \in Units(FrameData) /\ chunk \in 1 .. NChunks
  BY DEF TypeOK, Counters, Block, Units, FrameData, Kinds, Flaws

(* A block goes on the line whole, cut short or not at all.                 *)
LEMMA SentFacts ==
    ASSUME TypeOK, Counters, BlockSent
    PROVE  /\ toHost' \in Seq(Units(FrameData)) /\ faults' \in Nat
           /\ \/ toHost' = toHost
              \/ toHost' = Append(toHost, Block(bn, chunk, "none"))
              \/ toHost' = Append(toHost, Ctrl("trunc"))
  <1>1. Block(bn, chunk, "none") \in Units(FrameData) /\ Ctrl("trunc") \in Units(FrameData)
    BY BlockType, CtrlType DEF BlockSent, Kinds
  <1>2. toHost \in Seq(Units(FrameData)) /\ faults \in Nat
    BY DEF TypeOK
  <1>3. \/ toHost' = toHost
        \/ toHost' = Append(toHost, Block(bn, chunk, "none"))
        \/ toHost' = Append(toHost, Ctrl("trunc"))
    BY DEF BlockSent, Queued
  <1>4. toHost' \in Seq(Units(FrameData))
    BY <1>1, <1>2, <1>3, AppendFacts
  <1>5. faults' \in Nat
    BY <1>2 DEF BlockSent, Queued, Fault
  <1>. QED  BY <1>3, <1>4, <1>5

(* A step of the download thread keeps the types.                           *)
LEMMA TypeDownload ==
    ASSUME TypeOK, Counters, Download
    PROVE  TypeOK'
<1>. USE DEF main, download, shared, line, host
<1>0. RxType(rxq)
  BY TypeRx
<1>1. CASE Fragment
  BY <1>1 DEF Fragment, Left, TypeOK
<1>2. CASE Done
  BY <1>2 DEF Done, Finish, TypeOK
<1>3. CASE Error
  BY <1>3 DEF Error, Finish, TypeOK
<1>4. CASE BlockSent
  <2>1. UNCHANGED <<main, bn, chunk, frag, try, shared, rxq, host>> /\ dpc' = "reply"
    BY <1>4 DEF BlockSent
  <2>. QED  BY <1>4, <2>1, SentFacts DEF TypeOK
<1>5. CASE BlockAcked
  <2>1. RxType(rxq')
    BY <1>0, <1>5, RxTakes, ReplyTaken DEF BlockAcked
  <2>2. bn' \in 0 .. BNMod - 1
    BY <1>5, NextBNFacts DEF BlockAcked, TypeOK
  <2>. QED  BY <1>5, <2>1, <2>2, NextFacts DEF BlockAcked, TypeOK, RxType
<1>6. CASE BlockAgain
  <2>1. RxType(rxq')
    BY <1>0, <1>6, RxTakes, ReplyTaken DEF BlockAgain
  <2>2. CASE try + 1 < SendTries
    BY <1>6, <2>1, <2>2 DEF BlockAgain, TypeOK, RxType
  <2>3. CASE ~(try + 1 < SendTries)
    BY <1>6, <2>1, <2>3, NextFacts DEF BlockAgain, TypeOK, RxType
  <2>. QED  BY <2>2, <2>3
<1>7. CASE BlockCanceled
  <2>1. RxType(rxq')
    BY <1>0, <1>7, RxTakes, ReplyTaken DEF BlockCanceled
  <2>. QED  BY <1>7, <2>1 DEF BlockCanceled, Finish, TypeOK, RxType
<1>8. CASE BlockFailed
  <2>1. RxType(rxq')
    BY <1>0, <1>8, RxTakes, ReplyTaken DEF BlockFailed
  <2>. QED  BY <1>8, <2>1 DEF BlockFailed, Finish, TypeOK, RxType
<1>. QED
  BY <1>1, <1>2, <1>3, <1>4, <1>5, <1>6, <1>7, <1>8 DEF Download

(* The host takes the first unit of the line.                               *)
LEMMA HeardFacts ==
    ASSUME TypeOK, Heard
    PROVE  /\ toHost # <<>> /\ toHost' = Tail(toHost)
           /\ toHost' \in Seq(Units(FrameData))
           /\ Head(toHost) \in Units(FrameData) /\ Head(toHost) = toHost[1]
           /\ 1 \in DOMAIN toHost
  <1>1. toHost \in Seq(Units(FrameData)) /\ toHost # <<>> /\ toHost' = Tail(toHost)
    BY DEF TypeOK, Heard
  <1>. QED  BY <1>1, TailFacts

(* What every step of the host leaves alone, and what it does to the queue. *)
LEMMA HostFacts ==
    ASSUME TypeOK, Host
    PROVE  /\ UNCHANGED <<main, download, shared>>
           /\ HostCommand \/ (Gives /\ UNCHANGED session)
           /\ faults' \in Nat
<1>1. faults \in Nat
  BY DEF TypeOK
<1>2. CASE HostCommand
  BY <1>1, <1>2 DEF HostCommand
<1>3. CASE HostAsks
  BY <1>1, <1>3, SayFacts DEF HostAsks, Control
<1>4. CASE HostStores
  BY <1>1, <1>4, SayFacts DEF HostStores, Control
<1>5. CASE HostRepeats
  BY <1>1, <1>5, SayFacts DEF HostRepeats, Control
<1>6. CASE HostRefuses
  BY <1>1, <1>6, SayFacts DEF HostRefuses, Control
<1>7. CASE HostOutOfStep
  BY <1>1, <1>7, SayFacts DEF HostOutOfStep, Control
<1>8. CASE HostEnds
  BY <1>1, <1>8, SayFacts DEF HostEnds, Control
<1>9. CASE HostCanceled
  BY <1>1, <1>9 DEF HostCanceled, Gives
<1>10. CASE HostGivesUp
  BY <1>1, <1>10, SayFacts DEF HostGivesUp, Control
<1>11. CASE LineDrops
  BY <1>1, <1>11 DEF LineDrops, Gives, Fault, host
<1>. QED
  BY <1>2, <1>3, <1>4, <1>5, <1>6, <1>7, <1>8, <1>9, <1>10, <1>11 DEF Host

(* A step of the host keeps the types: what it stores is a block of the     *)
(* file.                                                                    *)
LEMMA TypeHost ==
    ASSUME TypeOK, LineInv, Host
    PROVE  TypeOK'
<1>. USE DEF main, download, shared, line, host
<1>0. /\ UNCHANGED <<main, download, shared>> /\ faults' \in Nat
      /\ HostCommand \/ Gives
  BY HostFacts
<1>1. RxType(rxq')
  <2>1. CASE HostCommand
    BY <2>1, EmptySeq DEF HostCommand, RxType
  <2>. QED  BY <1>0, <2>1, TypeRx, RxGives
<1>2. CASE HostCommand
  <2>1. toHost' \in Seq(Units(FrameData)) /\ hdata' \in Seq(1 .. NChunks)
    BY <1>2, EmptySeq DEF HostCommand
  <2>2. hpc' = "start" /\ hbn' = 0 /\ naks' = 0 /\ session' \in Nat
    BY <1>2 DEF HostCommand, TypeOK
  <2>. QED  BY <1>0, <1>1, <2>1, <2>2 DEF TypeOK, RxType
<1>3. CASE HostAsks
  BY <1>0, <1>1, <1>3 DEF HostAsks, TypeOK, RxType
<1>4. CASE HostStores
  <2>1. /\ toHost' \in Seq(Units(FrameData)) /\ Head(toHost) \in Units(FrameData)
        /\ Head(toHost) = toHost[1] /\ 1 \in DOMAIN toHost
    BY <1>4, HeardFacts DEF HostStores
  <2>2. /\ Head(toHost).t = "blk" /\ hpc' = "recv" /\ hbn' = Head(toHost).bn
        /\ hdata' = Append(hdata, Head(toHost).data) /\ UNCHANGED <<naks, session>>
    BY <1>4 DEF HostStores, Sound
  <2>3. Head(toHost).data \in 1 .. NChunks /\ hbn' \in 0 .. BNMod - 1
    BY <2>1, <2>2 DEF LineInv, Numbered, Units, FrameData
  <2>4. hdata' \in Seq(1 .. NChunks)
    BY <2>2, <2>3, AppendFacts DEF TypeOK
  <2>. QED  BY <1>0, <1>1, <2>1, <2>2, <2>3, <2>4 DEF TypeOK, RxType
<1>5. CASE HostRepeats
  BY <1>0, <1>1, <1>5, HeardFacts DEF HostRepeats, TypeOK, RxType
<1>6. CASE HostRefuses
  BY <1>0, <1>1, <1>6, HeardFacts DEF HostRefuses, TypeOK, RxType
<1>7. CASE HostOutOfStep
  BY <1>0, <1>1, <1>7, HeardFacts DEF HostOutOfStep, TypeOK, RxType
<1>8. CASE HostEnds
  BY <1>0, <1>1, <1>8, HeardFacts DEF HostEnds, TypeOK, RxType
<1>9. CASE HostCanceled
  BY <1>0, <1>1, <1>9, HeardFacts DEF HostCanceled, TypeOK, RxType
<1>10. CASE HostGivesUp
  BY <1>0, <1>1, <1>10 DEF HostGivesUp, TypeOK, RxType
<1>11. CASE LineDrops
  <2>1. toHost \in Seq(Units(FrameData)) /\ toHost # <<>>
    BY <1>11 DEF LineDrops, TypeOK
  <2>2. toHost' \in Seq(Units(FrameData))
    BY <1>11, <2>1, TailFacts, HitFacts DEF LineDrops
  <2>. QED  BY <1>0, <1>1, <1>11, <2>2 DEF LineDrops, TypeOK, RxType
<1>. QED
  BY <1>2, <1>3, <1>4, <1>5, <1>6, <1>7, <1>8, <1>9, <1>10, <1>11 DEF Host

(* Every step keeps the types.                                              *)
LEMMA TypeStep == TypeOK /\ Counters /\ LineInv /\ [Next]_vars => TypeOK'
  <1>1. ASSUME TypeOK, UNCHANGED vars PROVE TypeOK'
    BY <1>1 DEF TypeOK, vars, main, download, shared, line, host
  <1>. QED  BY <1>1, TypeMain, TypeDownload, TypeHost DEF Next

----------------------------------------------------------------------------
(* The two threads.                                                         *)

(* A refused command is over, with the echo on.                             *)
LEMMA RefuseIdle == Refuse => pc' = "idle" /\ echo' = TRUE
  BY DEF Refuse, Answer

(* Every step keeps the hand-over: the semaphore is given once, at the end. *)
LEMMA HandoverStep == IInv /\ [Next]_vars => Handover'
<1>. SUFFICES ASSUME IInv, [Next]_vars PROVE Handover'
  OBVIOUS
<1>. USE DEF main, download, shared
<1>1. TypeOK /\ Handover
  BY DEF IInv
<1>2. CASE Main
  <2>1. CASE pc # "url" /\ pc # "wait"
    BY <1>1, <1>2, <2>1, RefuseIdle DEF Main, FgetStart, ParseStray, Requested,
       RequestCanceled, NotRequested, DownloadRefused, DownloadStarts, DownloadEnds,
       EndSent, EndAcked, EndRefused, Answer, Handover, TypeOK
  <2>2. CASE pc = "url"
    BY <1>1, <1>2, <2>2, RefuseIdle DEF Main, FgetStart, ParseStray, Requested,
       RequestCanceled, NotRequested, DownloadRefused, DownloadStarts, DownloadEnds,
       EndSent, EndAcked, EndRefused, Handover, TypeOK
  <2>3. CASE pc = "wait"
    <3>1. DownloadEnds
      BY <1>2, <2>3 DEF Main, FgetStart, ParseStray, Requested, RequestCanceled,
         NotRequested, DownloadRefused, DownloadStarts, EndSent, EndAcked, EndRefused
    <3>. QED  BY <1>1, <3>1, RefuseIdle DEF DownloadEnds, Handover
  <2>. QED  BY <2>1, <2>2, <2>3
<1>3. CASE Download
  <2>1. dpc # "idle" /\ pc = "wait" /\ sem # 1 /\ pc' = pc /\ echo' = echo
    BY <1>1, <1>3 DEF Download, Fragment, Done, Error, BlockSent, BlockAcked, BlockAgain,
       BlockCanceled, BlockFailed, Handover
  <2>2. (dpc' # "idle" /\ sem' = sem) \/ (dpc' = "idle" /\ sem' = 1)
    BY <1>3, <2>1 DEF Download, Fragment, Done, Error, BlockSent, BlockAcked, BlockAgain,
       BlockCanceled, BlockFailed, Finish, NextOfFragment
  <2>. QED  BY <2>1, <2>2 DEF Handover
<1>4. CASE Host
  BY <1>1, <1>4, HostFacts DEF Handover
<1>5. CASE UNCHANGED vars
  BY <1>1, <1>5 DEF Handover, vars
<1>. QED  BY <1>2, <1>3, <1>4, <1>5 DEF Next

(* Every step keeps the callback within the fragment and the file.          *)
LEMMA CountersStep == IInv /\ [Next]_vars => Counters'
<1>. SUFFICES ASSUME IInv, [Next]_vars PROVE Counters'
  OBVIOUS
<1>. USE DEF main, download, shared
<1>1. TypeOK /\ Handover /\ Counters
  BY DEF IInv
<1>2. CASE Main
  <2>1. UNCHANGED <<frag>> /\ (dpc' = "fetch" \/ dpc' = dpc)
    BY <1>2 DEF Main, FgetStart, ParseStray, Requested, RequestCanceled, NotRequested,
       DownloadRefused, DownloadStarts, DownloadEnds, EndSent, EndAcked, EndRefused
  <2>2. chunk' = chunk \/ (dpc' = dpc /\ pc = "waitReq")
    BY <1>2 DEF Main, FgetStart, ParseStray, Requested, RequestCanceled, NotRequested,
       DownloadRefused, DownloadStarts, DownloadEnds, EndSent, EndAcked, EndRefused
  <2>3. pc' = "waitReq" => req' < ReqTries
    BY <1>1, <1>2, RefuseIdle DEF Main, FgetStart, ParseStray, Requested, RequestCanceled,
       NotRequested, DownloadRefused, DownloadStarts, DownloadEnds, EndSent, EndAcked,
       EndRefused, Answer, Counters
  <2>. QED  BY <1>1, <2>1, <2>2, <2>3 DEF Counters, Handover
<1>3. CASE Download
  <2>1. UNCHANGED <<pc, req>>
    BY <1>3 DEF Download, Fragment, Done, Error, BlockSent, BlockAcked, BlockAgain,
       BlockCanceled, BlockFailed
  <2>2. CASE Fragment
    BY <1>1, <2>1, <2>2 DEF Fragment, Left, Counters, TypeOK
  <2>3. CASE Done \/ Error \/ BlockCanceled \/ BlockFailed
    BY <1>1, <2>1, <2>3 DEF Done, Error, BlockCanceled, BlockFailed, Finish, Counters
  <2>4. CASE BlockSent
    BY <1>1, <2>1, <2>4 DEF BlockSent, Counters
  <2>5. CASE BlockAcked
    BY <1>1, <2>1, <2>5, NextFacts DEF BlockAcked, Counters
  <2>6. CASE BlockAgain
    BY <1>1, <2>1, <2>6, NextFacts DEF BlockAgain, Counters
  <2>. QED  BY <1>3, <2>2, <2>3, <2>4, <2>5, <2>6 DEF Download
<1>4. CASE Host
  BY <1>1, <1>4, HostFacts DEF Counters
<1>5. CASE UNCHANGED vars
  BY <1>1, <1>5 DEF Counters, vars
<1>. QED  BY <1>2, <1>3, <1>4, <1>5 DEF Next

----------------------------------------------------------------------------
(* Commands on the line.                                                    *)

NoCommand(q) == \A i \in DOMAIN q : q[i] # "CMD"

(* Taking from the queue brings no command.                                 *)
LEMMA NoCommandTakes ==
    ASSUME RxType(rxq), NoCommand(rxq), Takes
    PROVE  NoCommand(rxq')
  <1>1. ASSUME rxq # <<>>, rxq' = Tail(rxq) PROVE NoCommand(rxq')
    BY <1>1, TailFacts DEF NoCommand, RxType
  <1>. QED  BY <1>1 DEF Takes, NoCommand

(* A command is only ever first, so it is gone from the tail.               *)
LEMMA NoCommandTail ==
    ASSUME RxType(rxq), CommandInv, rxq # <<>>
    PROVE  NoCommand(Tail(rxq))
  BY TailFacts DEF NoCommand, RxType, CommandInv

(* With no command in the queue and none being taken up, nothing is asked   *)
(* of the line.                                                             *)
LEMMA NothingPending ==
    ASSUME RxType(rxq'), NoCommand(rxq'), pc' \notin {"waitReq", "url"}
    PROVE  CommandInv'
  <1>1. rxq' # <<>> => Head(rxq') = rxq'[1] /\ 1 \in DOMAIN rxq'
    BY TailFacts DEF RxType
  <1>2. ~CommandPending'
    BY <1>1 DEF NoCommand, CommandPending
  <1>. QED  BY <1>2 DEF NoCommand, CommandInv

(* While a command runs, no other one is on its way.                        *)
LEMMA BusyNoCommand ==
    ASSUME IInv, pc # "idle"
    PROVE  NoCommand(rxq)
  BY DEF IInv, CommandInv, NoCommand

(* A step of main() keeps a command first in the queue, on a clean line.    *)
LEMMA CommandInvMain ==
    ASSUME IInv, Main
    PROVE  CommandInv'
<1>0. TypeOK /\ CommandInv /\ RxType(rxq)
  BY TypeRx DEF IInv
<1>1. CASE FgetStart
  BY <1>0, <1>1 DEF FgetStart, CommandInv, CommandPending, host
<1>2. CASE ParseStray
  <2>1. Takes /\ NoCommand(rxq') /\ pc' = "idle"
    BY <1>0, <1>2, NoCommandTail DEF ParseStray, Takes, main
  <2>. QED  BY <1>0, <2>1, RxTakes, NothingPending
<1>3. CASE Requested
  <2>1. NoCommand(rxq') /\ UNCHANGED <<toHost, hdata>> /\ pc = "waitReq"
    BY <1>0, <1>3, BusyNoCommand, NoCommandTakes, ReplyTaken DEF Requested, host
  <2>. QED  BY <1>0, <2>1 DEF CommandInv, CommandPending, NoCommand
<1>4. CASE NotRequested
  <2>1. NoCommand(rxq') /\ pc = "waitReq" /\ UNCHANGED hdata
    BY <1>0, <1>4, BusyNoCommand, NoCommandTakes, ReplyTaken DEF NotRequested, Takes, host
  <2>2. CASE req' < ReqTries
    BY <1>0, <1>4, <2>1, <2>2 DEF NotRequested, CommandInv, CommandPending, NoCommand
  <2>3. CASE ~(req' < ReqTries)
    <3>1. Takes /\ pc' = "idle"
      BY <1>4, <2>3, ReplyTaken, RefuseIdle DEF NotRequested, Takes
    <3>. QED  BY <1>0, <2>1, <3>1, RxTakes, NothingPending
  <2>. QED  BY <2>2, <2>3
<1>5. CASE RequestCanceled \/ DownloadRefused \/ DownloadStarts \/ DownloadEnds
           \/ EndSent \/ EndAcked \/ EndRefused
  <2>1. pc # "idle" /\ Takes
    BY <1>5, ReplyTaken DEF RequestCanceled, DownloadRefused, DownloadStarts,
       DownloadEnds, EndSent, EndAcked, EndRefused, Takes, line
  <2>2. pc' \notin {"waitReq", "url"}
    BY <1>5, RefuseIdle DEF RequestCanceled, DownloadRefused, DownloadStarts,
       DownloadEnds, EndSent, EndAcked, EndRefused, Answer
  <2>. QED  BY <1>0, <2>1, <2>2, BusyNoCommand, NoCommandTakes, RxTakes, NothingPending
<1>. QED  BY <1>1, <1>2, <1>3, <1>4, <1>5 DEF Main

(* The download thread leaves main() and the host alone.                    *)
LEMMA DownloadFacts ==
    ASSUME IInv, Download
    PROVE  pc = "wait" /\ UNCHANGED <<pc, host>> /\ Takes
  <1>1. dpc # "idle" /\ UNCHANGED <<pc, host>>
    BY DEF Download, Fragment, Done, Error, BlockSent, BlockAcked, BlockAgain,
       BlockCanceled, BlockFailed, main
  <1>2. Takes
    BY ReplyTaken DEF Download, Fragment, Done, Error, BlockSent, BlockAcked, BlockAgain,
       BlockCanceled, BlockFailed, line, Takes
  <1>. QED  BY <1>1, <1>2 DEF IInv, Handover

(* A step of the host keeps a command first in the queue, on a clean line.  *)
LEMMA CommandInvHost ==
    ASSUME IInv, Host
    PROVE  CommandInv'
<1>0. TypeOK /\ CommandInv /\ RxType(rxq)
  BY TypeRx DEF IInv
<1>1. CASE HostCommand
  BY <1>1 DEF HostCommand, CommandInv, CommandPending, main
<1>2. CASE ~HostCommand
  <2>1. UNCHANGED pc /\ Gives
    BY <1>0, <1>2, HostFacts DEF main
  <2>2. toHost = <<>> => UNCHANGED <<toHost, hdata>>
    BY <1>2 DEF Host, HostAsks, HostStores, HostRepeats, HostRefuses, HostOutOfStep,
       HostEnds, HostCanceled, HostGivesUp, LineDrops, Heard, host
  <2>3. ASSUME NEW e \in Replies, rxq' = Append(rxq, e)
        PROVE  /\ \A i \in DOMAIN rxq' : rxq'[i] = "CMD" => i = 1 /\ pc = "idle"
               /\ CommandPending' => CommandPending
    <3>1. e # "CMD"
      BY DEF Replies, Control
    <3>2. \A i \in DOMAIN rxq' : (i \in DOMAIN rxq /\ rxq'[i] = rxq[i]) \/ rxq'[i] = e
      BY <1>0, <2>3, AppendFacts DEF RxType
    <3>3. \A i \in DOMAIN rxq' : rxq'[i] = "CMD" => i = 1 /\ pc = "idle"
      BY <1>0, <3>1, <3>2 DEF CommandInv
    <3>4. rxq = <<>> => Head(rxq') = e
      BY <2>3
    <3>5. rxq # <<>> => Head(rxq') = Head(rxq)
      BY <1>0, <2>3 DEF RxType
    <3>. QED  BY <3>1, <3>3, <3>4, <3>5 DEF CommandPending
  <2>4. CASE rxq' = rxq
    BY <1>0, <2>1, <2>2, <2>4 DEF CommandInv, CommandPending
  <2>5. CASE \E e \in Replies : rxq' = Append(rxq, e)
    BY <1>0, <2>1, <2>2, <2>3, <2>5 DEF CommandInv
  <2>. QED  BY <2>1, <2>4, <2>5 DEF Gives
<1>. QED  BY <1>1, <1>2

(* Every step keeps a command first in the queue, on a clean line.          *)
LEMMA CommandInvStep == IInv /\ [Next]_vars => CommandInv'
<1>. SUFFICES ASSUME IInv, [Next]_vars PROVE CommandInv'
  OBVIOUS
<1>1. CASE Download
  <2>1. pc = "wait" /\ pc' = "wait" /\ Takes /\ RxType(rxq)
    BY <1>1, DownloadFacts, TypeRx DEF IInv
  <2>. QED  BY <2>1, BusyNoCommand, NoCommandTakes, RxTakes, NothingPending
<1>2. CASE UNCHANGED vars
  BY <1>2 DEF IInv, CommandInv, CommandPending, vars, main, line, host
<1>. QED  BY <1>1, <1>2, CommandInvMain, CommandInvHost DEF Next

----------------------------------------------------------------------------
(* The order of the blocks on the line.                                     *)

Lines == Seq(Units(FrameData))
Stores == Seq(1 .. NChunks)

(* Every unit has a position in the file and a number.                      *)
LEMMA LineData ==
    ASSUME NEW q \in Lines
    PROVE  \A i \in DOMAIN q : q[i].data \in Nat /\ q[i].bn \in 0 .. BNMod - 1
  <1>1. \A u \in Units(FrameData) : u.data \in Nat /\ u.bn \in 0 .. BNMod - 1
    BY DEF Units, FrameData
  <1>2. \A i \in DOMAIN q : q[i] \in Units(FrameData)
    BY DEF Lines
  <1>. QED  BY <1>1, <1>2

(* A unit leaves the line.                                                  *)
LEMMA NumTail ==
    ASSUME NEW q \in Lines, q # <<>>, NEW c, NEW b, NEW h, NEW hb,
           Numbered(q, c, b, h, hb)
    PROVE  Numbered(Tail(q), c, b, h, hb)
  <1>. DEFINE r == Tail(q)
  <1>1. \A i \in DOMAIN r : i \in Nat /\ i + 1 \in DOMAIN q /\ r[i] = q[i + 1]
    BY TailFacts DEF Lines
  <1>. HIDE DEF r
  <1>2. \A i, j \in DOMAIN r : i < j => i + 1 < j + 1
    BY <1>1
  <1>3. Numbered(r, c, b, h, hb)
    BY <1>1, <1>2 DEF Numbered
  <1>. QED  BY <1>3 DEF r

(* A unit that is no block joins it.                                        *)
LEMMA NumAppendOther ==
    ASSUME NEW q \in Lines, NEW e \in Units(FrameData), e.t # "blk",
           NEW c, NEW b, NEW h, NEW hb, Numbered(q, c, b, h, hb)
    PROVE  Numbered(Append(q, e), c, b, h, hb)
  <1>. DEFINE r == Append(q, e)
  <1>1. \A i \in DOMAIN r : r[i].t = "blk" => i \in DOMAIN q /\ r[i] = q[i]
    BY AppendFacts DEF Lines
  <1>. HIDE DEF r
  <1>2. Numbered(r, c, b, h, hb)
    BY <1>1 DEF Numbered
  <1>. QED  BY <1>2 DEF r

(* The current block joins it.                                              *)
LEMMA NumAppendBlock ==
    ASSUME NEW q \in Lines, NEW c \in 1 .. NChunks, NEW b \in 0 .. BNMod - 1,
           NEW h \in Stores, NEW hb,
           Numbered(q, c, b, h, hb), StoredUpTo(c, b, h, hb)
    PROVE  Numbered(Append(q, Block(b, c, "none")), c, b, h, hb)
  <1>. DEFINE e == Block(b, c, "none")
              r == Append(q, e)
  <1>1. e \in Units(FrameData) /\ e.t = "blk" /\ e.data = c /\ e.bn = b
    BY DEF Block, Units, FrameData, Kinds, Flaws
  <1>. HIDE DEF e
  <1>2. Len(q) \in Nat
    BY DEF Lines
  <1>3. \A i \in DOMAIN r :
           \/ i \in DOMAIN q /\ r[i] = q[i] /\ i < Len(q) + 1
           \/ i = Len(q) + 1 /\ r[i] = e /\ i \notin DOMAIN q
    BY <1>1, AppendFacts DEF Lines
  <1>4. DOMAIN q \subseteq Nat
    BY DEF Lines
  <1>. HIDE DEF r
  <1>5. ASSUME NEW i \in DOMAIN r, r[i].t = "blk"
        PROVE  /\ 1 <= r[i].data /\ r[i].data <= c
               /\ r[i].data = c => r[i].bn = b
               /\ \A k \in DOMAIN h :
                     h[k] <= r[i].data /\ (h[k] = r[i].data => hb = r[i].bn)
    <2>1. CASE i \in DOMAIN q /\ r[i] = q[i]
      BY <1>5, <2>1 DEF Numbered
    <2>2. CASE r[i] = e
      BY <1>1, <2>2 DEF StoredUpTo
    <2>. QED  BY <1>3, <2>1, <2>2
  <1>6. ASSUME NEW i \in DOMAIN r, NEW j \in DOMAIN r,
               r[i].t = "blk", r[j].t = "blk", i < j
        PROVE  r[i].data <= r[j].data /\ (r[i].data = r[j].data => r[i].bn = r[j].bn)
    <2>1. i \in DOMAIN q /\ r[i] = q[i]
      BY <1>2, <1>3, <1>4, <1>6
    <2>2. CASE j \in DOMAIN q /\ r[j] = q[j]
      BY <1>6, <2>1, <2>2 DEF Numbered
    <2>3. CASE r[j] = e
      BY <1>1, <1>5, <1>6, <2>3
    <2>. QED  BY <1>3, <2>2, <2>3
  <1>7. Numbered(r, c, b, h, hb)
    BY <1>5, <1>6 DEF Numbered
  <1>. QED  BY <1>7 DEF r, e

(* The device turns to the next block, whatever number it gives it.         *)
LEMMA NumAdvance ==
    ASSUME NEW q \in Lines, NEW c \in Nat, NEW b, NEW b2, NEW h \in Stores, NEW hb,
           Numbered(q, c, b, h, hb), StoredUpTo(c, b, h, hb)
    PROVE  Numbered(q, c + 1, b2, h, hb) /\ StoredUpTo(c + 1, b2, h, hb)
  <1>1. \A i \in DOMAIN q : q[i].data \in Nat
    BY LineData
  <1>2. \A k \in DOMAIN h : h[k] \in Nat
    BY DEF Stores
  <1>3. \A n \in Nat : n <= c => n <= c + 1 /\ n # c + 1
    OBVIOUS
  <1>. QED  BY <1>1, <1>2, <1>3 DEF Numbered, StoredUpTo

(* The line hits the data of a block.                                       *)
LEMMA NumHit ==
    ASSUME NEW q, NEW r, DOMAIN r = DOMAIN q,
           \A i \in DOMAIN q :
              r[i].t = q[i].t /\ r[i].bn = q[i].bn /\ r[i].data = q[i].data,
           NEW c, NEW b, NEW h, NEW hb, Numbered(q, c, b, h, hb)
    PROVE  Numbered(r, c, b, h, hb)
  BY DEF Numbered

(* The host takes the first unit for the block after the last it has.  This *)
(* block is none that it has: the last one goes under another number.       *)
LEMMA NumStore ==
    ASSUME NEW q \in Lines, q # <<>>, Head(q).t = "blk",
           NEW c \in Nat, NEW b, NEW h \in Stores, NEW hb \in 0 .. BNMod - 1,
           Head(q).bn = NextBN(hb),
           Numbered(q, c, b, h, hb)
    PROVE  /\ \A k \in DOMAIN h : h[k] < Head(q).data
           /\ Numbered(Tail(q), c, b, Append(h, Head(q).data), Head(q).bn)
           /\ StoredUpTo(c, b, Append(h, Head(q).data), Head(q).bn)
  <1>. DEFINE d == Head(q).data
              r == Tail(q)
              g == Append(h, d)
              n == Head(q).bn
  <1>1. Head(q) = q[1] /\ 1 \in DOMAIN q /\ q[1].t = "blk"
    BY TailFacts DEF Lines
  <1>2. /\ 1 <= d /\ d <= c /\ (d = c => n = b)
        /\ \A j \in DOMAIN q : q[j].t = "blk" /\ 1 < j =>
              d <= q[j].data /\ (d = q[j].data => n = q[j].bn)
        /\ \A k \in DOMAIN h : h[k] <= d /\ (h[k] = d => hb = n)
    BY <1>1 DEF Numbered
  <1>3. d \in Nat /\ n # hb
    BY <1>1, LineData, NextBNFacts
  <1>4. \A k \in DOMAIN h : h[k] \in Nat
    BY DEF Stores
  <1>5. \A k \in DOMAIN h : h[k] < d
    BY <1>2, <1>3, <1>4
  <1>6. \A i \in DOMAIN r : i \in Nat /\ i + 1 \in DOMAIN q /\ r[i] = q[i + 1] /\ 1 < i + 1
    BY TailFacts DEF Lines
  <1>7. \A k \in DOMAIN g : g[k] \in Nat /\ (g[k] = d \/ (k \in DOMAIN h /\ g[k] = h[k]))
    <2>1. h \in Seq(Nat)
      BY DEF Stores
    <2>. QED  BY <1>3, <1>4, <2>1, AppendFacts
  <1>8. Numbered(r, c, b, h, hb)
    BY NumTail
  <1>9. \A i \in DOMAIN r : r[i].data \in Nat
    BY <1>6, LineData
  <1>. HIDE DEF r, g
  <1>10. ASSUME NEW i \in DOMAIN r, r[i].t = "blk", NEW k \in DOMAIN g
         PROVE  g[k] <= r[i].data /\ (g[k] = r[i].data => n = r[i].bn)
    <2>1. d <= r[i].data /\ (d = r[i].data => n = r[i].bn)
      BY <1>2, <1>6, <1>10
    <2>2. CASE g[k] = d
      BY <2>1, <2>2
    <2>3. CASE k \in DOMAIN h /\ g[k] = h[k]
      BY <1>3, <1>4, <1>5, <1>9, <2>1, <2>3
    <2>. QED  BY <1>7, <2>2, <2>3
  <1>11. Numbered(r, c, b, g, n)
    BY <1>8, <1>10 DEF Numbered
  <1>12. StoredUpTo(c, b, g, n)
    <2>. SUFFICES ASSUME NEW k \in DOMAIN g
                  PROVE  g[k] <= c /\ (g[k] = c => n = b)
      BY DEF StoredUpTo
    <2>1. CASE g[k] = d
      BY <1>2, <2>1
    <2>2. CASE k \in DOMAIN h /\ g[k] = h[k]
      BY <1>2, <1>3, <1>4, <1>5, <2>2
    <2>. QED  BY <1>7, <2>1, <2>2
  <1>. QED  BY <1>5, <1>11, <1>12 DEF r, g

(* The facts of the state that the steps below start from.                  *)
LEMMA LineFacts ==
    ASSUME IInv
    PROVE  /\ toHost \in Lines /\ hdata \in Stores /\ hbn \in 0 .. BNMod - 1
           /\ chunk \in Nat /\ bn \in 0 .. BNMod - 1
           /\ Numbered(toHost, chunk, bn, hdata, hbn)
           /\ StoredUpTo(chunk, bn, hdata, hbn) /\ StoredInOrder
  BY DEF IInv, TypeOK, LineInv, Lines, Stores

(* Nothing is on the line and nothing is stored.                            *)
LEMMA NothingStored ==
    ASSUME toHost' = <<>>, hdata' = <<>>
    PROVE  LineInv' /\ StoredInOrder'
  BY DEF LineInv, Numbered, StoredUpTo, StoredInOrder

(* A step that leaves the blocks where they are, adds a unit that is none,  *)
(* or takes one away.                                                       *)
LEMMA SameBlocks ==
    ASSUME IInv, UNCHANGED <<chunk, bn, hdata, hbn>>,
           \/ toHost' = toHost
           \/ toHost # <<>> /\ toHost' = Tail(toHost)
           \/ \E k \in Kinds \ {"blk"} : toHost' = Append(toHost, Ctrl(k))
    PROVE  LineInv' /\ StoredInOrder'
<1>1. Numbered(toHost', chunk, bn, hdata, hbn)
  <2>1. CASE toHost # <<>> /\ toHost' = Tail(toHost)
    BY <2>1, LineFacts, NumTail
  <2>2. CASE \E k \in Kinds \ {"blk"} : toHost' = Append(toHost, Ctrl(k))
    <3>1. PICK k \in Kinds \ {"blk"} : toHost' = Append(toHost, Ctrl(k))
      BY <2>2
    <3>2. Ctrl(k) \in Units(FrameData) /\ Ctrl(k).t # "blk"
      BY <3>1, CtrlType
    <3>. QED  BY <3>1, <3>2, LineFacts, NumAppendOther
  <2>. QED  BY <2>1, <2>2, LineFacts
<1>. QED  BY <1>1, LineFacts DEF LineInv, StoredInOrder

(* A step of main() keeps the order of the blocks.                          *)
LEMMA OrderMain ==
    ASSUME IInv, Main
    PROVE  LineInv' /\ StoredInOrder'
<1>0. TypeOK
  BY DEF IInv
<1>1. CASE Requested
  <2>1. toHost' = <<>> /\ hdata' = <<>>
    BY <1>1 DEF Requested, IInv, CommandInv, host
  <2>. QED  BY <2>1, NothingStored
<1>2. CASE ~Requested
  <2>1. UNCHANGED <<chunk, bn, hdata, hbn>>
    BY <1>2 DEF Main, FgetStart, ParseStray, RequestCanceled, NotRequested,
       DownloadRefused, DownloadStarts, DownloadEnds, EndSent, EndAcked, EndRefused,
       download, host
  <2>2. \/ UNCHANGED toHost \/ Refuse
        \/ Queued(Ctrl("EOT"))
        \/ toHost' \in {toHost, Append(toHost, Ctrl("CAN"))}
    BY <1>2 DEF Main, FgetStart, ParseStray, RequestCanceled, NotRequested,
       DownloadRefused, DownloadStarts, DownloadEnds, EndSent, EndAcked, EndRefused, line
  <2>3. \/ toHost' = toHost
        \/ toHost' = Append(toHost, Ctrl("CAN"))
        \/ toHost' = Append(toHost, Ctrl("EOT"))
    BY <1>0, <2>2, RefuseFacts DEF Queued
  <2>4. "CAN" \in Kinds \ {"blk"} /\ "EOT" \in Kinds \ {"blk"}
    BY DEF Kinds
  <2>. QED  BY <2>1, <2>3, <2>4, SameBlocks
<1>. QED  BY <1>1, <1>2

(* A step of the download thread keeps it.                                  *)
LEMMA OrderDownload ==
    ASSUME IInv, Download
    PROVE  LineInv' /\ StoredInOrder'
<1>0. TypeOK /\ Counters /\ UNCHANGED <<hdata, hbn>>
  BY DownloadFacts DEF IInv, host
<1>1. CASE Fragment \/ Done \/ Error \/ BlockCanceled \/ BlockFailed
  <2>1. UNCHANGED <<chunk, bn, toHost>>
    BY <1>1 DEF Fragment, Done, Error, BlockCanceled, BlockFailed, line
  <2>. QED  BY <1>0, <2>1, SameBlocks
<1>2. CASE BlockSent
  <2>1. UNCHANGED <<chunk, bn>>
    BY <1>2 DEF BlockSent
  <2>2. CASE toHost' = toHost \/ toHost' = Append(toHost, Ctrl("trunc"))
    <3>1. "trunc" \in Kinds \ {"blk"}
      BY DEF Kinds
    <3>. QED  BY <1>0, <2>1, <2>2, <3>1, SameBlocks
  <2>3. CASE toHost' = Append(toHost, Block(bn, chunk, "none"))
    <3>1. chunk \in 1 .. NChunks
      BY <1>0, <1>2, BlockType DEF BlockSent
    <3>2. Numbered(toHost', chunk, bn, hdata, hbn)
      BY <2>3, <3>1, LineFacts, NumAppendBlock
    <3>. QED  BY <1>0, <2>1, <3>2, LineFacts DEF LineInv, StoredInOrder
  <2>. QED  BY <1>0, <1>2, <2>2, <2>3, SentFacts
<1>3. CASE BlockAcked \/ BlockAgain
  <2>1. /\ UNCHANGED toHost
        /\ UNCHANGED <<chunk, bn>> \/ chunk' = chunk + 1
    BY <1>3 DEF BlockAcked, BlockAgain, NextOfFragment
  <2>2. CASE UNCHANGED <<chunk, bn>>
    BY <1>0, <2>1, <2>2, SameBlocks
  <2>3. CASE chunk' = chunk + 1
    <3>1. /\ Numbered(toHost, chunk', bn', hdata, hbn)
          /\ StoredUpTo(chunk', bn', hdata, hbn)
      BY <2>3, LineFacts, NumAdvance
    <3>. QED  BY <1>0, <2>1, <3>1, LineFacts DEF LineInv, StoredInOrder
  <2>. QED  BY <2>1, <2>2, <2>3
<1>. QED  BY <1>1, <1>2, <1>3 DEF Download

(* The block the host stores is newer than every one it has.                *)
LEMMA StoresInOrder ==
    ASSUME IInv, HostStores
    PROVE  LineInv' /\ StoredInOrder'
<1>1. /\ toHost # <<>> /\ toHost' = Tail(toHost)
      /\ Head(toHost).t = "blk" /\ Head(toHost).bn = NextBN(hbn)
      /\ hbn' = Head(toHost).bn /\ hdata' = Append(hdata, Head(toHost).data)
      /\ UNCHANGED <<chunk, bn>>
  BY DEF HostStores, Heard, Sound, download
<1>2. /\ \A k \in DOMAIN hdata : hdata[k] < Head(toHost).data
      /\ Numbered(toHost', chunk, bn, hdata', hbn') /\ StoredUpTo(chunk, bn, hdata', hbn')
  BY <1>1, LineFacts, NumStore
<1>3. LineInv'
  BY <1>1, <1>2 DEF LineInv
<1>4. Head(toHost).data \in Nat
  BY <1>1, LineFacts, TailFacts, LineData DEF Lines
<1>5. hdata \in Seq(Nat)
  BY LineFacts DEF Stores
<1>6. \A i \in DOMAIN hdata' :
         \/ i \in DOMAIN hdata /\ hdata'[i] = hdata[i] /\ i < Len(hdata) + 1
         \/ i = Len(hdata) + 1 /\ hdata'[i] = Head(toHost).data
  BY <1>1, <1>4, <1>5, AppendFacts
<1>7. StoredInOrder'
  <2>. SUFFICES ASSUME NEW i \in DOMAIN hdata', NEW j \in DOMAIN hdata', i < j
                PROVE  hdata'[i] < hdata'[j]
    BY DEF StoredInOrder
  <2>1. i \in DOMAIN hdata /\ hdata'[i] = hdata[i]
    <3>1. Len(hdata) \in Nat /\ DOMAIN hdata \subseteq Nat
      BY <1>5
    <3>2. ~(Len(hdata) + 1 < j)
      BY <1>6, <3>1
    <3>. QED  BY <1>6, <3>2
  <2>2. CASE j \in DOMAIN hdata /\ hdata'[j] = hdata[j]
    BY <2>1, <2>2, LineFacts DEF StoredInOrder
  <2>3. CASE hdata'[j] = Head(toHost).data
    BY <1>2, <2>1, <2>3
  <2>. QED  BY <1>6, <2>2, <2>3
<1>. QED  BY <1>3, <1>7

(* A step of the host keeps it.                                             *)
LEMMA OrderHost ==
    ASSUME IInv, Host
    PROVE  LineInv' /\ StoredInOrder'
<1>0. TypeOK
  BY DEF IInv
<1>1. CASE HostCommand
  BY <1>1, NothingStored DEF HostCommand
<1>2. CASE HostStores
  BY <1>2, StoresInOrder
<1>3. CASE ~HostCommand /\ ~HostStores
  <2>1. UNCHANGED <<chunk, bn, hdata, hbn>>
    BY <1>3 DEF Host, HostAsks, HostRepeats, HostRefuses, HostOutOfStep, HostEnds,
       HostCanceled, HostGivesUp, LineDrops, download, host
  <2>2. \/ toHost' = toHost
        \/ toHost # <<>> /\ toHost' = Tail(toHost)
        \/ toHost # <<>> /\ toHost' = [toHost EXCEPT ![1] = [@ EXCEPT !.flaw = "data"]]
    BY <1>3 DEF Host, HostAsks, HostRepeats, HostRefuses, HostOutOfStep, HostEnds,
       HostCanceled, HostGivesUp, LineDrops, Heard
  <2>3. CASE toHost # <<>> /\ toHost' = [toHost EXCEPT ![1] = [@ EXCEPT !.flaw = "data"]]
    <3>1. /\ DOMAIN toHost' = DOMAIN toHost
          /\ \A i \in DOMAIN toHost :
                /\ toHost'[i].t = toHost[i].t /\ toHost'[i].bn = toHost[i].bn
                /\ toHost'[i].data = toHost[i].data
      BY <2>3, LineFacts, HitFacts DEF Lines
    <3>2. Numbered(toHost', chunk, bn, hdata, hbn)
      BY <3>1, LineFacts, NumHit
    <3>. QED  BY <2>1, <3>2, LineFacts DEF LineInv, StoredInOrder
  <2>. QED  BY <2>1, <2>2, <2>3, SameBlocks
<1>. QED  BY <1>1, <1>2, <1>3

(* Every step keeps the order of the blocks.                                *)
LEMMA OrderStep == IInv /\ [Next]_vars => LineInv' /\ StoredInOrder'
  <1>1. ASSUME IInv, UNCHANGED vars PROVE LineInv' /\ StoredInOrder'
    BY <1>1 DEF IInv, LineInv, StoredInOrder, vars, download, line, host
  <1>. QED  BY <1>1, OrderMain, OrderDownload, OrderHost DEF Next

----------------------------------------------------------------------------
(* The theorems.                                                            *)

(* The invariant holds initially.                                           *)
LEMMA InvInit == Init => IInv
  <1>. SUFFICES ASSUME Init PROVE IInv
    OBVIOUS
  <1>1. Handover /\ Counters
    BY DEF Init, Handover, Counters
  <1>2. CommandInv
    BY DEF Init, CommandInv
  <1>3. LineInv /\ StoredInOrder
    BY DEF Init, LineInv, Numbered, StoredUpTo, StoredInOrder
  <1>. QED  BY <1>1, <1>2, <1>3, TypeInit DEF IInv

(* The invariant is inductive.                                              *)
LEMMA InvStep == IInv /\ [Next]_vars => IInv'
  <1>1. ASSUME IInv, [Next]_vars PROVE TypeOK'
    BY <1>1, TypeStep DEF IInv
  <1>. QED
    BY <1>1, HandoverStep, CountersStep, CommandInvStep, OrderStep DEF IInv

(* The inductive invariant of $$FGET: who drives the serial line, and in    *)
(* which order blocks are on it.                                            *)
THEOREM InvariantCorrect == Spec => []IInv
  BY InvInit, InvStep, PTL DEF Spec

(* No variable leaves its type: the counters of cmdFgetCb stay in the file, *)
(* the block number in its byte, the semaphore at one.                      *)
THEOREM TypeCorrect == Spec => []TypeOK
  <1>1. IInv => TypeOK
    BY DEF IInv
  <1>. QED  BY <1>1, InvariantCorrect, PTL

(* When $$FGET is back, the echo is on again, the callback is at rest and   *)
(* the semaphore is free: no download can end with the end of another.      *)
THEOREM CleanBetweenCorrect == Spec => []CleanBetween
  <1>1. IInv => CleanBetween
    BY DEF IInv, TypeOK, Handover, CleanBetween
  <1>. QED  BY <1>1, InvariantCorrect, PTL

(* The host never stores a block of the file twice or out of order, however *)
(* many units the line loses or damages and however late replies come.      *)
THEOREM StoredInOrderCorrect == Spec => []StoredInOrder
  <1>1. IInv => StoredInOrder
    BY DEF IInv
  <1>. QED  BY <1>1, InvariantCorrect, PTL

----------------------------------------------------------------------------
(* The file without a gap.  Turn by turn: as long as the host receives, one *)
(* unit or one reply is under way or none, and a try that failed has cost a *)
(* fault of the line.                                                       *)

(* A host and a line in turn with the device, and fewer faults than tries.  *)
InTurn == ~SlowHost /\ ~TxFault /\ MaxNaks <= 1 /\ MaxFaults < SendTries

Live == hpc \in Receiving
Still == toHost = <<>> /\ rxq = <<>>

(* The block or its reply has met a fault.                                  *)
Spoiled ==
    \/ toHost = <<>> /\ rxq \in {<<>>, <<"NAK">>, <<"junk">>}
    \/ rxq = <<>> /\ toHost = <<Block(bn, chunk, "data")>>

(* Neither has.                                                             *)
Unspoiled ==
    \/ toHost = <<>> /\ rxq = <<"ACK">> /\ Len(hdata) = chunk
    \/ rxq = <<>> /\ toHost = <<Block(bn, chunk, "none")>>

Turns ==
    /\ pc = "idle" => \A i \in DOMAIN toHost : toHost[i].t = "CAN"
    /\ pc = "waitReq" => rxq = <<>> \/ (naks >= 1 /\ Len(rxq) = 1)
    /\ pc \in {"url", "eot"} \/ (pc = "wait" /\ dpc # "reply") => Still
    /\ dpc = "send" => faults >= try
    /\ dpc = "reply" => (Spoiled /\ faults > try) \/ (Unspoiled /\ faults >= try)
    /\ pc = "eotReply" => rxq = <<>> /\ toHost \in {<<>>, <<Ctrl("EOT")>>}

(* The download has ended without an error.                                 *)
Whole == pc \in {"eot", "eotReply"} \/ (pc = "wait" /\ dpc = "idle" /\ cbErr = 0)

(* What the host has and where the callback is.                             *)
Level ==
    /\ pc \notin {"idle", "waitReq"} => naks >= 1
    /\ pc = "url" \/ dpc # "idle" => bn = chunk % BNMod
    /\ pc = "url" \/ dpc = "fetch" \/ Whole => Len(hdata) = chunk - 1
    /\ dpc \in {"send", "reply"} => Len(hdata) \in {chunk - 1, chunk}

(* An ACK is the answer to the block or the EOT the device waits for.       *)
Acks ==
    \A i \in DOMAIN rxq : rxq[i] = "ACK" =>
        /\ i = 1
        /\ dpc = "reply" \/ (pc = "eotReply" /\ hpc = "done" /\ Len(hdata) = NChunks)

Ends ==
    /\ Whole => chunk = NChunks + 1
    /\ result = "OK" =>
          pc = "idle" /\ (CommandPending \/ (hpc = "done" /\ Len(hdata) = NChunks))

Counted == StoredIsPrefix /\ hbn = Len(hdata) % BNMod

PrefixInv ==
    /\ faults <= MaxFaults
    /\ Live => Turns /\ Level
    /\ Acks /\ Ends /\ Counted

(* Euclid's division by the number of block numbers, both ways.             *)
LEMMA Divided == \A n \in Nat : n = BNMod * (n \div BNMod) + (n % BNMod) /\ n \div BNMod \in Nat /\ n % BNMod \in 0 .. BNMod - 1
  OBVIOUS

LEMMA Remainder == \A q \in Int, r \in 0 .. BNMod - 1 : (BNMod * q + r) % BNMod = r
  OBVIOUS

(* The successor of the number of block n is the number of block n + 1.     *)
LEMMA NextNumber ==
    ASSUME NEW n \in Nat
    PROVE  NextBN(n % BNMod) = (n + 1) % BNMod /\ n % BNMod \in 0 .. BNMod - 1
  <1>. DEFINE q == n \div BNMod  r == n % BNMod
  <1>1. n = BNMod * q + r /\ q \in Nat /\ r \in 0 .. BNMod - 1
    BY Divided
  <1>. HIDE DEF q, r
  <1>2. CASE r + 1 < BNMod
    <2>1. n + 1 = BNMod * q + (r + 1) /\ r + 1 \in 0 .. BNMod - 1 /\ (r + 1) % BNMod = r + 1
      BY <1>1, <1>2
    <2>2. (n + 1) % BNMod = r + 1
      BY <1>1, <2>1, Remainder
    <2>. QED  BY <1>1, <2>1, <2>2 DEF NextBN, r
  <1>3. CASE r + 1 = BNMod
    <2>1. n + 1 = BNMod * (q + 1) + 0 /\ (r + 1) % BNMod = 0 /\ q + 1 \in Int /\ 0 \in 0 .. BNMod - 1
      BY <1>1, <1>3
    <2>2. (n + 1) % BNMod = 0
      BY <2>1, Remainder
    <2>. QED  BY <1>1, <2>1, <2>2 DEF NextBN, r
  <1>. QED  BY <1>1, <1>2, <1>3

(* The only element of a queue.                                             *)
LEMMA OnlyOne ==
    /\ \A e : <<e>> # <<>> /\ Head(<<e>>) = e /\ Tail(<<e>>) = <<>> /\ Append(<<>>, e) = <<e>>
    /\ \A e : Len(<<e>>) = 1 /\ DOMAIN <<e>> = {1} /\ <<e>>[1] = e
  OBVIOUS

(* A hit on the only block of the line.                                     *)
LEMMA HitBlock ==
    ASSUME NEW b, NEW n, NEW flaw, NEW q, q = <<Block(b, n, flaw)>>
    PROVE  [q EXCEPT ![1] = [@ EXCEPT !.flaw = "data"]] = <<Block(b, n, "data")>>
  <1>1. [Block(b, n, flaw) EXCEPT !.flaw = "data"] = Block(b, n, "data")
    BY DEF Block
  <1>2. \A x, y : [<<x>> EXCEPT ![1] = y] = <<y>>
    OBVIOUS
  <1>3. q[1] = Block(b, n, flaw)
    OBVIOUS
  <1>. QED  BY <1>1, <1>2, <1>3

NoAck(q) == \A i \in DOMAIN q : q[i] # "ACK"

(* Where no ACK can be, none is left by what takes from the queue, and the  *)
(* one that can be is gone with the first byte.                             *)
LEMMA NoAckTakes ==
    ASSUME RxType(rxq), Acks
    PROVE  /\ dpc # "reply" /\ pc # "eotReply" => NoAck(rxq)
           /\ NoAck(rxq) /\ Takes => NoAck(rxq')
           /\ rxq # <<>> => NoAck(Tail(rxq))
           /\ NoAck(<<>>)
  <1>1. rxq # <<>> => NoAck(Tail(rxq))
    BY TailFacts DEF RxType, NoAck, Acks
  <1>2. NoAck(<<>>)
    BY DEF NoAck
  <1>. QED  BY <1>1, <1>2 DEF NoAck, Acks, Takes

(* Of what the device takes no ACK is left over for a later wait.           *)
LEMMA DeviceTakesAck ==
    ASSUME IInv, PrefixInv, Main \/ Download
    PROVE  NoAck(rxq')
<1>0. RxType(rxq) /\ Acks /\ Handover
  BY TypeRx DEF IInv, PrefixInv
<1>1. CASE dpc = "reply" \/ pc = "eotReply"
  <2>1. rxq' = <<>> \/ (rxq # <<>> /\ rxq' = Tail(rxq))
    BY <1>0, <1>1 DEF Handover, Main, FgetStart, ParseStray, Requested, RequestCanceled,
       NotRequested, DownloadRefused, DownloadStarts, DownloadEnds, EndSent, EndAcked,
       EndRefused, Download, Fragment, Done, Error, BlockSent, BlockAcked, BlockAgain,
       BlockCanceled, BlockFailed, Got, Replied, TimedOut
  <2>. QED  BY <1>0, <2>1, NoAckTakes
<1>2. CASE dpc # "reply" /\ pc # "eotReply"
  <2>1. Takes
    BY <1>0, <1>2 DEF Main, FgetStart, ParseStray, Requested, RequestCanceled,
       NotRequested, DownloadRefused, DownloadStarts, DownloadEnds, EndSent, EndAcked,
       EndRefused, Download, Fragment, Done, Error, BlockSent, BlockAcked, BlockAgain,
       BlockCanceled, BlockFailed, Got, Replied, TimedOut, Takes, line
  <2>. QED  BY <1>0, <1>2, <2>1, NoAckTakes
<1>. QED  BY <1>1, <1>2

(* The parts of the types the steps need.                                   *)
LEMMA CountTypes ==
    ASSUME IInv
    PROVE  /\ faults \in Nat /\ try \in Nat /\ try < SendTries /\ chunk \in Nat /\ chunk >= 1
           /\ bn \in 0 .. BNMod - 1 /\ hbn \in 0 .. BNMod - 1 /\ naks \in Nat
           /\ hdata \in Seq(1 .. NChunks) /\ Len(hdata) \in Nat
           /\ toHost \in Seq(Units(FrameData)) /\ RxType(rxq)
           /\ dpc # "idle" => pc = "wait"
           /\ (sem = 1 => pc = "wait" /\ dpc = "idle")
  BY TypeRx DEF IInv, TypeOK, Handover

(* The end of a refused command: from an empty line the host gets a CAN.    *)
LEMMA RefuseTurn ==
    ASSUME InTurn, IInv, Refuse
    PROVE  /\ pc' = "idle" /\ result' = "NG" /\ faults' = faults
           /\ toHost = <<>> => toHost' = <<Ctrl("CAN")>>
           /\ toHost = <<>> => \A i \in DOMAIN toHost' : toHost'[i].t = "CAN"
  <1>1. toHost' = Append(toHost, Ctrl("CAN")) /\ faults' = faults
    BY DEF InTurn, Refuse, TransmitCancel, NotQueued, Queued
  <1>2. Ctrl("CAN").t = "CAN"
    BY DEF Ctrl
  <1>3. toHost = <<>> => toHost' = <<Ctrl("CAN")>>
    BY <1>1, OnlyOne
  <1>. QED  BY <1>1, <1>2, <1>3, OnlyOne DEF Refuse, Answer

(* main() keeps the turns.                                                  *)
LEMMA TurnsMain ==
    ASSUME InTurn, IInv, PrefixInv, Main
    PROVE  PrefixInv'
<1>. USE DEF main, download, shared, line, host
<1>0. /\ faults <= MaxFaults /\ (Live => Turns /\ Level) /\ Acks /\ Ends /\ Counted
      /\ Handover /\ CommandInv
  BY DEF PrefixInv, IInv
<1>1. UNCHANGED <<host, hpc, hbn, hdata, naks>> /\ Live' = Live
  BY DEF Main, FgetStart, ParseStray, Requested, RequestCanceled, NotRequested,
     DownloadRefused, DownloadStarts, DownloadEnds, EndSent, EndAcked, EndRefused, Live
<1>2. Counted'
  BY <1>0, <1>1 DEF Counted, StoredIsPrefix
<1>3. Acks'
  BY DeviceTakesAck DEF NoAck, Acks
<1>. SUFFICES faults' <= MaxFaults /\ (Live => Turns' /\ Level') /\ Ends'
  BY <1>1, <1>2, <1>3 DEF PrefixInv
<1>4. CASE FgetStart
  <2>1. faults' <= MaxFaults /\ Ends'
    BY <1>0, <1>4 DEF FgetStart, Ends, Whole, Handover
  <2>2. Turns' /\ Level'
    BY <1>0, <1>4 DEF FgetStart, Turns, Level, Whole, Handover
  <2>. QED  BY <2>1, <2>2
<1>5. CASE ParseStray
  <2>1. faults' <= MaxFaults /\ UNCHANGED <<pc, dpc, cbErr, chunk, result, toHost, hpc, hdata>> /\ ~CommandPending
    BY <1>0, <1>5 DEF ParseStray, CommandPending
  <2>2. Ends'
    BY <1>0, <2>1 DEF Ends, Whole
  <2>3. Live => Turns' /\ Level'
    BY <1>0, <1>5 DEF ParseStray, Turns, Level, Whole, Handover
  <2>. QED  BY <2>1, <2>2, <2>3
<1>6. CASE Requested
  <2>1. faults' <= MaxFaults /\ Ends'
    BY <1>0, <1>6 DEF Requested, Ends, Whole, Handover
  <2>2. toHost = <<>> /\ hdata = <<>> /\ rxq # <<>> /\ rxq' = Tail(rxq)
    BY <1>0, <1>6 DEF Requested, CommandInv, Got
  <2>3. Live => rxq' = <<>> /\ naks >= 1
    BY <1>0, <1>6, <2>2, OneLess, CountTypes DEF Requested, Turns, RxType
  <2>4. Live => Turns'
    BY <1>0, <1>6, <2>2, <2>3 DEF Requested, Turns, Still, Handover
  <2>5. Len(hdata) = 0 /\ 1 % BNMod = 1
    BY <2>2
  <2>6. Live => Level'
    BY <1>0, <1>1, <1>6, <2>3, <2>5 DEF Requested, Level, Whole, Handover
  <2>. QED  BY <2>1, <2>4, <2>6
<1>7. CASE Refuse /\ UNCHANGED dpc /\ dpc = "idle" /\ (Live => toHost = <<>>)
  <2>1. pc' = "idle" /\ result' = "NG" /\ faults' = faults /\ dpc' = "idle"
    BY <1>7, RefuseTurn
  <2>2. Live => \A i \in DOMAIN toHost' : toHost'[i].t = "CAN"
    BY <1>7, RefuseTurn
  <2>3. Live => Turns'
    BY <2>1, <2>2 DEF Turns
  <2>4. Level' /\ Ends'
    BY <2>1 DEF Level, Ends, Whole
  <2>. QED  BY <1>0, <2>1, <2>3, <2>4
<1>8. CASE RequestCanceled
  BY <1>0, <1>7, <1>8 DEF RequestCanceled, CommandInv, Handover
<1>9. CASE NotRequested
  <2>1. CASE req' < ReqTries
    <3>1. UNCHANGED <<pc, echo, result, toHost, faults, dpc, cbErr, chunk, bn>> /\ pc = "waitReq" /\ dpc = "idle"
      BY <1>0, <1>9, <2>1 DEF NotRequested, Handover
    <3>2. rxq' = <<>> \/ (rxq # <<>> /\ rxq' = Tail(rxq))
      BY <1>9 DEF NotRequested, Got
    <3>3. Live => rxq' = <<>>
      BY <1>0, <3>1, <3>2, OneLess, CountTypes DEF Turns, RxType
    <3>4. Live => Turns' /\ Level'
      BY <1>0, <3>1, <3>3 DEF Turns, Level, Whole
    <3>5. Ends'
      BY <1>0, <3>1 DEF Ends, Whole
    <3>. QED  BY <1>0, <3>1, <3>4, <3>5
  <2>2. CASE ~(req' < ReqTries)
    BY <1>0, <1>7, <1>9, <2>2 DEF NotRequested, CommandInv, Handover
  <2>. QED  BY <2>1, <2>2
<1>10. CASE DownloadRefused
  BY <1>0, <1>7, <1>10 DEF DownloadRefused, CommandInv, Handover
<1>11. CASE DownloadStarts
  <2>1. faults' <= MaxFaults /\ Ends'
    BY <1>0, <1>11 DEF DownloadStarts, Ends, Whole
  <2>2. Live => Turns' /\ Level'
    BY <1>0, <1>11 DEF DownloadStarts, Turns, Level, Whole, Still
  <2>. QED  BY <2>1, <2>2
<1>12. CASE DownloadEnds
  <2>1. CASE cbErr = 0
    <3>1. pc' = "eot" /\ UNCHANGED <<echo, result, toHost, faults, dpc, cbErr, chunk, bn, rxq, try>> /\ pc = "wait" /\ dpc = "idle"
      BY <1>12, <2>1, CountTypes DEF DownloadEnds
    <3>2. Live => Turns' /\ Level'
      BY <1>0, <1>1, <2>1, <3>1 DEF Turns, Level, Whole, Still
    <3>3. Ends'
      BY <1>0, <2>1, <3>1 DEF Ends, Whole
    <3>. QED  BY <1>0, <3>1, <3>2, <3>3
  <2>2. CASE cbErr # 0
    BY <1>0, <1>7, <1>12, <2>2, CountTypes DEF DownloadEnds, Turns, Still
  <2>. QED  BY <2>1, <2>2
<1>13. CASE EndSent
  <2>1. /\ pc = "eot" /\ pc' = "eotReply" /\ toHost' = Append(toHost, Ctrl("EOT")) /\ dpc = "idle"
        /\ UNCHANGED <<echo, result, faults, dpc, cbErr, chunk, bn, rxq, try>>
    BY <1>0, <1>13, CountTypes DEF EndSent, Queued, InTurn
  <2>2. Live => rxq' = <<>> /\ toHost' = <<Ctrl("EOT")>>
    BY <1>0, <2>1, OnlyOne DEF Turns, Still
  <2>3. Live => Turns' /\ Level'
    BY <1>0, <1>1, <2>1, <2>2 DEF Turns, Level, Whole
  <2>4. Ends'
    BY <1>0, <2>1 DEF Ends, Whole
  <2>. QED  BY <1>0, <2>1, <2>3, <2>4
<1>14. CASE EndAcked
  <2>1. pc = "eotReply" /\ rxq # <<>> /\ Head(rxq) = "ACK" /\ dpc = "idle"
    BY <1>0, <1>14 DEF EndAcked, Got, SendEndRet, Handover
  <2>2. 1 \in DOMAIN rxq /\ rxq[1] = "ACK"
    BY <2>1, CountTypes, TailFacts DEF RxType
  <2>3. hpc = "done" /\ Len(hdata) = NChunks /\ ~Live
    BY <1>0, <2>1, <2>2 DEF Acks, Live, Receiving
  <2>4. pc' = "idle" /\ UNCHANGED <<dpc, faults>>
    BY <1>14 DEF EndAcked, Answer
  <2>. QED  BY <1>0, <1>1, <2>1, <2>3, <2>4 DEF Ends, Whole
<1>15. CASE EndRefused
  <2>1. /\ pc = "eotReply" /\ Refuse /\ UNCHANGED dpc /\ dpc = "idle"
        /\ rxq # <<>> \/ toHost = <<>>
    BY <1>0, <1>15 DEF EndRefused, Got, TimedOut, Handover, InTurn
  <2>. QED  BY <1>0, <1>7, <2>1 DEF Turns
<1>. QED  BY <1>4, <1>5, <1>6, <1>8, <1>9, <1>10, <1>11, <1>12, <1>13, <1>14, <1>15 DEF Main

(* A new turn of the callback, with the queue and the line at rest.         *)
LEMMA Callback ==
    ASSUME IInv, PrefixInv, Download
    PROVE  /\ UNCHANGED <<pc, result, hpc, hbn, hdata, naks, Live>> /\ pc = "wait" /\ dpc # "idle"
           /\ Acks' /\ Counted' /\ result # "OK"
  <1>1. UNCHANGED <<pc, result, host>> /\ pc = "wait" /\ dpc # "idle"
    BY DownloadFacts DEF Download, Fragment, Done, Error, BlockSent, BlockAcked, BlockAgain,
       BlockCanceled, BlockFailed, main
  <1>2. UNCHANGED <<hpc, hbn, hdata, naks, Live>>
    BY <1>1 DEF host, Live
  <1>3. Acks'
    BY DeviceTakesAck DEF NoAck, Acks
  <1>4. Counted' /\ result # "OK"
    BY <1>1, <1>2 DEF PrefixInv, Counted, StoredIsPrefix, Ends
  <1>. QED  BY <1>1, <1>2, <1>3, <1>4

(* On the last try of a block the faults are used up.                       *)
LEMMA TriesLast ==
    ASSUME InTurn, IInv, PrefixInv, faults > try
    PROVE  try + 1 < SendTries
  <1>1. MaxFaults \in Nat /\ SendTries \in Nat /\ MaxFaults < SendTries
    BY FgetAssumption DEF InTurn, FgetAssumption
  <1>2. faults <= MaxFaults
    BY DEF PrefixInv
  <1>. QED  BY <1>1, <1>2, CountTypes

(* The download thread keeps the turns.                                     *)
LEMMA TurnsDownload ==
    ASSUME InTurn, IInv, PrefixInv, Download
    PROVE  PrefixInv'
<1>. USE DEF main, download, shared, line, host
<1>0. /\ faults <= MaxFaults /\ (Live => Turns /\ Level) /\ Ends
      /\ UNCHANGED <<pc, result, hpc, hbn, hdata, naks, Live>> /\ pc = "wait" /\ dpc # "idle"
      /\ Acks' /\ Counted' /\ result # "OK"
  BY Callback DEF PrefixInv
<1>1. Counters /\ TypeOK
  BY DEF IInv
<1>. SUFFICES faults' <= MaxFaults /\ (Live => Turns' /\ Level') /\ Ends'
  BY <1>0 DEF PrefixInv
<1>2. (dpc' # "idle" \/ cbErr' # 0 \/ chunk' = NChunks + 1) => Ends'
  BY <1>0 DEF Ends, Whole
<1>3. CASE Fragment
  <2>1. Live => Turns' /\ Level'
    BY <1>0, <1>3, CountTypes DEF Fragment, Turns, Level, Whole, Still
  <2>. QED  BY <1>0, <1>2, <1>3, <2>1 DEF Fragment
<1>4. CASE Done
  <2>1. chunk' = NChunks + 1 /\ chunk' = chunk
    BY <1>4, CountTypes DEF Done, Left
  <2>2. Live => Turns' /\ Level'
    BY <1>0, <1>4, CountTypes DEF Done, Finish, Turns, Level, Whole, Still
  <2>. QED  BY <1>0, <1>2, <1>4, <2>1, <2>2 DEF Done
<1>5. CASE Error
  <2>1. Live => Turns' /\ Level'
    BY <1>0, <1>5 DEF Error, Finish, Turns, Level, Whole, Still
  <2>. QED  BY <1>0, <1>2, <1>5, <2>1 DEF Error, Finish
<1>6. CASE BlockSent
  <2>1. /\ dpc = "send" /\ dpc' = "reply" /\ toHost' = Append(toHost, Block(bn, chunk, "none"))
        /\ UNCHANGED <<bn, chunk, try, rxq, faults>>
    BY <1>6 DEF BlockSent, Queued, InTurn
  <2>2. Live => Unspoiled' /\ faults' >= try'
    BY <1>0, <2>1, OnlyOne DEF Turns, Still, Unspoiled
  <2>3. Live => Turns' /\ Level'
    BY <1>0, <2>1, <2>2 DEF Turns, Level, Whole
  <2>. QED  BY <1>0, <1>2, <2>1, <2>3
<1>7. ASSUME Live, dpc = "reply", rxq # <<>>, rxq' = Tail(rxq), toHost' = toHost
      PROVE  Still' /\ (Head(rxq) = "ACK" => Len(hdata) = chunk)
                    /\ (Head(rxq) # "ACK" => faults > try)
  BY <1>0, <1>7, OnlyOne DEF Turns, Spoiled, Unspoiled, Still
<1>8. CASE BlockAcked
  <2>1. /\ dpc = "reply" /\ rxq # <<>> /\ rxq' = Tail(rxq) /\ toHost' = toHost /\ Head(rxq) = "ACK"
        /\ bn' = NextBN(bn) /\ UNCHANGED faults
    BY <1>8 DEF BlockAcked, Replied, Got, SendBlockRet, Replies, Control
  <2>2. chunk' = chunk + 1 /\ try' = 0 /\ dpc' \in {"send", "fetch"} /\ chunk \in Nat
    BY <1>8, CountTypes DEF BlockAcked, NextOfFragment
  <2>3. Live => bn' = chunk' % BNMod
    BY <1>0, <2>1, <2>2, NextNumber DEF Level
  <2>4. Live => Still' /\ Len(hdata) = chunk
    BY <1>7, <2>1
  <2>5. Live => Turns' /\ Level'
    BY <1>0, <2>1, <2>2, <2>3, <2>4, CountTypes DEF Turns, Level, Whole
  <2>. QED  BY <1>0, <1>2, <2>1, <2>2, <2>5
<1>9. CASE BlockAgain
  <2>1. /\ dpc = "reply" /\ toHost' = toHost /\ UNCHANGED <<bn, faults>> /\ dpc' # "idle"
        /\ \/ rxq # <<>> /\ rxq' = Tail(rxq) /\ Head(rxq) # "ACK"
           \/ rxq = <<>> /\ rxq' = rxq /\ toHost = <<>>
    BY <1>9 DEF BlockAgain, Replied, Got, SendBlockRet, TimedOut, InTurn, NextOfFragment
  <2>2. Live => Still' /\ faults > try
    <3>1. CASE rxq # <<>>
      BY <1>7, <2>1, <3>1
    <3>2. CASE rxq = <<>>
      BY <1>0, <2>1, <3>2, OnlyOne DEF Turns, Spoiled, Unspoiled, Still
    <3>. QED  BY <3>1, <3>2
  <2>3. Live => try' = try + 1 /\ dpc' = "send" /\ chunk' = chunk
    BY <1>9, <2>2, TriesLast DEF BlockAgain
  <2>4. Live => Turns' /\ Level'
    BY <1>0, <2>1, <2>2, <2>3, CountTypes DEF Turns, Level, Whole
  <2>. QED  BY <1>0, <1>2, <2>1, <2>4
<1>10. CASE BlockCanceled \/ BlockFailed
  <2>1. /\ dpc = "reply" /\ rxq # <<>> /\ rxq' = Tail(rxq) /\ toHost' = toHost
        /\ UNCHANGED faults /\ dpc' = "idle" /\ cbErr' # 0
    BY <1>10 DEF BlockCanceled, BlockFailed, Replied, Got, Finish
  <2>2. Live => Still'
    BY <1>7, <2>1
  <2>3. Live => Turns' /\ Level'
    BY <1>0, <2>1, <2>2 DEF Turns, Level, Whole
  <2>. QED  BY <1>0, <1>2, <2>1, <2>3
<1>. QED  BY <1>3, <1>4, <1>5, <1>6, <1>8, <1>9, <1>10 DEF Download

(* What the host says into an empty queue is there, or a fault was spent.   *)
LEMMA SaidFirst ==
    ASSUME NEW byte, Say(byte), rxq = <<>>, faults \in Nat, faults <= MaxFaults
    PROVE  /\ faults' <= MaxFaults /\ faults' >= faults /\ faults' \in Nat
           /\ \/ rxq' = <<byte>>
              \/ rxq' \in {<<>>, <<"junk">>} /\ faults' = faults + 1
  <1>1. MaxFaults \in Nat /\ Len(<<>>) < RxCap
    BY FgetAssumption DEF FgetAssumption
  <1>. QED  BY <1>1, OnlyOne DEF Say, Arrive, Fault

(* Whatever is said, the command at the head stays there, and an ACK is     *)
(* only where one was.                                                      *)
LEMMA Said ==
    ASSUME IInv, PrefixInv, NEW byte \in {"NAK", "CAN"}, Say(byte), UNCHANGED <<dpc, pc, hdata>>,
           hpc = "done" => hpc' = "done"
    PROVE  /\ faults' <= MaxFaults /\ faults' >= faults /\ Acks'
           /\ CommandPending => CommandPending'
  <1>0. RxType(rxq) /\ faults \in Nat /\ MaxFaults \in Nat /\ Acks /\ faults <= MaxFaults
    BY CountTypes, FgetAssumption DEF PrefixInv, FgetAssumption
  <1>1. faults' <= MaxFaults /\ faults' >= faults
    BY <1>0 DEF Say, Fault
  <1>2. CASE rxq' = rxq
    BY <1>0, <1>1, <1>2 DEF Acks, CommandPending
  <1>3. ASSUME NEW e \in {"NAK", "CAN", "junk"}, rxq' = Append(rxq, e)
        PROVE  Acks' /\ (CommandPending => CommandPending')
    <2>1. e \in Replies \cup {"CMD"} /\ e # "ACK"
      BY DEF Replies, Control
    <2>2. \A i \in DOMAIN rxq' : (i \in DOMAIN rxq /\ rxq'[i] = rxq[i]) \/ rxq'[i] = e
      BY <1>0, <1>3, <2>1, AppendFacts DEF RxType
    <2>3. Acks'
      BY <1>0, <2>1, <2>2 DEF Acks
    <2>4. rxq # <<>> => rxq' # <<>> /\ Head(rxq') = Head(rxq)
      BY <1>0, <1>3 DEF RxType
    <2>. QED  BY <2>3, <2>4 DEF CommandPending
  <1>. QED  BY <1>1, <1>2, <1>3 DEF Say, Arrive

(* What a host that receives can hear: only the block of this turn, while   *)
(* the callback waits for its reply, the EOT at the end, or a CAN.          *)
LEMMA Hears ==
    ASSUME IInv, PrefixInv, Heard
    PROVE  /\ Live
           /\ Head(toHost).t \notin {"CAN", "EOT"} =>
                 /\ dpc = "reply" /\ pc = "wait" /\ rxq = <<>> /\ toHost' = <<>>
                 /\ \/ Head(toHost) = Block(bn, chunk, "none") /\ faults >= try
                    \/ Head(toHost) = Block(bn, chunk, "data") /\ faults > try
           /\ Head(toHost).t = "EOT" =>
                 pc = "eotReply" /\ rxq = <<>> /\ dpc = "idle"
           /\ pc = "idle" => \A i \in DOMAIN toHost' : toHost'[i].t = "CAN"
  <1>1. Live /\ toHost # <<>> /\ toHost' = Tail(toHost) /\ Turns /\ Handover /\ CommandInv
    BY DEF Heard, Live, PrefixInv, IInv
  <1>2. /\ Head(toHost) = toHost[1] /\ 1 \in DOMAIN toHost
        /\ \A i \in DOMAIN Tail(toHost) : i + 1 \in DOMAIN toHost /\ Tail(toHost)[i] = toHost[i + 1]
    BY <1>1, CountTypes, TailFacts
  <1>3. pc \in {"idle", "waitReq", "url", "wait", "eot", "eotReply"}
    BY DEF IInv, TypeOK
  <1>4. CASE pc = "idle"
    BY <1>1, <1>2, <1>4 DEF Turns
  <1>5. CASE pc \in {"waitReq", "url", "eot"}
    BY <1>1, <1>5 DEF CommandInv, Turns, Still
  <1>6. CASE pc = "wait"
    <2>1. dpc = "reply" /\ rxq = <<>> /\ toHost' = <<>>
          /\ \/ Head(toHost) = Block(bn, chunk, "none") /\ faults >= try
             \/ Head(toHost) = Block(bn, chunk, "data") /\ faults > try
      BY <1>1, <1>6, OnlyOne DEF Turns, Still, Spoiled, Unspoiled
    <2>2. Head(toHost).t = "blk"
      BY <2>1 DEF Block
    <2>. QED  BY <1>1, <1>6, <2>1, <2>2
  <1>7. CASE pc = "eotReply"
    <2>1. dpc = "idle" /\ rxq = <<>> /\ Head(toHost) = Ctrl("EOT")
      BY <1>1, <1>7, CountTypes, OnlyOne DEF Turns
    <2>. QED  BY <1>1, <1>7, <2>1 DEF Ctrl
  <1>. QED  BY <1>3, <1>4, <1>5, <1>6, <1>7

(* In the turn of the callback, what the host has answered.                 *)
LEMMA Replying ==
    ASSUME IInv, PrefixInv, Live, dpc = "reply", UNCHANGED <<main, download, shared>>,
           naks' >= naks, naks' \in Nat, faults' <= MaxFaults, hpc' \in Receiving,
           Counted', Len(hdata') \in {chunk - 1, chunk},
           (Spoiled' /\ faults' > try) \/ (Unspoiled' /\ faults' >= try)
    PROVE  PrefixInv'
  <1>. USE DEF main, download, shared
  <1>1. pc = "wait" /\ Turns /\ Level /\ Ends
    BY CountTypes DEF PrefixInv
  <1>2. Turns'
    BY <1>1 DEF Turns
  <1>3. Level'
    BY <1>1, CountTypes DEF Level, Whole
  <1>4. Ends'
    BY <1>1 DEF Ends, Whole
  <1>5. Acks'
    BY <1>1, OnlyOne DEF Acks, Spoiled, Unspoiled
  <1>. QED  BY <1>2, <1>3, <1>4, <1>5 DEF PrefixInv

(* A step after which the host no longer receives, or never did.            *)
LEMMA NotLive ==
    ASSUME IInv, PrefixInv, UNCHANGED <<main, download, shared, hbn, hdata>>,
           faults' <= MaxFaults, hpc' \notin Receiving, hpc = "done" => hpc' = "done",
           CommandPending => CommandPending', Acks'
    PROVE  PrefixInv'
  <1>. USE DEF main, download, shared
  <1>1. Ends /\ Counted
    BY DEF PrefixInv
  <1>2. Ends'
    BY <1>1 DEF Ends, Whole
  <1>3. Counted'
    BY <1>1 DEF Counted, StoredIsPrefix
  <1>. QED  BY <1>2, <1>3 DEF PrefixInv, Live

(* The block the host stores is the next one of the file.                   *)
LEMMA StoresNext ==
    ASSUME IInv, PrefixInv, HostStores
    PROVE  PrefixInv'
  <1>1. Heard /\ Sound(Head(toHost)) /\ Head(toHost).bn = NextBN(hbn) /\ Say("ACK")
        /\ hpc' = "recv" /\ hbn' = Head(toHost).bn /\ hdata' = Append(hdata, Head(toHost).data)
        /\ UNCHANGED <<main, download, shared, naks>>
    BY DEF HostStores
  <1>2. Head(toHost).t \notin {"CAN", "EOT"} /\ Head(toHost).flaw = "none"
    BY <1>1 DEF Sound
  <1>3. /\ Live /\ dpc = "reply" /\ rxq = <<>> /\ toHost' = <<>> /\ faults >= try
        /\ Head(toHost) = Block(bn, chunk, "none")
    BY <1>1, <1>2, Hears, CountTypes DEF Block
  <1>4. Head(toHost).bn = bn /\ Head(toHost).data = chunk
    BY <1>3 DEF Block
  <1>5. Level /\ Counted
    BY <1>3 DEF PrefixInv
  <1>6. Len(hdata) = chunk - 1
    <2>1. SUFFICES ASSUME Len(hdata) = chunk PROVE FALSE
      BY <1>3, <1>5 DEF Level
    <2>2. bn = hbn
      BY <1>3, <1>5, <2>1 DEF Level, Counted
    <2>. QED  BY <1>1, <1>4, <2>2, NextBNFacts, CountTypes
  <1>7. chunk \in 1 .. NChunks
    BY <1>3, BlockType DEF IInv
  <1>8. hdata' = Append(hdata, chunk) /\ Len(hdata') = chunk
        /\ \A i \in DOMAIN hdata' : hdata'[i] = i
    <2>1. hdata \in Seq(1 .. NChunks) /\ hdata' = Append(hdata, chunk) /\ chunk \in Nat
      BY <1>1, <1>4, CountTypes
    <2>2. /\ Len(Append(hdata, chunk)) = chunk
          /\ \A i \in DOMAIN Append(hdata, chunk) :
                \/ i \in DOMAIN hdata /\ Append(hdata, chunk)[i] = hdata[i]
                \/ i = chunk /\ Append(hdata, chunk)[i] = chunk
      BY <1>6, <1>7, <2>1, AppendFacts
    <2>. QED  BY <1>5, <2>1, <2>2 DEF Counted, StoredIsPrefix
  <1>9. Counted'
    BY <1>1, <1>3, <1>4, <1>5, <1>8 DEF Counted, StoredIsPrefix, Level
  <1>10. faults \in Nat /\ faults <= MaxFaults /\ try \in Nat /\ chunk \in Nat /\ naks \in Nat
    BY CountTypes DEF PrefixInv
  <1>11. /\ faults' <= MaxFaults /\ faults' >= faults /\ faults' \in Nat
         /\ rxq' = <<"ACK">> \/ (rxq' \in {<<>>, <<"junk">>} /\ faults' = faults + 1)
    BY <1>1, <1>3, <1>10, SaidFirst
  <1>12. (Spoiled' /\ faults' > try) \/ (Unspoiled' /\ faults' >= try)
    <2>1. chunk' = chunk
      BY <1>1 DEF download
    <2>. QED  BY <1>3, <1>8, <1>10, <1>11, <2>1 DEF Spoiled, Unspoiled
  <1>. QED  BY <1>1, <1>3, <1>8, <1>9, <1>10, <1>11, <1>12, Replying DEF Receiving

(* A block heard again is one the host has.                                 *)
LEMMA RepeatsLast ==
    ASSUME IInv, PrefixInv, HostRepeats
    PROVE  PrefixInv'
  <1>1. Heard /\ Sound(Head(toHost)) /\ Head(toHost).bn = hbn /\ Say("ACK")
        /\ UNCHANGED <<main, download, shared, hpc, hbn, hdata, naks>>
    BY DEF HostRepeats
  <1>2. Head(toHost).t \notin {"CAN", "EOT"} /\ Head(toHost).flaw = "none"
    BY <1>1 DEF Sound
  <1>3. /\ Live /\ dpc = "reply" /\ rxq = <<>> /\ toHost' = <<>> /\ faults >= try
        /\ Head(toHost) = Block(bn, chunk, "none")
    BY <1>1, <1>2, Hears, CountTypes DEF Block
  <1>4. Head(toHost).bn = bn
    BY <1>3 DEF Block
  <1>5. Level /\ Counted
    BY <1>3 DEF PrefixInv
  <1>6. Len(hdata) = chunk
    <2>1. SUFFICES ASSUME Len(hdata) = chunk - 1 PROVE FALSE
      BY <1>3, <1>5 DEF Level
    <2>2. Len(hdata) \in Nat /\ hbn = Len(hdata) % BNMod /\ bn = (Len(hdata) + 1) % BNMod
      BY <1>3, <1>5, <2>1, CountTypes DEF Level, Counted
    <2>3. bn = NextBN(hbn)
      BY <2>2, NextNumber
    <2>. QED  BY <1>1, <1>4, <2>3, NextBNFacts, CountTypes
  <1>7. faults \in Nat /\ faults <= MaxFaults /\ try \in Nat /\ chunk \in Nat /\ naks \in Nat
    BY CountTypes DEF PrefixInv
  <1>8. /\ faults' <= MaxFaults /\ faults' >= faults /\ faults' \in Nat
        /\ rxq' = <<"ACK">> \/ (rxq' \in {<<>>, <<"junk">>} /\ faults' = faults + 1)
    BY <1>1, <1>3, <1>7, SaidFirst
  <1>9. (Spoiled' /\ faults' > try) \/ (Unspoiled' /\ faults' >= try)
    <2>1. chunk' = chunk
      BY <1>1 DEF download
    <2>. QED  BY <1>1, <1>3, <1>6, <1>7, <1>8, <2>1 DEF Spoiled, Unspoiled
  <1>10. Counted' /\ hpc' \in Receiving
    BY <1>1, <1>3, <1>5 DEF Counted, StoredIsPrefix, Live
  <1>. QED  BY <1>1, <1>3, <1>6, <1>7, <1>8, <1>9, <1>10, Replying

(* Everything else the host or the line does.                               *)
LEMMA TurnsHost ==
    ASSUME InTurn, IInv, PrefixInv, Host
    PROVE  PrefixInv'
<1>. USE DEF main, download, shared
<1>0. /\ faults <= MaxFaults /\ faults \in Nat /\ MaxFaults \in Nat /\ naks \in Nat /\ MaxNaks \in Nat
      /\ Acks /\ Ends /\ Counted /\ (Live => Turns /\ Level) /\ CommandInv /\ TypeOK /\ Handover
  BY CountTypes, FgetAssumption DEF PrefixInv, FgetAssumption, IInv
<1>1. CASE HostCommand
  <2>1. /\ pc = "idle" /\ dpc = "idle" /\ UNCHANGED <<main, download, shared, faults>>
        /\ toHost' = <<>> /\ rxq' = <<"CMD">> /\ hdata' = <<>> /\ hbn' = 0
    BY <1>0, <1>1 DEF HostCommand, Handover
  <2>2. CommandPending'
    BY <2>1, OnlyOne DEF CommandPending
  <2>3. Turns' /\ Level'
    BY <2>1 DEF Turns, Level, Whole
  <2>4. Acks' /\ Ends'
    BY <1>0, <2>1, <2>2, OnlyOne DEF Acks, Ends, Whole
  <2>5. Len(<<>>) = 0 /\ 0 % BNMod = 0
    OBVIOUS
  <2>6. Counted'
    BY <2>1, <2>5 DEF Counted, StoredIsPrefix
  <2>. QED  BY <1>0, <2>1, <2>3, <2>4, <2>6 DEF PrefixInv
<1>2. CASE HostAsks
  <2>1. /\ Say("NAK") /\ Live /\ UNCHANGED <<main, download, shared, toHost, hpc, hbn, hdata>>
        /\ naks < MaxNaks /\ naks' = naks + 1
    BY <1>2 DEF HostAsks, Live, Receiving
  <2>2. naks = 0 /\ naks' = 1 /\ pc \in {"idle", "waitReq"} /\ dpc = "idle" /\ Turns
    BY <1>0, <2>1, CountTypes DEF InTurn, Level
  <2>3. faults' <= MaxFaults /\ Acks' /\ (CommandPending => CommandPending')
    BY <2>1, Said
  <2>4. pc = "waitReq" => rxq' = <<>> \/ Len(rxq') = 1
    <3>1. pc = "waitReq" => rxq = <<>>
      BY <2>2 DEF Turns
    <3>. QED  BY <1>0, <2>1, <3>1, SaidFirst, OnlyOne
  <2>5. Turns' /\ Level'
    BY <2>1, <2>2, <2>4 DEF Turns, Level, Whole
  <2>6. Ends' /\ Counted'
    BY <1>0, <2>1, <2>3 DEF Ends, Whole, Counted, StoredIsPrefix
  <2>. QED  BY <2>3, <2>5, <2>6 DEF PrefixInv
<1>3. CASE HostStores
  BY <1>3, StoresNext
<1>4. CASE HostRepeats
  BY <1>4, RepeatsLast
<1>5. CASE HostRefuses
  <2>1. Heard /\ Head(toHost).t \in {"blk", "trunc"} /\ ~Sound(Head(toHost)) /\ Say("NAK")
        /\ UNCHANGED <<main, download, shared, hpc, hbn, hdata, naks>>
    BY <1>5 DEF HostRefuses
  <2>2. /\ Live /\ dpc = "reply" /\ rxq = <<>> /\ toHost' = <<>> /\ try \in Nat
        /\ \/ Head(toHost) = Block(bn, chunk, "none") /\ faults >= try
           \/ Head(toHost) = Block(bn, chunk, "data") /\ faults > try
    BY <2>1, Hears, CountTypes
  <2>3. faults > try
    BY <2>1, <2>2 DEF Block, Sound
  <2>4. faults' <= MaxFaults /\ faults' >= faults /\ faults' \in Nat /\ rxq' \in {<<>>, <<"NAK">>, <<"junk">>}
    BY <1>0, <2>1, <2>2, SaidFirst
  <2>5. Spoiled' /\ faults' > try
    BY <1>0, <2>2, <2>3, <2>4 DEF Spoiled
  <2>6. Counted' /\ hpc' \in Receiving /\ Len(hdata') \in {chunk - 1, chunk}
    BY <1>0, <2>1, <2>2 DEF Counted, StoredIsPrefix, Live, Level
  <2>. QED  BY <1>0, <2>1, <2>2, <2>4, <2>5, <2>6, Replying
<1>6. CASE HostOutOfStep
  <2>1. Heard /\ Sound(Head(toHost)) /\ Head(toHost).bn \notin {hbn, NextBN(hbn)}
    BY <1>6 DEF HostOutOfStep
  <2>2. Head(toHost).t \notin {"CAN", "EOT"}
    BY <2>1 DEF Sound
  <2>3. Live /\ dpc = "reply" /\ Head(toHost).bn = bn
    BY <2>1, <2>2, Hears DEF Block
  <2>4. Len(hdata) \in {chunk - 1, chunk} /\ bn = chunk % BNMod /\ hbn = Len(hdata) % BNMod
    BY <1>0, <2>3 DEF Level, Counted
  <2>5. bn = hbn \/ bn = NextBN(hbn)
    <3>1. CASE Len(hdata) = chunk
      BY <2>4, <3>1
    <3>2. CASE Len(hdata) = chunk - 1
      <4>1. Len(hdata) \in Nat /\ chunk = Len(hdata) + 1
        BY <3>2, CountTypes
      <4>2. NextBN(Len(hdata) % BNMod) = (Len(hdata) + 1) % BNMod
        BY <4>1, NextNumber
      <4>. QED  BY <2>4, <4>1, <4>2
    <3>. QED  BY <2>4, <3>1, <3>2
  <2>. QED  BY <2>1, <2>3, <2>5
<1>7. CASE HostEnds
  <2>1. Heard /\ Head(toHost).t = "EOT" /\ Say("ACK") /\ hpc' = "done"
        /\ UNCHANGED <<main, download, shared, hbn, hdata>>
    BY <1>7 DEF HostEnds
  <2>2. Live /\ pc = "eotReply" /\ rxq = <<>> /\ dpc = "idle"
    BY <2>1, Hears
  <2>3. chunk = NChunks + 1 /\ Len(hdata) = chunk - 1
    BY <1>0, <2>2 DEF Ends, Whole, Level
  <2>4. faults' <= MaxFaults /\ rxq' \in {<<>>, <<"ACK">>, <<"junk">>}
    BY <1>0, <2>1, <2>2, SaidFirst
  <2>5. Len(hdata') = NChunks /\ pc' = "eotReply"
    BY <2>1, <2>2, <2>3
  <2>6. Acks'
    BY <2>1, <2>4, <2>5, OnlyOne DEF Acks
  <2>7. ~CommandPending /\ hpc' \notin Receiving /\ hpc # "done"
    BY <2>1, <2>2 DEF CommandPending, Receiving, Live
  <2>. QED  BY <2>1, <2>4, <2>6, <2>7, NotLive
<1>8. CASE HostCanceled
  <2>1. Heard /\ hpc' = "aborted" /\ UNCHANGED <<main, download, shared, rxq, hbn, hdata, faults>>
    BY <1>8 DEF HostCanceled
  <2>2. Live /\ hpc # "done" /\ hpc' \notin Receiving /\ UNCHANGED CommandPending
    BY <2>1, Hears DEF Live, Receiving, CommandPending
  <2>3. Acks'
    BY <1>0, <2>1, <2>2 DEF Acks
  <2>. QED  BY <1>0, <2>1, <2>2, <2>3, NotLive
<1>9. CASE HostGivesUp
  <2>1. /\ Say("CAN") /\ hpc # "done" /\ hpc' \notin Receiving
        /\ UNCHANGED <<main, download, shared, toHost, hbn, hdata>>
    BY <1>9 DEF HostGivesUp, Receiving
  <2>2. faults' <= MaxFaults /\ Acks' /\ (CommandPending => CommandPending')
    BY <2>1, Said
  <2>. QED  BY <2>1, <2>2, NotLive
<1>10. CASE LineDrops
  <2>1. /\ toHost # <<>> /\ UNCHANGED <<main, download, shared, rxq, hpc, hbn, hdata, naks, Live, CommandPending>>
        /\ toHost \in Seq(Units(FrameData))
    BY <1>10, CountTypes DEF LineDrops, host, Live, CommandPending
  <2>2. faults' <= MaxFaults /\ faults' >= faults /\ faults' \in Nat
    BY <1>0, <1>10 DEF LineDrops, Fault
  <2>3. Acks' /\ Counted' /\ Ends'
    BY <1>0, <2>1 DEF Acks, Counted, StoredIsPrefix, Ends, Whole
  <2>4. CASE ~Live
    BY <2>1, <2>2, <2>3, <2>4 DEF PrefixInv
  <2>5. CASE Live
    <3>1. /\ faults' = faults + 1
          /\ \/ toHost' = Tail(toHost)
             \/ Head(toHost).t = "blk" /\ toHost' = [toHost EXCEPT ![1] = [@ EXCEPT !.flaw = "data"]]
      BY <1>10, <2>5 DEF LineDrops, Fault, Live
    <3>2. pc = "idle" => \A i \in DOMAIN toHost' : toHost'[i].t = "CAN"
      <4>1. CASE toHost' = Tail(toHost)
        BY <1>0, <2>1, <2>5, <4>1, TailFacts DEF Turns
      <4>2. CASE Head(toHost).t = "blk"
        BY <1>0, <2>1, <2>5, <4>2, TailFacts DEF Turns
      <4>. QED  BY <3>1, <4>1, <4>2
    <3>3. dpc = "reply" => Spoiled' /\ faults' > try
      <4>1. SUFFICES ASSUME dpc = "reply" PROVE Spoiled' /\ faults' > try
        OBVIOUS
      <4>2. /\ rxq = <<>> /\ faults >= try
            /\ toHost = <<Block(bn, chunk, "none")>> \/ toHost = <<Block(bn, chunk, "data")>>
        <5>1. (Spoiled /\ faults > try) \/ (Unspoiled /\ faults >= try)
          BY <1>0, <2>5, <4>1 DEF Turns
        <5>. QED  BY <1>0, <2>1, <5>1, CountTypes DEF Spoiled, Unspoiled
      <4>3. toHost' = <<>> \/ toHost' = <<Block(bn, chunk, "data")>>
        <5>1. ASSUME NEW flaw, toHost = <<Block(bn, chunk, flaw)>>
              PROVE  /\ Tail(toHost) = <<>>
                     /\ [toHost EXCEPT ![1] = [@ EXCEPT !.flaw = "data"]] = <<Block(bn, chunk, "data")>>
          BY <5>1, OnlyOne, HitBlock
        <5>. QED  BY <3>1, <4>2, <5>1
      <4>. QED  BY <1>0, <2>1, <3>1, <4>2, <4>3, CountTypes DEF Spoiled
    <3>4. pc = "eotReply" => rxq' = <<>> /\ toHost' = <<>>
      BY <1>0, <2>1, <2>5, <3>1, OnlyOne DEF Turns, Ctrl
    <3>5. pc \notin {"url", "eot"} /\ (pc = "wait" => dpc = "reply") /\ dpc # "send"
      BY <1>0, <2>1, <2>5 DEF Turns, Still, Handover
    <3>6. Turns' /\ Level'
      BY <1>0, <2>1, <2>5, <3>2, <3>3, <3>4, <3>5 DEF Turns, Level, Whole
    <3>. QED  BY <2>2, <2>3, <3>6 DEF PrefixInv
  <2>. QED  BY <2>4, <2>5
<1>. QED
  BY <1>1, <1>2, <1>3, <1>4, <1>5, <1>6, <1>7, <1>8, <1>9, <1>10 DEF Host

(* It holds initially.                                                      *)
LEMMA PrefixInit == Init => PrefixInv
  <1>. SUFFICES ASSUME Init PROVE PrefixInv
    OBVIOUS
  <1>1. Len(<<>>) = 0 /\ 0 % BNMod = 0 /\ MaxFaults \in Nat
    BY FgetAssumption DEF FgetAssumption
  <1>2. ~Live /\ Acks /\ Ends
    BY DEF Init, Live, Receiving, Acks, Ends, Whole
  <1>. QED  BY <1>1, <1>2 DEF Init, PrefixInv, Counted, StoredIsPrefix

(* Every step keeps it, if host and line are in turn with the device.       *)
LEMMA PrefixStep == InTurn /\ IInv /\ PrefixInv /\ [Next]_vars => PrefixInv'
  <1>. SUFFICES ASSUME InTurn, IInv, PrefixInv, [Next]_vars PROVE PrefixInv'
    OBVIOUS
  <1>1. CASE UNCHANGED vars
    <2>1. UNCHANGED <<Live, CommandPending, Whole>>
      BY <1>1 DEF vars, main, download, shared, line, host, Live, CommandPending, Whole
    <2>2. UNCHANGED <<Turns, Level>>
      BY <1>1, <2>1 DEF vars, main, download, shared, line, host, Turns, Level, Still, Spoiled, Unspoiled
    <2>3. Acks' /\ Ends' /\ Counted' /\ faults' = faults
      BY <1>1, <2>1 DEF vars, main, download, shared, line, host, PrefixInv, Acks, Ends, Counted, StoredIsPrefix
    <2>. QED  BY <2>1, <2>2, <2>3 DEF PrefixInv
  <1>. QED  BY <1>1, TurnsMain, TurnsDownload, TurnsHost DEF Next

(* The invariant of the turns: as long as the host receives, every failed   *)
(* try of cmdFgetCb has cost a fault, so no block runs out of tries.        *)
THEOREM TurnsCorrect ==
    ASSUME InTurn
    PROVE  Spec => []PrefixInv
  BY PrefixInit, PrefixStep, InvariantCorrect, PTL DEF Spec

(* What the host has stored is the beginning of the file without a gap, if  *)
(* the host only answers, in time, and the line spoils fewer units than a   *)
(* block has tries (FPUT_BLOCK_SEND_RETRY).                                 *)
THEOREM PrefixCorrect ==
    ASSUME InTurn
    PROVE  Spec => []StoredIsPrefix
  <1>1. PrefixInv => StoredIsPrefix
    BY DEF PrefixInv, Counted
  <1>. QED  BY <1>1, TurnsCorrect, PTL

(* Under the same conditions OK from $$FGET means that the host has the     *)
(* whole file: the ACK taken for that of the EOT is that of the EOT.        *)
THEOREM DeliveredCorrect ==
    ASSUME InTurn
    PROVE  Spec => []OkMeansDelivered
  <1>1. IInv /\ PrefixInv => OkMeansDelivered
    <2>. SUFFICES ASSUME IInv, PrefixInv, result = "OK", ~CommandPending
                  PROVE  hdata = [i \in 1 .. NChunks |-> i]
      BY DEF OkMeansDelivered
    <2>1. Len(hdata) = NChunks /\ \A i \in DOMAIN hdata : hdata[i] = i
      BY DEF PrefixInv, Ends, Counted, StoredIsPrefix
    <2>2. hdata \in Seq(1 .. NChunks)
      BY CountTypes
    <2>3. hdata = [i \in 1 .. Len(hdata) |-> hdata[i]]
      BY <2>2
    <2>. QED  BY <2>1, <2>2, <2>3
  <1>. QED  BY <1>1, TurnsCorrect, InvariantCorrect, PTL

=============================================================================
