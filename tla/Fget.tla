-------------------------------- MODULE Fget --------------------------------
(***************************************************************************)
(* The $$FGET command: the device downloads a file and sends it to the host *)
(* block by block over the serial line.  Two threads take part: main() runs *)
(* the command and waits on sem_dl_finish, the thread of the download       *)
(* client runs cmdFgetCb for every fragment and drives the serial line      *)
(* meanwhile.                                                               *)
(*                                                                          *)
(*   main      cmdAsciiCmdFget (src/src/cmd_ascii.c), SipfFileDownload      *)
(*             (lib/sipf/src/sipf_file.c)                                   *)
(*   download  download_client_callback and cmdFgetCb; the download client  *)
(*             that calls them is external                                  *)
(*   host      an XMODEM receiver; external                                 *)
(***************************************************************************)
EXTENDS Xmodem

CONSTANTS
    NChunks,        \* blocks of the file
    FragLen,        \* blocks of a fragment: frag_size_override, 8 in the code
    SendTries,      \* FPUT_BLOCK_SEND_RETRY: 3 in the code
    ReqTries,       \* iterations of XmodemSendWaitRequest: 10 in the code
    RxCap,          \* bytes the receive queue holds
    SlowHost,       \* the host may take longer than the device waits
    TxFault,        \* the transmit queue may stay full for 10 ms
    MaxFaults,      \* bound: faults of the serial line and of its queues
    MaxNaks,        \* bound: NAK the host sends on its own timer, per command
    MaxSessions     \* bound: $$FGET commands the host issues

ASSUME FgetAssumption ==
    /\ NChunks \in Nat \ {0} /\ FragLen \in Nat \ {0}
    /\ SendTries \in Nat \ {0} /\ ReqTries \in Nat \ {0}
    /\ RxCap \in Nat \ {0}
    /\ SlowHost \in BOOLEAN /\ TxFault \in BOOLEAN
    /\ MaxFaults \in Nat /\ MaxNaks \in Nat /\ MaxSessions \in Nat

VARIABLES
    (* main *)
    pc, req, echo, result,
    (* download thread *)
    dpc,        \* where the callback is
    bn,         \* fget_bn
    chunk,      \* the block of the file the callback is sending
    frag,       \* blocks left of the fragment
    try,        \* i of the retry loop
    (* shared by the two threads *)
    sem,        \* sem_dl_finish, at most 1
    cbErr,      \* dl_cb_err
    (* serial line *)
    rxq,        \* host to device, control bytes
    toHost,     \* device to host, units
    (* host *)
    hpc, hbn, hdata, naks,
    faults, session

main == <<pc, req, echo, result>>
download == <<dpc, bn, chunk, frag, try>>
shared == <<sem, cbErr>>
line == <<rxq, toHost>>
host == <<hpc, hbn, hdata, naks, session>>
vars == <<main, download, shared, line, host, faults>>

FrameData == 0 .. NChunks
Replies == Control \cup {"junk"}   \* a reply the line made unreadable is junk

TypeOK ==
    /\ pc \in {"idle", "waitReq", "url", "wait", "eot", "eotReply"}
    /\ req \in 0 .. ReqTries
    /\ echo \in BOOLEAN
    /\ result \in {"idle", "busy", "OK", "NG"}
    /\ dpc \in {"idle", "fetch", "send", "reply"}
    /\ bn \in 0 .. BNMod - 1
    /\ chunk \in 1 .. NChunks + 1
    /\ frag \in 0 .. FragLen
    /\ try \in 0 .. SendTries - 1
    /\ sem \in 0 .. 1 /\ cbErr \in {0, -1, -2}
    /\ rxq \in Seq(Replies \cup {"CMD"}) /\ Len(rxq) <= RxCap
    /\ toHost \in Seq(Units(FrameData))
    /\ hpc \in {"idle", "start", "recv", "done", "aborted"}
    /\ hbn \in 0 .. BNMod - 1
    /\ hdata \in Seq(1 .. NChunks)
    /\ naks \in Nat /\ faults \in Nat /\ session \in Nat

Init ==
    /\ pc = "idle" /\ req = 0 /\ echo = TRUE /\ result = "idle"
    /\ dpc = "idle" /\ bn = 0 /\ chunk = 1 /\ frag = 0 /\ try = 0
    /\ sem = 0 /\ cbErr = 0
    /\ rxq = <<>> /\ toHost = <<>>
    /\ hpc = "idle" /\ hbn = 0 /\ hdata = <<>> /\ naks = 0
    /\ faults = 0 /\ session = 0

----------------------------------------------------------------------------
(* Serial line, seen from the device.                                       *)

Fault == faults < MaxFaults /\ faults' = faults + 1

Queued(unit) == toHost' = Append(toHost, unit) /\ UNCHANGED faults
NotQueued == TxFault /\ Fault /\ UNCHANGED toHost

(* XmodemTransmitCancel: the first CAN ends the transfer for the host.      *)
TransmitCancel == Queued(Ctrl("CAN")) \/ NotQueued

(* UartBrokerGetByteTm.                                                     *)
Got(byte) == rxq # <<>> /\ Head(rxq) = byte /\ rxq' = Tail(rxq)

Replied(ret) == \E byte \in Replies : Got(byte) /\ SendBlockRet(byte) = ret

(* A host that is not slow answers what it has got before the device gives  *)
(* up waiting, so only a lost reply runs into the timeout.                  *)
TimedOut == rxq = <<>> /\ (SlowHost \/ toHost = <<>>) /\ UNCHANGED rxq

(* The path to the label fget_end.                                          *)
Answer(res) == pc' = "idle" /\ result' = res /\ echo' = TRUE

(* Cancel the transfer and answer NG.                                       *)
Refuse == TransmitCancel /\ Answer("NG")

----------------------------------------------------------------------------
(* main                                                                     *)

FgetStart ==
    /\ pc = "idle"
    /\ rxq # <<>> /\ Head(rxq) = "CMD"
    /\ rxq' = <<>>                       \* XmodemBegin purges what follows
    /\ echo' = FALSE
    /\ pc' = "waitReq" /\ req' = 0 /\ result' = "busy"
    /\ UNCHANGED <<download, shared, toHost, host, faults>>

ParseStray ==
    /\ pc = "idle"
    /\ rxq # <<>> /\ Head(rxq) # "CMD"
    /\ rxq' = Tail(rxq)
    /\ UNCHANGED <<main, download, shared, toHost, host, faults>>

(* XmodemSendWaitRequest.                                                   *)
Requested ==
    /\ pc = "waitReq"
    /\ Got("NAK")
    /\ pc' = "url"
    /\ bn' = 1 /\ chunk' = 1
    /\ UNCHANGED <<req, echo, result, dpc, frag, try, shared, toHost, host, faults>>

RequestCanceled ==
    /\ pc = "waitReq"
    /\ Got("CAN")
    /\ Refuse
    /\ UNCHANGED <<req, download, shared, host>>

(* Another byte, or a tenth of the time gone without any.                   *)
NotRequested ==
    /\ pc = "waitReq"
    /\ Got("ACK") \/ Got("junk") \/ (rxq = <<>> /\ UNCHANGED rxq)
    /\ req' = req + 1
    /\ IF req' < ReqTries
       THEN UNCHANGED <<pc, echo, result, toHost, faults>>
       ELSE Refuse
    /\ UNCHANGED <<download, shared, host>>

(* SipfFileDownload up to the start of the download.                        *)
DownloadRefused ==
    /\ pc = "url"
    /\ Refuse
    /\ UNCHANGED <<req, download, shared, rxq, host>>

DownloadStarts ==
    /\ pc = "url"
    /\ pc' = "wait"
    /\ dpc' = "fetch"
    /\ UNCHANGED <<req, echo, result, bn, chunk, frag, try, shared, line, host, faults>>

(* Mutant: dl_cb_err is not looked at.                                      *)
DownloadEndsUnchecked ==
    /\ pc = "wait"
    /\ sem = 1 /\ sem' = 0
    /\ pc' = "eot"
    /\ UNCHANGED <<req, echo, result, download, cbErr, line, host, faults>>

(* k_sem_take, then the error of the callback.                              *)
DownloadEnds ==
    /\ pc = "wait"
    /\ sem = 1 /\ sem' = 0
    /\ IF cbErr = 0
       THEN pc' = "eot" /\ UNCHANGED <<echo, result, toHost, faults>>
       ELSE Refuse
    /\ UNCHANGED <<req, download, cbErr, rxq, host>>

(* XmodemSendEnd: one EOT, one reply.  An EOT that cannot be queued is a    *)
(* failure of it; the CAN after it finds room in the queue again or not.    *)
EndSent ==
    /\ pc = "eot"
    /\ \/ Queued(Ctrl("EOT")) /\ pc' = "eotReply" /\ UNCHANGED <<echo, result>>
       \/ /\ TxFault /\ Fault /\ toHost' \in {toHost, Append(toHost, Ctrl("CAN"))}
          /\ Answer("NG")
    /\ UNCHANGED <<req, download, shared, rxq, host>>

EndAcked ==
    /\ pc = "eotReply"
    /\ \E byte \in Replies : Got(byte) /\ SendEndRet(byte) = "OK"
    /\ Answer("OK")
    /\ UNCHANGED <<req, download, shared, toHost, host, faults>>

EndRefused ==
    /\ pc = "eotReply"
    /\ \/ \E byte \in Replies : Got(byte) /\ SendEndRet(byte) = "FAILED"
       \/ TimedOut
    /\ Refuse
    /\ UNCHANGED <<req, download, shared, host>>

Main ==
    \/ FgetStart \/ ParseStray \/ Requested \/ RequestCanceled \/ NotRequested
    \/ DownloadRefused \/ DownloadStarts \/ DownloadEnds
    \/ EndSent \/ EndAcked \/ EndRefused

----------------------------------------------------------------------------
(* The thread of the download client: its events, and the callback.         *)

Left == NChunks + 1 - chunk   \* blocks not yet given to the callback

(* download_client_callback gives the semaphore and lets the client stop.   *)
Finish(err) == cbErr' = err /\ sem' = 1 /\ dpc' = "idle"

Fragment ==
    /\ dpc = "fetch" /\ Left > 0
    /\ frag' = IF Left < FragLen THEN Left ELSE FragLen
    /\ try' = 0
    /\ dpc' = "send"
    /\ UNCHANGED <<main, bn, chunk, shared, line, host, faults>>

Done ==
    /\ dpc = "fetch" /\ Left = 0
    /\ Finish(0)
    /\ UNCHANGED <<main, bn, chunk, frag, try, line, host, faults>>

(* Mutant: the error event does not give the semaphore.                     *)
ErrorUnsignalled ==
    /\ dpc = "fetch"
    /\ cbErr' = -1 /\ dpc' = "idle"
    /\ UNCHANGED <<main, bn, chunk, frag, try, sem, line, host, faults>>

Error ==
    /\ dpc = "fetch"
    /\ Finish(-1)
    /\ UNCHANGED <<main, bn, chunk, frag, try, line, host, faults>>

(* XmodemSendBlock: a block that is only partly queued counts as sent.      *)
BlockSent ==
    /\ dpc = "send"
    /\ \/ Queued(Block(bn, chunk, "none"))
       \/ TxFault /\ Fault /\ toHost' \in {toHost, Append(toHost, Ctrl("trunc"))}
    /\ dpc' = "reply"
    /\ UNCHANGED <<main, bn, chunk, frag, try, shared, rxq, host>>

(* To the next block of the fragment, or back to the download client.       *)
NextOfFragment ==
    /\ chunk' = chunk + 1
    /\ frag' = frag - 1
    /\ try' = 0
    /\ dpc' = IF frag' = 0 THEN "fetch" ELSE "send"

BlockAcked ==
    /\ dpc = "reply"
    /\ Replied("OK")
    /\ bn' = NextBN(bn)
    /\ NextOfFragment
    /\ UNCHANGED <<main, shared, toHost, host, faults>>

(* Mutant: one try less.                                                    *)
BlockAgainOneLess ==
    /\ dpc = "reply"
    /\ Replied("RETRY") \/ TimedOut
    /\ IF try + 2 < SendTries
       THEN try' = try + 1 /\ dpc' = "send" /\ UNCHANGED <<chunk, frag>>
       ELSE NextOfFragment
    /\ UNCHANGED <<main, bn, shared, toHost, host, faults>>

(* Mutant: the number moves on with every try.                              *)
BlockAgainRenumbered ==
    /\ dpc = "reply"
    /\ Replied("RETRY") \/ TimedOut
    /\ bn' = NextBN(bn)
    /\ IF try + 1 < SendTries
       THEN try' = try + 1 /\ dpc' = "send" /\ UNCHANGED <<chunk, frag>>
       ELSE NextOfFragment
    /\ UNCHANGED <<main, shared, toHost, host, faults>>

(* After the last try the loop over the tries simply ends, and the block    *)
(* with it: the next one is sent under the same number.                     *)
BlockAgain ==
    /\ dpc = "reply"
    /\ Replied("RETRY") \/ TimedOut
    /\ IF try + 1 < SendTries
       THEN try' = try + 1 /\ dpc' = "send" /\ UNCHANGED <<chunk, frag>>
       ELSE NextOfFragment
    /\ UNCHANGED <<main, bn, shared, toHost, host, faults>>

(* Mutant: the callback gives the semaphore and goes on with the block.     *)
BlockCanceledGoesOn ==
    /\ dpc = "reply"
    /\ Replied("CANCELED")
    /\ cbErr' = -2 /\ sem' = 1
    /\ UNCHANGED <<main, download, toHost, host, faults>>

BlockCanceled ==
    /\ dpc = "reply"
    /\ Replied("CANCELED")
    /\ Finish(-2)
    /\ UNCHANGED <<main, bn, chunk, frag, try, toHost, host, faults>>

BlockFailed ==
    /\ dpc = "reply"
    /\ Replied("FAILED")
    /\ Finish(-1)
    /\ UNCHANGED <<main, bn, chunk, frag, try, toHost, host, faults>>

Download ==
    \/ Fragment \/ Done \/ Error
    \/ BlockSent \/ BlockAcked \/ BlockAgain \/ BlockCanceled \/ BlockFailed

----------------------------------------------------------------------------
(* The host, an XMODEM receiver, and the line that carries its replies.     *)

Arrive(byte) == rxq' = IF Len(rxq) < RxCap THEN Append(rxq, byte) ELSE rxq

Say(byte) ==
    \/ Arrive(byte) /\ UNCHANGED faults
    \/ Fault /\ (UNCHANGED rxq \/ Arrive("junk"))

HostCommand ==
    /\ hpc \in {"idle", "done", "aborted"}
    /\ pc = "idle" /\ rxq = <<>>
    /\ session < MaxSessions
    /\ session' = session + 1
    /\ hpc' = "start" /\ hbn' = 0 /\ hdata' = <<>> /\ naks' = 0
    /\ toHost' = <<>>
    /\ rxq' = <<"CMD">>
    /\ UNCHANGED <<main, download, shared, faults>>

Receiving == {"start", "recv"}

(* The NAK of the host's timer: asks for the first block, and later for one *)
(* that does not come.                                                      *)
HostAsks ==
    /\ hpc = "start" \/ (hpc = "recv" /\ toHost = <<>>)
    /\ naks < MaxNaks
    /\ naks' = naks + 1
    /\ Say("NAK")
    /\ UNCHANGED <<main, download, shared, toHost, hpc, hbn, hdata, session>>

Heard == toHost # <<>> /\ hpc \in Receiving /\ toHost' = Tail(toHost)
Sound(unit) == unit.t = "blk" /\ unit.flaw = "none"

HostStores ==
    /\ Heard /\ Sound(Head(toHost)) /\ Head(toHost).bn = NextBN(hbn)
    /\ hpc' = "recv" /\ hbn' = Head(toHost).bn
    /\ hdata' = Append(hdata, Head(toHost).data)
    /\ Say("ACK")
    /\ UNCHANGED <<main, download, shared, naks, session>>

HostRepeats ==
    /\ Heard /\ Sound(Head(toHost)) /\ Head(toHost).bn = hbn
    /\ Say("ACK")
    /\ UNCHANGED <<main, download, shared, hpc, hbn, hdata, naks, session>>

HostRefuses ==
    /\ Heard /\ Head(toHost).t \in {"blk", "trunc"} /\ ~Sound(Head(toHost))
    /\ Say("NAK")
    /\ UNCHANGED <<main, download, shared, hpc, hbn, hdata, naks, session>>

HostOutOfStep ==
    /\ Heard /\ Sound(Head(toHost)) /\ Head(toHost).bn \notin {hbn, NextBN(hbn)}
    /\ hpc' = "aborted"
    /\ Say("CAN")
    /\ UNCHANGED <<main, download, shared, hbn, hdata, naks, session>>

HostEnds ==
    /\ Heard /\ Head(toHost).t = "EOT"
    /\ hpc' = "done"
    /\ Say("ACK")
    /\ UNCHANGED <<main, download, shared, hbn, hdata, naks, session>>

HostCanceled ==
    /\ Heard /\ Head(toHost).t = "CAN"
    /\ hpc' = "aborted"
    /\ UNCHANGED <<main, download, shared, rxq, hbn, hdata, naks, session, faults>>

HostGivesUp ==
    /\ hpc \in Receiving
    /\ hpc' = "aborted"
    /\ Say("CAN")
    /\ UNCHANGED <<main, download, shared, toHost, hbn, hdata, naks, session>>

(* What still arrives when the host no longer listens, or a unit the line   *)
(* loses or damages.                                                        *)
LineDrops ==
    /\ toHost # <<>>
    /\ \/ hpc \notin Receiving /\ toHost' = Tail(toHost) /\ UNCHANGED faults
       \/ hpc \in Receiving /\ Fault /\ toHost' = Tail(toHost)
       \/ Head(toHost).t = "blk" /\ Fault /\ toHost' = [toHost EXCEPT ![1] = [@ EXCEPT !.flaw = "data"]]
    /\ UNCHANGED <<main, download, shared, rxq, host>>

Host ==
    \/ HostCommand \/ HostAsks \/ HostStores \/ HostRepeats \/ HostRefuses
    \/ HostOutOfStep \/ HostEnds \/ HostCanceled \/ HostGivesUp \/ LineDrops

Next == Main \/ Download \/ Host

Spec == Init /\ [][Next]_vars

(* Both threads keep running; the download client ends every wait for the   *)
(* server with an event.                                                    *)
FairSpec == Spec /\ WF_vars(Main) /\ WF_vars(Download)

----------------------------------------------------------------------------
(* Properties.                                                              *)

(* A block never goes to the host twice, nor before an earlier one: fget_bn *)
(* moves on with the block and only on an ACK (cmdFgetCb).                  *)
StoredInOrder ==
    \A i, j \in DOMAIN hdata : i < j => hdata[i] < hdata[j]

(* What the host has stored is the beginning of the file, without a gap,    *)
(* as long as the line spoils fewer than SendTries units and the host sends *)
(* no NAK of its own but the one that asks for the first block: then no     *)
(* block runs out of tries in cmdFgetCb.                                    *)
StoredIsPrefix == \A i \in DOMAIN hdata : hdata[i] = i

(* OK from $$FGET means the host has the whole file, until it asks for the  *)
(* next one; under the same condition as StoredIsPrefix.                    *)
CommandPending == rxq # <<>> /\ Head(rxq) = "CMD"

OkMeansDelivered ==
    result = "OK" /\ ~CommandPending => hdata = [i \in 1 .. NChunks |-> i]

(* Between commands the echo is on again and nobody drives the line or      *)
(* holds the semaphore: the next download waits for its own end.            *)
CleanBetween == pc = "idle" => echo /\ dpc = "idle" /\ sem = 0

(* The command always comes back, although k_sem_take waits for ever.       *)
FgetTerminates == pc # "idle" ~> pc = "idle"

(* The inductive invariant behind CleanBetween and StoredInOrder.           *)

(* The download runs only while main() waits for it, and its end is the     *)
(* semaphore.                                                               *)
Handover ==
    /\ dpc # "idle" => pc = "wait"
    /\ sem = 1 => pc = "wait" /\ dpc = "idle"
    /\ pc = "wait" => dpc # "idle" \/ sem = 1
    /\ pc = "idle" => echo

Counters ==
    /\ pc = "waitReq" => req < ReqTries
    /\ dpc \in {"send", "reply"} => frag >= 1 /\ chunk + frag <= NChunks + 1

(* A command on its way is first in the queue, and nothing of an earlier    *)
(* one is left on the line or with the host until the first block goes out. *)
CommandInv ==
    /\ \A i \in DOMAIN rxq : rxq[i] = "CMD" => i = 1 /\ pc = "idle"
    /\ CommandPending \/ pc \in {"waitReq", "url"} => toHost = <<>> /\ hdata = <<>>

(* Blocks on the line q are in order; one position of the file has one      *)
(* number; none is newer than block c, numbered b, or older than the last   *)
(* of those in h, numbered hb.                                              *)
Numbered(q, c, b, h, hb) ==
    \A i \in DOMAIN q : q[i].t = "blk" =>
        /\ 1 <= q[i].data /\ q[i].data <= c
        /\ q[i].data = c => q[i].bn = b
        /\ \A j \in DOMAIN q : q[j].t = "blk" /\ i < j =>
              /\ q[i].data <= q[j].data
              /\ q[i].data = q[j].data => q[i].bn = q[j].bn
        /\ \A k \in DOMAIN h :
              /\ h[k] <= q[i].data
              /\ h[k] = q[i].data => hb = q[i].bn

StoredUpTo(c, b, h, hb) ==
    \A k \in DOMAIN h : h[k] <= c /\ (h[k] = c => hb = b)

LineInv ==
    /\ Numbered(toHost, chunk, bn, hdata, hbn)
    /\ StoredUpTo(chunk, bn, hdata, hbn)

IInv ==
    /\ TypeOK
    /\ Handover
    /\ Counters
    /\ CommandInv
    /\ LineInv
    /\ StoredInOrder
=============================================================================
