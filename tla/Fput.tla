-------------------------------- MODULE Fput --------------------------------
(***************************************************************************)
(* The $$FPUT command: the host sends a file block by block over the serial *)
(* line, the device passes each block on to the server inside an HTTP PUT,  *)
(* then reports the upload as complete.  The command runs in the thread of  *)
(* main(); the interrupt handler that fills the receive queue, the serial   *)
(* line, the host and the server all move while it does.                    *)
(*                                                                          *)
(*   device   cmdAsciiCmdFput and cmdFputSendCb (src/src/cmd_ascii.c),      *)
(*            SipfFileUpload and the requests under it (lib/sipf/src)       *)
(*   host     an XMODEM sender; external                                    *)
(*   server   answers, refuses, breaks or says nothing; external            *)
(***************************************************************************)
EXTENDS Xmodem

CONSTANTS
    NBlocks,        \* blocks of the file the host sends
    BlockLen,       \* XMODEM_SZ_BLOCK: 128 in the code
    Size,           \* the file size given with the command
    RetryFirst,     \* 10 in the code: cnt_retry++ < 10
    RetryCb,        \* 10 in the code: cnt_retry++ > 10
    RxCap,          \* whole units the receive queue holds
    SilentServer,   \* a request may end without response data and without error
    ShortSend,      \* send() may take only a part of a block
    TxFault,        \* the transmit queue may stay full for 10 ms
    MaxFaults,      \* bound: faults of the serial line and of its queues
    MaxSessions,    \* bound: $$FPUT commands the host issues
    MaxHostTries    \* bound: times the host sends one unit

ASSUME FputAssumption ==
    /\ NBlocks \in Nat \ {0}
    /\ BlockLen \in Nat \ {0}
    /\ Size \in (NBlocks - 1) * BlockLen + 1 .. NBlocks * BlockLen
    /\ RetryFirst \in Nat /\ RetryCb \in Nat
    /\ RxCap \in Nat \ {0}
    /\ SilentServer \in BOOLEAN /\ ShortSend \in BOOLEAN /\ TxFault \in BOOLEAN
    /\ MaxFaults \in Nat /\ MaxSessions \in Nat /\ MaxHostTries \in Nat

VARIABLES
    (* device *)
    pc,         \* where the command is
    bn,         \* number of the last block taken
    retry,      \* cnt_retry
    blk,        \* xmodem_block: the block in the buffer, 0 when it is garbage
    echo,       \* is_echo
    total,      \* total_sent
    sockOpen,   \* the upload socket is open
    upStatus,   \* http_res of sipfFileCallbackUploadRequest, never cleared
    cmpStatus,  \* http_res of SipfFileUploadComplete, never cleared
    result,     \* what the command answered
    (* serial line *)
    rxq,        \* host to device
    toHost,     \* device to host, control bytes only
    (* server *)
    upload,     \* what send() took, in order
    stored,     \* the server acknowledged the completed upload
    (* host *)
    hpc, hidx, tries,
    faults, session

device == <<pc, bn, retry, blk, echo, total, sockOpen, upStatus, cmpStatus, result>>
server == <<upload, stored>>
host == <<hpc, hidx, tries, session>>
vars == <<device, rxq, toHost, server, host, faults>>

FrameData == 0 .. NBlocks
Statuses == {"", "OK", "ERR"}
Verdicts == {"idle", "busy", "OK", "NG", "silent"}

TypeOK ==
    /\ pc \in {"idle", "first", "url", "chunk", "recv", "respond", "complete"}
    /\ bn \in 0 .. BNMod - 1
    /\ retry \in Nat
    /\ blk \in FrameData
    /\ echo \in BOOLEAN
    /\ total \in Nat
    /\ sockOpen \in BOOLEAN
    /\ upStatus \in Statuses /\ cmpStatus \in Statuses
    /\ result \in Verdicts
    /\ rxq \in Seq(Units(FrameData))
    /\ toHost \in Seq(Control)
    /\ upload \in Seq([data : FrameData, len : 0 .. BlockLen])
    /\ stored \in BOOLEAN
    /\ hpc \in {"idle", "waitNak", "waitAck", "waitEot", "done", "aborted"}
    /\ hidx \in 1 .. NBlocks
    /\ tries \in Nat /\ faults \in Nat /\ session \in Nat

Init ==
    /\ pc = "idle" /\ bn = 0 /\ retry = 0 /\ blk = 0
    /\ echo = TRUE
    /\ total = 0 /\ sockOpen = FALSE
    /\ upStatus = "" /\ cmpStatus = ""
    /\ result = "idle"
    /\ rxq = <<>> /\ toHost = <<>>
    /\ upload = <<>> /\ stored = FALSE
    /\ hpc = "idle" /\ hidx = 1 /\ tries = 0
    /\ faults = 0 /\ session = 0

----------------------------------------------------------------------------
(* Serial line, seen from the device.                                       *)

Fault == faults < MaxFaults /\ faults' = faults + 1

(* UartBrokerPutByte: the byte is queued, or lost when the queue stays full. *)
Reply(byte) ==
    \/ toHost' = Append(toHost, byte) /\ UNCHANGED faults
    \/ TxFault /\ Fault /\ UNCHANGED toHost

Queued(byte) == toHost' = Append(toHost, byte) /\ UNCHANGED faults
NotQueued == TxFault /\ Fault /\ UNCHANGED toHost

(* XmodemTransmitCancel: two CAN, none after the first that is not queued.  *)
TransmitCancel ==
    \/ toHost' = Append(Append(toHost, "CAN"), "CAN") /\ UNCHANGED faults
    \/ TxFault /\ Fault /\ toHost' \in {toHost, Append(toHost, "CAN")}

(* XmodemReceiveBlock up to its result ret; the ACK it sends for an EOT is  *)
(* left to the actions below, which know whether it could be queued.        *)
ReceiveTimeout(ret) ==
    rxq = <<>> /\ ret = "RETRY" /\ UNCHANGED <<rxq, blk>>

ReceiveUnit(ret) ==
    /\ rxq # <<>>
    /\ ret \in ReceiveRets(Head(rxq), bn)
    /\ blk' = IF Head(rxq).t = "blk" \/ ret = "EAGAIN" THEN Head(rxq).data ELSE blk
    /\ \/ rxq' = Tail(rxq)
       \/ Head(rxq).t = "junk" /\ UNCHANGED rxq

XmodemReceiveBlock(ret) == ReceiveTimeout(ret) \/ ReceiveUnit(ret)

----------------------------------------------------------------------------
(* End of the command.  Every path but one restores the echo.               *)

XmodemEnd == echo' = TRUE

(* Mutant: XmodemEnd is forgotten on the way out.                           *)
AnswerKeepingEcho(res) ==
    /\ pc' = "idle"
    /\ result' = res
    /\ UNCHANGED echo

Answer(res) ==
    /\ pc' = "idle"
    /\ result' = res
    /\ XmodemEnd

----------------------------------------------------------------------------
(* cmdAsciiCmdFput up to the first block.                                   *)

FputStart ==
    /\ pc = "idle"
    /\ rxq # <<>> /\ Head(rxq).t = "CMD"
    /\ rxq' = <<>>                       \* XmodemBegin purges what follows
    /\ echo' = FALSE
    /\ bn' = 0 /\ retry' = 0 /\ total' = 0
    /\ upload' = <<>> /\ stored' = FALSE
    /\ \/ Queued("NAK") /\ pc' = "first" /\ result' = "busy"
       \/ NotQueued /\ pc' = "idle" /\ result' = "silent"
    /\ UNCHANGED <<blk, sockOpen, upStatus, cmpStatus, host>>

(* Between commands the line parser takes whatever the host still sends.    *)
ParseStray ==
    /\ pc = "idle"
    /\ rxq # <<>> /\ Head(rxq).t # "CMD"
    /\ rxq' = Tail(rxq)
    /\ UNCHANGED <<device, toHost, server, host, faults>>

FirstBlock ==
    /\ pc = "first"
    /\ XmodemReceiveBlock("OK")
    /\ bn' = NextBN(bn)
    /\ pc' = "url"
    /\ UNCHANGED <<retry, echo, total, sockOpen, upStatus, cmpStatus, result,
                   toHost, server, host, faults>>

FirstRetry ==
    /\ pc = "first"
    /\ XmodemReceiveBlock("RETRY")
    /\ retry < RetryFirst
    /\ retry' = retry + 1
    /\ Reply("NAK")
    /\ UNCHANGED <<pc, bn, echo, total, sockOpen, upStatus, cmpStatus, result,
                   server, host>>

FirstRetryOver ==
    /\ pc = "first"
    /\ XmodemReceiveBlock("RETRY")
    /\ retry >= RetryFirst
    /\ retry' = retry + 1
    /\ TransmitCancel
    /\ Answer("NG")
    /\ UNCHANGED <<bn, total, sockOpen, upStatus, cmpStatus, server, host>>

(* Anything else, a torn or repeated block included, ends the command.      *)
FirstFailed ==
    /\ pc = "first"
    /\ \/ /\ \E ret \in {"CANCELED", "DUP", "EAGAIN"} : XmodemReceiveBlock(ret)
          /\ UNCHANGED <<toHost, faults>>
       \/ XmodemReceiveBlock("FINISHED") /\ Reply("ACK")
    /\ Answer("NG")
    /\ UNCHANGED <<bn, retry, total, sockOpen, upStatus, cmpStatus, server, host>>

----------------------------------------------------------------------------
(* SipfFileUpload: the URL, then the request whose body is cmdFputSendCb.   *)

(* The URL cannot be had, or no connection to it: the host is not told.     *)
UploadRefused ==
    /\ pc = "url"
    /\ Answer("NG")
    /\ UNCHANGED <<bn, retry, blk, total, sockOpen, upStatus, cmpStatus,
                   rxq, toHost, server, host, faults>>

Connected ==
    /\ pc = "url"
    /\ pc' = "chunk"
    /\ sockOpen' = TRUE
    /\ UNCHANGED <<bn, retry, blk, echo, total, upStatus, cmpStatus, result,
                   rxq, toHost, server, host, faults>>

(* sendChunkedData hands the buffer to send(), which may take less.         *)
SendLens == IF ShortSend THEN 1 .. BlockLen ELSE {BlockLen}

(* Mutant: a failed send() is counted like bytes.                           *)
SendChunkedDataUnchecked(data) ==
    \/ \E len \in SendLens :
        /\ upload' = Append(upload, [data |-> data, len |-> len])
        /\ total' = total + len
    \/ total' = total - 1 /\ UNCHANGED upload

SendChunkedData(data) ==
    \E len \in SendLens :
        /\ upload' = Append(upload, [data |-> data, len |-> len])
        /\ total' = total + len

(* Mutant: the callback counts blocks from 0, as the command itself does.   *)
FirstChunkFromZero ==
    /\ pc = "chunk"
    /\ SendChunkedData(blk)
    /\ bn' = 0
    /\ retry' = 0
    /\ Reply("ACK")
    /\ pc' = "recv"
    /\ UNCHANGED <<blk, echo, sockOpen, upStatus, cmpStatus, result, rxq, stored, host>>

FirstChunk ==
    /\ pc = "chunk"
    /\ SendChunkedData(blk)
    /\ bn' = 1
    /\ retry' = 0
    /\ Reply("ACK")
    /\ pc' = "recv"
    /\ UNCHANGED <<blk, echo, sockOpen, upStatus, cmpStatus, result, rxq, stored, host>>

(* The callback returns -ret, a positive errno: the HTTP client takes it    *)
(* for a number of bytes and goes on to wait for the response.              *)
FirstChunkFailed ==
    /\ pc = "chunk"
    /\ pc' = "respond"
    /\ UNCHANGED <<bn, retry, blk, echo, total, sockOpen, upStatus, cmpStatus, result,
                   rxq, toHost, server, host, faults>>

(* Mutant: the block sent is the one the buffer held before.                *)
NextChunkStale ==
    /\ pc = "recv"
    /\ XmodemReceiveBlock("OK")
    /\ SendChunkedData(blk)
    /\ bn' = NextBN(bn)
    /\ retry' = 0
    /\ Reply("ACK")
    /\ UNCHANGED <<pc, echo, sockOpen, upStatus, cmpStatus, result, stored, host>>

(* The receive loop of cmdFputSendCb.                                       *)
NextChunk ==
    /\ pc = "recv"
    /\ XmodemReceiveBlock("OK")
    /\ SendChunkedData(blk')
    /\ bn' = NextBN(bn)
    /\ retry' = 0
    /\ Reply("ACK")
    /\ UNCHANGED <<pc, echo, sockOpen, upStatus, cmpStatus, result, stored, host>>

NextChunkFailed ==
    /\ pc = "recv"
    /\ XmodemReceiveBlock("OK")
    /\ bn' = NextBN(bn)
    /\ TransmitCancel
    /\ Answer("NG")
    /\ sockOpen' = FALSE
    /\ UNCHANGED <<retry, total, upStatus, cmpStatus, server, host>>

(* Mutant: the retry is not counted.                                        *)
AskAgainUncounted ==
    /\ pc = "recv"
    /\ XmodemReceiveBlock("RETRY")
    /\ retry <= RetryCb
    /\ Reply("NAK")
    /\ UNCHANGED <<pc, bn, retry, echo, total, sockOpen, upStatus, cmpStatus, result,
                   server, host>>

AskAgain ==
    /\ pc = "recv"
    /\ XmodemReceiveBlock("RETRY")
    /\ retry <= RetryCb
    /\ retry' = retry + 1
    /\ Reply("NAK")
    /\ UNCHANGED <<pc, bn, echo, total, sockOpen, upStatus, cmpStatus, result,
                   server, host>>

RetryOver ==
    /\ pc = "recv"
    /\ XmodemReceiveBlock("RETRY")
    /\ retry > RetryCb
    /\ retry' = retry + 1
    /\ TransmitCancel
    /\ Answer("NG")
    /\ sockOpen' = FALSE
    /\ UNCHANGED <<bn, total, upStatus, cmpStatus, server, host>>

(* Mutant: a repeated block is acknowledged again.                          *)
UnansweredButDupAcked ==
    /\ pc = "recv"
    /\ \/ XmodemReceiveBlock("DUP") /\ Reply("ACK")
       \/ XmodemReceiveBlock("EAGAIN") /\ UNCHANGED <<toHost, faults>>
       \/ XmodemReceiveBlock("FINISHED") /\ NotQueued
    /\ UNCHANGED <<pc, bn, retry, echo, total, sockOpen, upStatus, cmpStatus, result,
                   server, host>>

(* A repeated or torn block, or an EOT whose ACK could not be queued, is in *)
(* none of the branches of the loop: no reply, no retry counted.            *)
Unanswered ==
    /\ pc = "recv"
    /\ \/ /\ \E ret \in {"DUP", "EAGAIN"} : XmodemReceiveBlock(ret)
          /\ UNCHANGED <<toHost, faults>>
       \/ XmodemReceiveBlock("FINISHED") /\ NotQueued
    /\ UNCHANGED <<pc, bn, retry, echo, total, sockOpen, upStatus, cmpStatus, result,
                   server, host>>

(* EOT and CAN both leave the loop; a short file closes the socket.         *)
TransferEnds ==
    /\ pc = "recv"
    /\ \/ XmodemReceiveBlock("FINISHED") /\ Queued("ACK")
       \/ XmodemReceiveBlock("CANCELED") /\ UNCHANGED <<toHost, faults>>
    /\ sockOpen' = (sockOpen /\ total >= Size)
    /\ pc' = "respond"
    /\ UNCHANGED <<bn, retry, echo, total, upStatus, cmpStatus, result, server, host>>

----------------------------------------------------------------------------
(* The response to the upload, then to the completion notice.  A request    *)
(* that ends without response data leaves the static http_res as it was.    *)

Accepted == sockOpen /\ total >= Size

(* Mutant: the status of the upload is not looked at.                       *)
UploadStatusUnchecked(status) ==
    /\ upStatus' = status
    /\ sockOpen' = FALSE
    /\ pc' = "complete" /\ UNCHANGED <<result, echo>>

UploadStatus(status) ==
    /\ upStatus' = status
    /\ sockOpen' = FALSE
    /\ IF status = "OK"
       THEN pc' = "complete" /\ UNCHANGED <<result, echo>>
       ELSE Answer("NG")

(* getaddrinfo fails without setting errno: the HTTP client returns         *)
(* -errno, 0, and no request was made at all.                               *)
Unconnected ==
    /\ pc = "url" /\ SilentServer
    /\ UploadStatus(upStatus)
    /\ UNCHANGED <<bn, retry, blk, total, cmpStatus, rxq, toHost, server, host, faults>>

UploadResponse ==
    /\ pc = "respond"
    /\ \/ Accepted /\ UploadStatus("OK")
       \/ sockOpen /\ UploadStatus("ERR")
       \/ SilentServer /\ UploadStatus(upStatus)
    /\ UNCHANGED <<bn, retry, blk, total, cmpStatus, rxq, toHost, server, host, faults>>

CompleteStatus(status) ==
    /\ cmpStatus' = status
    /\ Answer(IF status = "OK" THEN "OK" ELSE "NG")

CompleteResponse ==
    /\ pc = "complete"
    /\ \/ CompleteStatus("OK") /\ stored' = TRUE
       \/ CompleteStatus("ERR") /\ UNCHANGED stored
       \/ SilentServer /\ CompleteStatus(cmpStatus) /\ UNCHANGED stored
    /\ UNCHANGED <<bn, retry, blk, total, sockOpen, upStatus, rxq, toHost, upload, host, faults>>

(* Either request may also end in an error return of the HTTP client.       *)
RequestFailed ==
    /\ pc \in {"respond", "complete"}
    /\ Answer("NG")
    /\ sockOpen' = FALSE
    /\ UNCHANGED <<bn, retry, blk, total, upStatus, cmpStatus, rxq, toHost, server, host, faults>>

Device ==
    \/ FputStart \/ ParseStray
    \/ FirstBlock \/ FirstRetry \/ FirstRetryOver \/ FirstFailed
    \/ UploadRefused \/ Connected \/ FirstChunk \/ FirstChunkFailed
    \/ NextChunk \/ NextChunkFailed \/ AskAgain \/ RetryOver
    \/ Unanswered \/ TransferEnds
    \/ Unconnected \/ UploadResponse \/ CompleteResponse \/ RequestFailed

----------------------------------------------------------------------------
(* The host, an XMODEM sender.  It starts a command once the device has     *)
(* answered the last one, and clears what it had received before.           *)

Arrive(unit) == rxq' = IF Len(rxq) < RxCap THEN Append(rxq, unit) ELSE rxq

NoCommand(q) == \A i \in DOMAIN q : q[i].t # "CMD"

HostCommand ==
    /\ hpc \in {"idle", "done", "aborted"}
    /\ pc = "idle"
    /\ NoCommand(rxq)
    /\ session < MaxSessions
    /\ session' = session + 1
    /\ hpc' = "waitNak" /\ hidx' = 1 /\ tries' = 0
    /\ toHost' = <<>>
    /\ Arrive(Ctrl("CMD"))
    /\ UNCHANGED <<device, server, faults>>

HostBlock(i) == Block(i % BNMod, i, "none")

(* What the line can make of a block, unless all of it is lost.             *)
Damaged(i) ==
    {Block(i % BNMod, i, "bn"), Block(i % BNMod, i, "data"),
     Ctrl("trunc"), Ctrl("junk")}

SendBlock(i) ==
    \/ Arrive(HostBlock(i)) /\ UNCHANGED faults
    \/ Fault /\ (UNCHANGED rxq \/ \E unit \in Damaged(i) : Arrive(unit))

SendEot ==
    \/ Arrive(Ctrl("EOT")) /\ UNCHANGED faults
    \/ Fault /\ (UNCHANGED rxq \/ Arrive(Ctrl("junk")))

SendCurrent == IF hpc = "waitEot" THEN SendEot ELSE SendBlock(hidx)

Heard(byte) == toHost # <<>> /\ Head(toHost) = byte /\ toHost' = Tail(toHost)

Sending == {"waitAck", "waitEot"}

HostFirst ==
    /\ hpc = "waitNak"
    /\ Heard("NAK")
    /\ SendBlock(1)
    /\ hpc' = "waitAck" /\ tries' = 1
    /\ UNCHANGED <<device, server, hidx, session>>

HostNextBlock ==
    /\ hpc = "waitAck" /\ hidx < NBlocks
    /\ Heard("ACK")
    /\ SendBlock(hidx + 1)
    /\ hidx' = hidx + 1 /\ tries' = 1
    /\ UNCHANGED <<device, server, hpc, session>>

HostLastAcked ==
    /\ hpc = "waitAck" /\ hidx = NBlocks
    /\ Heard("ACK")
    /\ SendEot
    /\ hpc' = "waitEot" /\ tries' = 1
    /\ UNCHANGED <<device, server, hidx, session>>

HostDone ==
    /\ hpc = "waitEot"
    /\ Heard("ACK")
    /\ hpc' = "done"
    /\ UNCHANGED <<device, server, rxq, hidx, tries, session, faults>>

(* Sent again on a NAK, or when the host's own timer runs out.              *)
HostAgain ==
    /\ hpc \in Sending /\ tries < MaxHostTries
    /\ Heard("NAK") \/ UNCHANGED toHost
    /\ SendCurrent
    /\ tries' = tries + 1
    /\ UNCHANGED <<device, server, hpc, hidx, session>>

(* The host gives up, on a CAN, a last NAK or by itself, with or without    *)
(* telling the device.                                                      *)
HostAbort ==
    /\ hpc \in Sending \cup {"waitNak"}
    /\ Heard("CAN") \/ Heard("NAK") \/ UNCHANGED toHost
    /\ hpc' = "aborted"
    /\ Arrive(Ctrl("CAN")) \/ UNCHANGED rxq
    /\ UNCHANGED <<device, server, hidx, tries, session, faults>>

(* A control byte the host does not expect, or that the line eats.          *)
HostSkips ==
    /\ toHost # <<>>
    /\ \/ hpc \in {"idle", "done", "aborted"} /\ UNCHANGED faults
       \/ hpc = "waitNak" /\ Head(toHost) = "ACK" /\ UNCHANGED faults
       \/ Fault
    /\ toHost' = Tail(toHost)
    /\ UNCHANGED <<device, server, rxq, host>>

Host ==
    \/ HostCommand \/ HostFirst \/ HostNextBlock \/ HostLastAcked
    \/ HostDone \/ HostAgain \/ HostAbort \/ HostSkips

Next == Device \/ Host

Spec == Init /\ [][Next]_vars

(* The thread of main() and the system workqueue keep running, and every    *)
(* wait of the command has a timeout.                                       *)
FairSpec == Spec /\ WF_vars(Device)

----------------------------------------------------------------------------
(* Properties.                                                              *)

(* The server gets the blocks of the file in order, each of them once,      *)
(* whatever the line loses, damages, repeats or makes up: the numbering of  *)
(* xmodem_block_validation and the single ACK per block in cmdFputSendCb.   *)
UploadInOrder ==
    /\ Len(upload) <= NBlocks
    /\ \A i \in DOMAIN upload : upload[i].data = i

(* A host that saw its EOT acknowledged has had every block passed on: no   *)
(* ACK of XmodemReceiveBlock or XmodemReceiveReqNextBlock can stand for a   *)
(* block that was not.                                                      *)
HostDoneUploaded == hpc = "done" => Len(upload) = NBlocks

(* OK from $$FPUT means the whole file went out and the server confirmed    *)
(* the completion in this very session (SipfFileUploadComplete).            *)
OkMeansStored ==
    result = "OK" =>
        /\ stored
        /\ Len(upload) = NBlocks
        /\ \A i \in DOMAIN upload : upload[i].data = i /\ upload[i].len = BlockLen

(* Between commands the echo is on again: whoever calls XmodemBegin calls   *)
(* XmodemEnd.                                                               *)
EchoRestored == pc = "idle" => echo

(* The command always comes back, whatever the host does or stops doing.    *)
FputTerminates == pc # "idle" ~> pc = "idle"

(* The inductive invariant behind UploadInOrder and HostDoneUploaded.       *)

Early == {"first", "url", "chunk"}      \* before anything was passed on
Open == Early \cup {"recv"}             \* while blocks are still taken

(* How many units the host believes were taken: the EOT counts as one.      *)
Pos == IF hpc = "done" THEN NBlocks + 1
       ELSE IF hpc = "waitEot" THEN NBlocks
       ELSE hidx - 1

Acks(q) == {i \in DOMAIN q : q[i] = "ACK"}

HostInv ==
    /\ hpc = "waitNak" => hidx = 1
    /\ hpc \in {"waitEot", "done"} => hidx = NBlocks

(* A command on its way to the device is alone with its host.               *)
CommandInv ==
    ~NoCommand(rxq) =>
        /\ pc = "idle" /\ toHost = <<>>
        /\ hpc \in {"waitNak", "aborted"} /\ hidx = 1

(* Blocks on the line are numbered as the host counts, in order, and not    *)
(* older than block lo nor newer than block hi.                             *)
Ordered(q, lo, hi) ==
    \A i \in DOMAIN q : q[i].t = "blk" =>
        /\ q[i].bn = q[i].data % BNMod
        /\ q[i].data >= 1 /\ q[i].data >= lo /\ q[i].data <= hi
        /\ \A j \in DOMAIN q : q[j].t = "blk" /\ i < j => q[i].data <= q[j].data

LineInv == pc \in Open => Ordered(rxq, Len(upload), hidx)

(* Each phase knows which block it holds and which comes next.              *)
PhaseInv ==
    /\ pc \in Early => upload = <<>>
    /\ pc = "first" => bn = 0
    /\ pc \in {"url", "chunk"} => blk = 1
    /\ pc = "recv" => upload # <<>> /\ bn = Len(upload) % BNMod
    /\ pc \in Open => Len(upload) <= hidx

(* While blocks are taken, what the host believes and the ACK still on its  *)
(* way to it never add up to more than the n blocks passed on; once they    *)
(* are not, the ACK of one EOT comes on top.                                *)
OpenCredit(q, pos, n) ==
    /\ pos <= n
    /\ \A i \in Acks(q) : pos + 1 <= n
    /\ \A i, j \in Acks(q) : i = j

ClosedCredit(q, pos, n) ==
    /\ pos <= n + 1
    /\ \A i \in Acks(q) : pos <= n
    /\ \A i, j \in Acks(q) : i # j => pos + 1 <= n
    /\ \A i, j, k \in Acks(q) : i = j \/ j = k \/ i = k

CreditInv == IF pc \in Open THEN OpenCredit(toHost, Pos, Len(upload))
                            ELSE ClosedCredit(toHost, Pos, Len(upload))

IInv ==
    /\ TypeOK
    /\ UploadInOrder
    /\ HostInv
    /\ CommandInv
    /\ LineInv
    /\ PhaseInv
    /\ CreditInv

----------------------------------------------------------------------------
(* The command implements the abstract upload.                              *)
Abs == INSTANCE FileUpload WITH
           delivered <- [i \in DOMAIN upload |-> upload[i].data],
           verdict <- result

ImplementsUpload == Abs!Spec
=============================================================================
