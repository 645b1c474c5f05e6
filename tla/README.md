# Verification of the SIPF standard client (nRF9160)

TLA+ models of the firmware in `src/`, with TLC runs on small instances and
TLAPS proofs for all values of the constants. The firmware is a modem module: a
host computer types commands on a UART (`$$TX`, `$$FPUT`, `$$FGET`, ...), the
firmware carries them out over LTE and HTTP and answers on the same UART.

## 1. Inventory

| part | source | state it keeps | operations | talks to |
|---|---|---|---|---|
| UART broker | `src/uart_broker.c` | receive and transmit queue, echo flag | interrupt handler puts bytes and echoes them; thread sends; put, get with timeout, purge, set echo | everybody, from several threads and an interrupt |
| XMODEM | `src/xmodem.c` | none (callers keep the block number) | receive a block, send a block, wait for a request, send EOT, cancel | UART broker |
| `$$FPUT` | `src/cmd_ascii.c` | `xmodem_block`, `sz_fput_file`, counters | command and HTTP body callback | XMODEM, file client |
| `$$FGET` | `src/cmd_ascii.c` | `fget_bn` | command, and fragment callback in the download thread | XMODEM, file client |
| file client | `lib/sipf/src/sipf_file.c` | URL buffer, three static responses, `sem_dl_finish`, `dl_cb_err` | request URL, upload, report complete, download | HTTP client, download client |
| HTTP client | `lib/sipf/src/sipf_client_http.c` | authorization header | run a request, parse a URL | sockets |
| authentication | `lib/sipf/src/sipf_auth.c` | static response | get user name and password | HTTP client |
| object client | `lib/sipf/src/sipf_object.c` | buffers, static responses | upload, download, parse objects | HTTP client |
| command line | `src/cmd.c` | state, buffer, index | take a byte | ASCII commands |
| ASCII commands | `src/cmd_ascii.c` | `is_unlocked` | parse and answer a line | all of the above |
| registers | `src/registers.c` | byte table | reset, read, write | commands, main loop |
| boot and main loop | `src/main.c` | `lte_connected`, credentials | attach, authenticate, take commands, re-authenticate | all of the above |
| GNSS | `src/gnss/gnss.c` | last position, flags | event handler, readers | commands |
| firmware update | `src/fota/fota_http.c` | semaphore | download and wait | commands |

Hard behaviour, and what correctness means there:

* **`$$FPUT`** - two retry loops with different limits, a block buffer shared by
  the command and its callback, results of the receiver that no branch handles,
  a line that loses, damages and repeats. Correct: the server gets the file in
  order and each block once; nobody concludes more than what happened; the
  command ends and leaves the terminal as it was.
* **`$$FGET`** - two threads, one semaphore without timeout, replies that come
  too late and are taken for the next one. Correct: the host never stores a
  block twice or out of order; OK means the whole file; nothing of one command
  is left for the next.
* **HTTP responses** - static structures written only when data arrives.
  Correct: a verdict is about the request just made.
* **Boot and main loop** - a semaphore given after its timeout, a mode register
  that is both input and result. Correct: the register tells which mode is in
  force, and the Authorization header never mixes two issues of credentials.
* **GNSS** - an interrupt rewrites the tables a command is copying. Correct: an
  answer is in order, whole and not older than the command.
* **Firmware update** - a wait without a timeout, and a URL in static buffers.
  Correct: it fetches what was asked for, only when unlocked, and ends.
* **UART broker** - queue limits, an interrupt that echoes past the queue, writers
  in several contexts. Correct: the host gets each message as a beginning without
  holes, and a transfer is not disturbed by echo.
* **Command line** - index arithmetic at both ends of the buffer, and a dispatch
  that compares the buffer, not the line. Correct: the command that runs is the one
  that was typed.

The complete list, each at its line, is `hazards` in `PROJECT.json`. Where the code does what
the hazard describes, no property forbids it; the `note` says what the model shows
of it and what the property nearest to it leaves out.

## 2. Plan and structure

Modules in order of importance; all of them exist.

| module | what | on top of |
|---|---|---|
| `Xmodem` | frames, block validation, results of receiver and sender | - |
| `Fput`, `FileUpload` | `$$FPUT` end to end; the abstract upload it implements | `Xmodem` |
| `Fget` | `$$FGET` with both threads | `Xmodem` |
| `Attach` | modem, registration semaphore, its timeout and retries | - |
| `Registers`, `Objects`, `SipfUrl` | register table, wire format of objects, URL splitting (operators) | - |
| `Session` | boot, authentication, mode register, every command that talks to a server, firmware update, reboot | `Attach`, `Registers`, `Objects`, `SipfUrl` |
| `LineEditor`, `CmdLine` | the abstract line editor; the command buffer, its index and the dispatch | - |
| `UartBroker` | queues, echo, writers | - |
| `Console` | command line, UART broker, `main()`'s polling and the transfers composed | `CmdLine`, `UartBroker` |
| `Gnss` | NMEA table and position under the event interrupt | - |
| `SeqFacts` | facts about `Head`, `Tail`, `Append` | TLAPS |
| `FputProofs`, `FgetProofs`, `CmdLineProofs`, `GnssProofs` | proofs of one component each | its module, `SeqFacts`, TLAPS |
| `ConsoleProofs` | proofs of the command line behind the broker, and of the broker | `Console`, `CmdLineProofs` |
| `WireProofs` | what the parsers of payloads and URLs compute | `Objects`, `SipfUrl`, `SeqFacts` |
| `SessionProofs` | proofs of the whole client | `Session`, `WireProofs` |

Each `MC` module instantiates its specification for TLC; each question has a
`.cfg`.

Every invariant and every action property that a passing run checks is also a
theorem, and so are the three refinements (`FileUpload`, `LineEditor`, and
`CmdLine` by `Console`). What is still worth doing: theorems about `Xmodem` and
`Registers` as modules of their own, and an abstract download that `Fget`
implements under the conditions of `PrefixCorrect`.

## 3. Modules

**`Xmodem`** is `src/src/xmodem.c` at the level of frames. A unit on the line is a
whole 132-byte block or a single byte. What the line did to a block is a field
of the unit: the number hit (`bn`), the data hit (`data`), the tail lost
(`trunc`), the header lost (`junk`). `BlockValidation` is
`xmodem_block_validation` with its order of checks, `ReceiveRets` the set of
results `XmodemReceiveBlock` may have for a unit, including the `-EAGAIN` that
the inner loop hands through and that is none of the declared results. A
headerless block is read byte by byte: each byte is refused, or is an EOT, a
CAN, or the header of a block that never ends.

**`Fput`** is the command, its callback, the uploads under it, the line, the
host and the server. `pc` names where the command is:

| `pc` | code |
|---|---|
| `first` | first loop of `cmdAsciiCmdFput` |
| `url` | `SipfFileUpload` before the request has a connection |
| `chunk` | `cmdFputSendCb` at its first `sendChunkedData` |
| `recv` | the loop of `cmdFputSendCb` |
| `respond` | the HTTP client waits for the response to the upload |
| `complete` | `SipfFileUploadComplete` |

An action is one pass through a loop body or one stage, with every call it
makes. `upStatus` and `cmpStatus` are the two static `http_res`; they outlive
the session, as in the code. `upload` and `stored` are the server's. The host is
a careful XMODEM sender: it sends a unit again on NAK or on its own timer, at
most `MaxHostTries` times, may give up at any moment, and starts a command only
after the last one was answered and after clearing its input.

**`FileUpload`** is the promise: blocks in order, each once, OK only after all of
them. `Fput!Abs` maps `upload` and `result` to it.

**`Fget`** has two threads: `pc` for `main()`, `dpc` for the thread of the download
client, which runs `cmdFgetCb`. They share the semaphore, `cbErr` and the serial
line. The last try of a block and the loop that then simply ends are
`BlockAgain`. An EOT that cannot be queued is followed by a CAN that may find room
(`EndSent`). The host is an XMODEM receiver that aborts when it is out of step.

**`Attach`** is `init_modem_and_lte` (`apc`: modem set-up, connect, wait for the
semaphore, go offline, next try) against `lte_handler`. The status of the network
travels as `event` and is handled in a step of its own, so it can be late. The
semaphore is not reset between tries.

**`Session`** runs `main()` after that: `auth` (the loop that authenticates until it
succeeds), `check` (the first turn of the main loop, before the host was told
`Ready`), `poll` (taking commands; `Check` ends a turn), `fota` (waiting in
`FotaHttpRun`). Three pieces of state are shared the way the code shares
them, and they are what the module is about:

* `buf` is `httpc_res_buff`, one buffer for all requests, changed only when a
  response brings data. Its content is abstract: zero, a text, a notification of the
  object server, credentials (with `cut` once `SipfAuthRequest` has written its NULs
  into them), or a URL.
* `authRes`, `upRes`, `urlRes` are the static `http_res` of three functions, `None`
  until the first response. `Copied` and `CopiedOnce` are the two callbacks:
  the one of `sipf_object.c` writes only while the status is 0. The download of
  objects clears its own structure and needs no variable.
* `user`, `password`, `header` are the credentials of `main.c` and the Authorization
  header that is made of them.

A request is one step with any outcome `ok` x `data`: it may return an error after a
response, or no error without one. Credentials have a shape, at boot and at every
later authentication (`Shapes`): `user:password` fits the base64 buffer (`fits`); it does not,
but fits the buffer it is written to before (`wide`, 94 to 127 bytes); it is longer
than that too (`over`); or user or password is too long for its variable of 255
bytes. Parsing the body of another request may give text of any of these shapes
(`Junks`). The header is made of `fits` only (`Encodes`). A text of 128 bytes or more is
undefined in C (`sprintf` into `tmp1`, `sipf_client_http.c:210`): either the refusal that
follows anyway, or main() faults (`pc = "fault"`) and nothing but a reset helps.
`Update` calls the URL request, cuts the URL in place (`SipfUrl`, character classes
of a real URL) and starts the download. `auth`, `last`, `after`, `issued` and
`registered` are history: how the last authentication ended, the last command with
what the host got and what the server saw, the commands since `$$UNLOCK`. `Reboot`
puts everything to its value at power-up (the `WAKE_IN` interrupt does it at any
moment, a finished update too); what the servers issued stays.

**`Objects`** holds the builder of `$$TX` (the length of a value is counted in
`LenMod`, 256 in the code) and the parser of `$$RX`; `Session` sends the bytes of the
one through the other.

**`CmdLine`** is `cmd.c` one byte at a time (an action per branch) plus the dispatch
of `CmdAsciiParse`, which compares names with the buffer. `given` and `fresh` are
history. **`LineEditor`** is what a line editor promises: the text typed less the
text taken back, handed over whole or dropped. `CmdLine!Editor` maps buffer and
index to it.

**`UartBroker`** has the two queues, `left` (what each writer has yet to put of its
message) and `told`. The bytes of a message are numbered, so the host's view, `wire`,
tells whole, torn and mixed messages apart. An echo is a counter: it goes past the
transmit queue to the same line.

**`Console`** composes them. Bytes the host types (`HostTypes`) go through the
interrupt handler into the queue; `main()` takes one in each turn (`PollByte`,
`PollLine`, `PollFull`), puts its answer byte by byte, or runs a transfer, in which
the echo is switched off, then the queue purged (two steps: the interrupt may come
between), and the bytes are taken by the transfer. `LtePrints` is `lte_handler`
writing from its own context, also into an answer or a transfer.

**`Gnss`** numbers frames and sentences as the modem issues them. The interrupt
(`EventPvt`, `EventNmea`) may fall between any two steps of a command. A sentence is
copied in two halves and a position in three reads, because that is where it can be
replaced; the count is looked at again before each line.

`MCFput`, `MCFget`, `MCSession`, `MCConsole` and `MCGnss` instantiate them for TLC.

External, modelled from how `src/` uses them: the line, the host, the servers, the
modem, the download client, the FOTA library and the HTTP client of the SDK (an
error or a closed connection is a negative result; the response callback is only
called with data when there is some; after an error of the fragment callback the
download client stops; a FOTA download ends with an event; the GNSS event handler
runs in an interrupt and is not interrupted by the commands).

## 4. Runs

| run | shows | holds |
|---|---|---|
| `fput_core` | 4 blocks, block numbers modulo 3, 3 faults of the line: `UploadInOrder`, `HostDoneUploaded`, `OkMeansStored`, `EchoRestored`, the inductive invariant, the refinement, termination | yes |
| `fput_net` | 2 commands, 2 blocks, numbers modulo 2, requests without answer, short sends, full transmit queue | yes |
| `fput_echo` | `EchoRestored` when the transmit queue is full | no |
| `fput_stale` | `OkMeansStored` when a request ends without response data | no |
| `fput_short` | `OkMeansStored` when `send()` takes a part | no |
| `fget_core` | 4 blocks in fragments of 2, 2 commands, 2 faults: `StoredIsPrefix`, `OkMeansDelivered`, `CleanBetween` | yes |
| `fget_slow` | slow host, timer NAKs, receive queue of 2, full transmit queue: `StoredInOrder`, `CleanBetween`, the inductive invariant, termination | yes |
| `fget_loss` | `OkMeansDelivered` with NAKs the host sends on its timer | no |
| `session` | attach, authentication, 3 commands, a reboot at any moment: header, mode, objects, update, termination | yes |
| `session_verdict` | `OkIsReported`: an upload the server confirmed is answered OK | no |
| `console` | 6 bytes typed at any time, a printing LTE event, a transfer: index, dispatch, line editor, no holes, quiet transfer, every byte taken | yes |
| `gnss` | interrupts between all steps of the commands: order, size and age of answers | yes |

The five runs that fail are disagreements between code and its own comments; they
are described under `findings`:

* `cmd_ascii.c:656` returns without `XmodemEnd`: echo off, no answer.
* `sipf_file.c:219` judges a request by an older response.
* `cmd_ascii.c:583` compares padded bytes with an unpadded size: a block sent in part is
  not noticed. (Of the last one only padding may be missing; of any other, bytes of
  the file.)
* `cmd_ascii.c:708` runs out of tries and goes on with the next block.
* `sipf_object.c:98` keeps the first response that was not OK: later uploads are
  answered NG until the next reset although the server stored them. (The other
  direction, an old OK for a refused upload, does not follow: the function also
  reads the notification from the buffer, which it clears before each request.
  That is why `ObjectsAgree` holds.)

**Where `fget_core` stops holding.** `StoredIsPrefix` and `OkMeansDelivered` are
claims about a purely answering host (its only NAK is the request, `MaxNaks = 1`)
and fewer faults than tries (`MaxFaults = 2 < SendTries = 3`). One NAK of the
host's timer plus one damaged last block is enough to break `OkMeansDelivered`:
replies are then one late and the ACK of a former block is taken for the last.
`fget_loss` shows the shortest form of it. Only the weaker `StoredInOrder` holds
without these conditions, and `fget_slow` checks it without them.

**Conditions of the `session` properties.** They are worth knowing, since the code
does not enforce them.

* `ModeInForce` needs a host that waits for `+++ Ready +++` (`EarlyHost = FALSE`): a
  mode of 1 written before the first turn of the loop is not noticed when the mode
  was cleared by a failure at boot, because `prev_auth_mode` is initialised to 1
  (`main.c:443`). With `EarlyHost = TRUE` TLC finds that. It also needs a host that
  writes 0 or 1 (`ModeWrites`): 2 and then 1 is no step from 0 to 1. And a request
  without response data re-reads the older response in the buffer
  (`auth = "unanswered"`); the property then only says which credentials are in the
  header, not that they are the latest.
* `HeaderWhole` holds for credentials of any width at any authentication, but not
  because the code takes care of it. At boot a failure is retried; the main loop goes on
  to make the header (`main.c:474`) of a user too long for its variable beside the old
  password, or of a password without its end. Both are longer than the encoder's
  buffer, which refuses them after `tmp1` was overrun. With buffers as wide as the
  variables (`EncodesAnyWidth`, the mutant) the property fails. What an overrun writes over
  besides is left out, see section 6.
* `ObjectsAgree` excepts values of `LenMod` bytes and more, whose length wraps.
  `ServerReads` stands for a server that reads a packet to its end, whatever its
  number of objects; the list of `$$RX` has room for `ObjMax`.
* `Files` holds URLs with the shape of one (`FilesAssumption`): no colon in the
  protocol, no slash in the host, no end of line in the path.
* `UpdateTarget` excepts requests without a response and a URL that does not end its
  line: the copy in `image_url` adds no NUL, so an earlier, longer URL shows behind
  it (file `c` of `MCSession`).
* `AttachedWasRegistered` says that the modem has registered since the boot, not in
  this try: a registration handled after the timeout lets the next try pass at once,
  although the comment there says `connected` (`main.c:339`).

**Conditions of `RunsTheLine`.** A name longer than what is left of the line after
backspaces may still match the buffer. The length passed on is then negative and
wraps to one that no buffer has, so the property speaks of lengths up to `BufSz`.

**`FreshLocation`** is what holds of a location: its parts may come from up to three
frames, each no older than the one before, and the verdict may be newer than the
position it is about (`gnss.c:150` reads the flag again after the copy).

**Bounds.** `BNMod` stands for 256: with 2 and 3 the numbers wrap several times
within a file, which is where telling repeated, next and skipped blocks apart is
hardest. `RetryFirst`, `RetryCb`, `ReqTries` stand for 10, `FragLen` for 8, `BlockLen` for
128: small values keep both sides of each limit reachable. `RxCap` counts units in
`Fput` and is small so that the queue is full in reachable states. `session`:
`RegisterTry = 2` (3 in the code) has a first and a last try; `LenMod = 4` and `ObjMax =
2` let values of up to five bytes wrap and a list of three be cut; two files with
URLs of different length and protocol and one without its line end, in characters
`Char`; three issues of
credentials, each of any of the five shapes, and three commands cover success, failure and success again, and unlock,
something else, update; one reboot. `console`: a buffer of 3 holds both names, so it
can be full, be passed by one, and be left at -1 with 6 bytes; the queues hold 1 and
2 with answers of 2 bytes, so both overflow. The names `W` and `WW` make the order of
the table and the separator matter. `gnss`: a table of 3 rows, 6 sentences and 3
frames overflow it, reset it and refill it during one answer.
`MaxFaults`, `MaxSessions`, `MaxHostTries`, `MaxNaks`, `MaxGrants`, `MaxCommands`,
`MaxReboots`, `MaxBytes`, `MaxEvents`, `MaxFrames`, `MaxSentences` bound the
environment only; the proofs hold for every value of those they meet. Deadlock is
not checked: when the environment has used up its bounds the system may stop.

**Fairness.** `Fput` has weak fairness of the device's step: one thread, no lock,
and each wait of the command has a timeout, so a step is always possible while a
command runs. `Fget` has weak fairness of `main()` and of the download thread;
that the download client ends every wait for the server with an event is its own
receive timeout. `Console` has weak fairness of `main()` and of the broker's thread:
`main()` sleeps in each turn, and a writer waits when the queue is full, so the
thread gets its time in spite of its lower priority. `Session` has weak fairness
of the boot (`main()` runs), of the return from `FotaHttpRun`, and of the end of a
download (the FOTA library gives an error event or a finished one).
There is no fairness of host, line, network or server: `AttachEnds` holds on a
network that never answers. `FputTerminates`
needs the host to repeat a unit only finitely often: a repeated block is neither
answered nor counted (`Unanswered`), so a host that repeats it for ever keeps the
command alive for ever.

## 5. Proofs

`FputProofs` proves, from `FputAssumption` and `BNModAssumption` alone:

* `TypeCorrect` - `Spec => []TypeOK`
* `InvariantCorrect` - `Spec => []IInv`
* `UploadCorrect` - `Spec => []UploadInOrder`
* `HostDoneCorrect` - `Spec => []HostDoneUploaded`

`UploadInOrder` is not inductive. That the next accepted block is the next of the
file rests on what the line can hold, and that rests on what the host believes:

* `LineInv`: while blocks are taken, the blocks in the receive queue carry the
  number of their position, are in order, none older than the last one passed
  on, none newer than the host's current one.
* `PhaseInv`: in each phase the block counter is the number of the last block
  passed on (modulo `BNMod`), and the buffer holds block 1 until then.
* `CreditInv`: what the host believes delivered, plus the ACK on their way to it,
  never exceeds what was passed on. While blocks are taken there is at most one
  such ACK; after that one more, of the EOT. It is why a repeated block must not
  be acknowledged again.
* `CommandInv`: a command on the line is alone there, so a session starts with
  nothing of an earlier one.

With these a sound block that validation calls next (`bn + 1` modulo `BNMod`) lies
between the last block `n` and `n + 1`, since the host is at most one ahead; its
number then tells the two apart for every `BNMod > 1`. `TakenBlock` and
`ChunkInOrder` are that argument, `CoreDevice` and `CoreHost` the steps. The runs
check `IInv` before the proofs rely on it.

The second half of `FputProofs` is about the answer. Three runs show that `OK` and
the echo are not what they should be in general; these theorems say when they are,
and the hypotheses are the negations of what those runs need:

* `EchoUnlessSilent` - `Spec => []EchoInv`, without hypothesis: between commands the
  echo is on, or the first NAK of the last command found the transmit queue full.
* `EchoCorrect` - `~TxFault` gives `Spec => []EchoRestored`
* `OkCorrect` - `~SilentServer`, `~ShortSend` give `Spec => []OkMeansStored`
* `UploadImplemented` - the same two give `Spec => ImplementsUpload`

`OkInv` is inductive together with `IInv`: every chunk took a whole block, the byte
counter is the number of chunks times `BlockLen` (`CountInv`), and an answer OK was
given on a status of this session (`AnswerInv`). `WholeSize` is the arithmetic
behind the size check: fewer blocks than `NBlocks` do not reach `Size`. The static
statuses of earlier sessions are in the state all the same; a request that brings
a response overwrites them, and that is why the hypothesis is about responses.

`FgetProofs` proves, from `FgetAssumption` and `BNModAssumption` alone:

* `TypeCorrect` - `Spec => []TypeOK`
* `InvariantCorrect` - `Spec => []IInv`
* `CleanBetweenCorrect` - `Spec => []CleanBetween`
* `StoredInOrderCorrect` - `Spec => []StoredInOrder`

`CleanBetween` speaks of the moments between commands only; `Handover` says for
every moment what keeps it true: the download thread runs only while `main()`
waits, the semaphore is given when that thread is done, and one of the two is the
case as long as `main()` waits. `StoredInOrder` needs what is still on the line:

* `Counters`: the callback stays within its fragment, and the fragment within the
  file, so a block sent is one of the file. Type correctness rests on it.
* `CommandInv`: a command is first in the queue or not there, and from then until
  the first block nothing of an earlier command is on the line or with the host.
* `LineInv`: the blocks on the line are in the order of the file, equal positions
  have equal numbers, and the same holds between the line and the current block
  and between the last block stored and the line.

The numbers need not differ between different positions: after its last try a
block is skipped and the next goes out under the same number. What the proof uses
is the other direction. The host stores a block only if its number follows that of
the last one it stored; so the block is not that one (`NextBNFacts`), nor an older
one (`LineInv`): it is newer than all the host has (`NumStore`).

A file without a gap needs more, as `fget_loss` shows. The hypothesis is `InTurn`: the
host only answers (`~SlowHost`, `MaxNaks <= 1`), the transmit queue has room
(`~TxFault`), and the line spoils fewer units than a block has tries (`MaxFaults <
SendTries`) - the code's limit, not a bound of the model.

* `TurnsCorrect` - `Spec => []PrefixInv`
* `PrefixCorrect` - `Spec => []StoredIsPrefix`
* `DeliveredCorrect` - `Spec => []OkMeansDelivered`

`Turns` says that one block or one reply is under way or none, in each phase; and it
keeps the account: failed tries have each cost a fault (`faults >= try`, and
more while the current one is `Spoiled`). So the last try is not spoiled, no block
is skipped, and the callback is never more than one block from the host (`Level`).
An ACK on the line answers the block or the EOT the device waits for (`Acks`), and
the device comes to the EOT only behind the last block (`Ends`). The host's number
is that of what it has, modulo `BNMod` (`Counted`, with `NextNumber` for the wrap).

`CmdLineProofs` proves, from `TableAssumption` and `TextAssumption` alone:

* `IndexCorrect` - `CmdSpec => []IndexInBuffer`
* `OnlyThisLineCorrect` - `CmdSpec => []OnlyThisLine`
* `RunsTheLineCorrect` - `CmdSpec => []RunsTheLine`
* `EditorCorrect` - `CmdSpec => IsLineEditor`, the refinement

Types and the range of the index need each other, since a byte is stored at the
index (`CmdInv`); `Written` adds that below the index there is no NUL, so that the
line handed over is one. `DispatchedLine` is the argument about the dispatch: a length
that fits the buffer did not wrap, hence the name is no longer than the line.
The specification proved about is the one `Console` runs with the queue in front.

`ConsoleProofs` proves, from the same assumptions and `ConsoleAssumption`:

* `ConsoleRunsCmdLine` - `Spec => CmdSpec`: each step of interrupt, threads, host or
  transfer is a step of the command line or leaves it alone. By it the four
  theorems above hold behind the queues: `ConsoleIndex`, `ConsoleOnlyThisLine`,
  `ConsoleRunsTheLine`, `ConsoleEditor`.
* `ConsoleTypes` - `Spec => []TypeOK`, with the capacities of both queues
* `TransferIsQuiet` - `Spec => QuietTransfer`, an action property
* `ConsoleNoHoles` - `Spec => []NoHoles`

`NoHoles` is about the wire, but a hole would be made in the queue: the invariant
`StreamInv` is about `Queued`, wire and queue in one. It has no holes (`Gapless`), and
what a writer has left of its message goes on where the queued part ends
(`Continues`). A byte sent leaves `Queued` as it is; a byte queued is the next of its
message whatever the other writer did in between; after a timeout the rest is given
up, so what follows is a new message.

`GnssProofs` proves, from `GnssAssumption` alone:

* `TypeCorrect` - `Spec => []TypeOK`, which holds the range of the table's index
* `NmeaCorrect` - `Spec => []NmeaInOrder`
* `FitsCorrect` - `Spec => []AnswerFits`
* `LocationCorrect` - `Spec => []FreshLocation`

`NmeaInOrder` is about what was copied; that it stays in order rests on the table.
`TableInOrder`: the rows up to the count are in the order of the modem.
`CopiedOlder`: what was copied is older than every row still to come, also after the
count was reset and rows were filled anew, because a new sentence is newer than
all. `HeadCopied` says it of the first half of a sentence whose row may be replaced
before the second half.

`SessionProofs` proves, from the assumptions `Session` states of its constants,
for any number of attempts, issues of credentials, commands and reboots:

* `AttachCorrect`, `RegisteredCorrect` - `Spec => []AttachedWasRegistered`. A semaphore
  given, an event pending and the state of the modem each stand for a
  registration since the boot (`AttachInv`).
* `SessionCorrect` - `Spec => []SessionInv`, and from it `SessionTypes`
  (`[]TypeOK`), `HeaderCorrect` (`[]HeaderWhole`) and `UnlockCorrect`
  (`[]UpdateUnlocked`). `HeaderWhole` rests on `Paired`: user and password are the same
  issue's, or the user is too long for its variable, since only then is the password
  not looked at. The encoder takes no such user, so what it takes belongs together
  (`HeaderSet`). No assumption is made about the width of what the server issues or of
  what is parsed by mistake. `UnlockInv` relates `is_unlocked` to the commands since.
* `ModeCorrect` - `Spec => []ModeInForce`, if `~EarlyHost` and `ModeWrites` is within
  `{0, 1}`; section 4 says what happens without. `ModeInv`: in the boot the previous
  mode is 1 and a mode of 1 is in force, later what the last turn saw is.
* `ObjectsCorrect` - `Spec => []ObjectsAgree`, for lists of any length of objects with
  values of any length. Two arguments meet: a buffer that holds a confirmation
  holds that of this request, since it was cleared before (`UploadAgrees`), and the
  reader gets back what the builder was given (`SplitPacket`).
* `TargetCorrect` - `Spec => []UpdateTarget`, for any files. An update that starts and
  had a response has the status, the body and the length of this command's response;
  copied over an older URL in `image_url` it still parses into its own parts
  (`FetchedParts`, by `ParseLine`).

`NoneAssumption` says that `None` is no set of commands, as `NULL` is none. TLC
evaluates every assumption with the values of `MCSession`.

`WireProofs` proves what the parsers compute, for every input:

* `SplitPacket` - splitting the packet of a list of objects whose lengths fit their
  byte gives the first objects of the list, as many as there is room for.
* `ParseLine` - `SipfClientHttpParseURL` takes a line apart into the parts it was made
  of, whatever stands behind it in the buffer.

Both parsers are recursive functions over the positions of the input. The proofs do
not use an induction rule with an operator parameter: a set of numbers that has 0 and
with each its successor has them all, because else there is a least one missing
(`ByNat`, from the library's well-founded minimum). A function found by `CHOOSE` is
pinned down the same way: the explicit form satisfies the equation, so what is chosen
does too, and the two agree at each position (`StartsOf`, `MetOf`). `FlattenIsLast`
does it for the concatenation of the encoded objects.

`SeqFacts` holds the facts about `Head`, `Tail` and `Append` that the others cite.

**Only model-checked:** the five liveness properties (`FputTerminates`,
`FgetTerminates`, `BytesAreTaken`, `AttachEnds`, `FotaEnds`), since fairness and
`ENABLED` are out of the prover's reach; and the five violations. Every other property
of the passing runs is a theorem. Where a theorem has a hypothesis the run has the
same one in its constants.

## 6. Abstractions and what is left out

* The 8-bit sum and the complement of XMODEM are taken to detect every hit.
* A single byte may be lost; a control byte from host to device may become
  unreadable but never another control byte (`junk`), a control byte from the
  device is only lost.
* In `Fput` the receive queue is counted in whole units (the queue has 1024
  bytes, a block 132).
* `Fput` and `Fget` leave out the echo, prompts and the printing of other threads;
  `Console` has them, with a transfer reduced to the bytes it takes.
* The mutex of the broker only as what it makes atomic. That the interrupt handler
  asks for it (`uart_broker.c:45`) is a matter of the kernel's lock rules.
* A byte one past the end of the command buffer is written before the check
  (`cmd.c:59`). What lies there is written again before it is read, as far as the
  declarations go; `BufferFull` says why the write is not seen.
* `tmp1` overrun (`sipf_client_http.c:210`): the outcomes are the refusal of the encoder and a
  fault of main(). That it changes other variables and goes on is left out; the
  buffer lies on the stack of the function, the state modelled here is static.
* A response is data or none; responses that arrive in parts, and the socket and TLS
  calls of the HTTP client, are outcomes of a request.
* Checks of argument syntax and lengths are left out (a refused command answers and
  changes nothing), as are the wording of answers and logs.
* An error event after the end of a FOTA download is not modelled: the library is
  external and gives one.
* Not modelled: LEDs, pins and board files, certificates, build scripts, and the
  life cycle of the download client's thread in the SDK (`sipf_file.c:420`).
* Without a caller: `sipfFileUploadRequest` (upload from a buffer),
  `SipfObjectCreateObjUpPayload` and `SipfObjClientObjUp`.
