------------------------------ MODULE Session -------------------------------
(***************************************************************************)
(* One power cycle after the other of the whole client: boot, attach,       *)
(* authentication, the main loop of src/src/main.c and the commands that    *)
(* talk to the servers.  What ties them together is modelled as the code    *)
(* has it: one response buffer for all requests, one static http_response   *)
(* per request function, the credentials and the Authorization header.      *)
(* A request is one step with every outcome it may have; the transfers of   *)
(* $$FPUT and $$FGET are in modules of their own, the line in Console.      *)
(***************************************************************************)
EXTENDS Attach, Registers, Objects, SipfUrl

CONSTANTS
    None,
    TxLists,        \* object lists the host may send
    RxLists,        \* object lists the server may hand out
    Files,          \* the server's URLs: file -> [protocol, host, path, eol]
    Char,           \* the characters they are written in
    ModeWrites,     \* values the host writes to the mode register
    EarlyHost,      \* does the host type before "+++ Ready +++"
    MaxGrants, MaxCommands, MaxReboots      \* bounds

ASSUME SessionAssumption ==
    /\ ModeWrites \subseteq ByteValues /\ EarlyHost \in BOOLEAN
    /\ MaxGrants \in Nat /\ MaxCommands \in Nat /\ MaxReboots \in Nat

(* Objects are typed values with a tag; the ones the server hands out come  *)
(* with a length byte each.                                                 *)
ASSUME ListsAssumption ==
    /\ TxLists \subseteq Seq(Object) /\ RxLists \subseteq Seq(Object)
    /\ \A objs \in RxLists : \A k \in DOMAIN objs : Len(objs[k].value) < LenMod

(* What the server gives as a URL has the parts of one: each without the    *)
(* delimiter that ends it.  A file is no status of a refusal.               *)
ASSUME FilesAssumption ==
    /\ {":", "/", "newline", "nul", "junk"} \subseteq Char
    /\ "ERR" \notin DOMAIN Files
    /\ \A f \in DOMAIN Files :
          Files[f] \in [protocol : Seq(Char \ {":", "nul"}), host : Seq(Char \ {"/", "nul"}),
                       path : Seq(Char \ {"newline", "nul"}), eol : {<<>>, <<"newline">>}]

(* The commands of the table; F is $$FPUT and $$FGET, UNLOCK? a wrong word. *)
CommandNames == {"W", "R", "TX", "TXRAW", "RX", "F", "UNLOCK", "UNLOCK?", "UPDATE"}

(* None is no set of commands.                                              *)
ASSUME NoneAssumption == \A cmds \in SUBSET CommandNames : None # cmds

VARIABLES
    pc, regs,
    prev,               \* prev_auth_mode
    user, password,     \* user_name and password of main.c
    header,             \* req_auth_header
    buf,                \* httpc_res_buff
    authRes, upRes, urlRes,     \* the static http_res of three functions
    is_unlocked,
    image_url, fota, sem_download_failed,
    auth,               \* how the last authentication ended (history)
    last,               \* the last command, its answer, the server's view
    after,              \* commands since $$UNLOCK, None without one
    issued, commands, reboots   \* counters of the bounds

webvars == <<buf, authRes, upRes, urlRes>>
authvars == <<user, password, header, auth, issued>>
fotavars == <<image_url, fota, sem_download_failed>>
cmdvars == <<is_unlocked, last, after, commands>>
sessionvars == <<pc, regs, prev, webvars, authvars, fotavars, cmdvars, reboots>>
vars == <<sessionvars, attachvars>>

Zero == [kind |-> "zero"]
Text == [kind |-> "text"]
Note(result) == [kind |-> "note", result |-> result]
Objs(result) == [kind |-> "objs", result |-> result]
Creds(g, shape, cut) == [kind |-> "creds", grant |-> g, shape |-> shape, cut |-> cut]
Url(f) == [kind |-> "url", file |-> f]

(* How wide credentials are.  The text user:password fits the encoder's     *)
(* buffer (tmp2, 93 bytes before encoding); it does not, but fits tmp1; it  *)
(* overruns tmp1 as well (128 bytes); or the user or the password does not  *)
(* even fit its variable (255 bytes).                                       *)
Shapes == {"fits", "wide", "over", "longuser", "longpassword"}

(* What a parse may take out of the body of another request.                *)
Junks == {Creds(0, s, TRUE) : s \in Shapes}

NoCommand == [cmd |-> "none", res |-> "none", objs |-> <<>>, peer |-> <<>>, ans |-> None]
NoFota == [file |-> None, answered |-> FALSE, target |-> {}, running |-> FALSE]

Init ==
    /\ AttachInit
    /\ pc = "boot" /\ regs = RegistersReset /\ prev = 1
    /\ user = None /\ password = None /\ header = None /\ auth = "none"
    /\ buf = Zero /\ authRes = None /\ upRes = None /\ urlRes = None
    /\ is_unlocked = FALSE /\ image_url = <<>> /\ fota = NoFota /\ sem_download_failed = 0
    /\ last = NoCommand /\ after = None
    /\ issued = 0 /\ commands = 0 /\ reboots = 0

-----------------------------------------------------------------------------

(* A request returns an error or not, and before that its callback was      *)
(* given a response with data or not.                                       *)
Outcomes(answers) == [ok : BOOLEAN, data : answers \cup {None}]

Refusal == [status |-> "ERR", body |-> Text]

CopiedFirst(res, o) == IF o.data = None \/ res # None THEN res ELSE o.data.status

(* http_response_cb of sipf_auth.c, http_request_cb of sipf_file.c.         *)
Copied(res, o) == IF o.data = None THEN res ELSE o.data.status

(* http_response_cb of sipf_object.c: a status once set stays.              *)
CopiedOnce(res, o) == IF res = None THEN Copied(res, o) ELSE res

Received(before, o) == IF o.data = None THEN before ELSE o.data.body

Issue == IF issued = MaxGrants THEN {}
         ELSE {[status |-> "OK", body |-> Creds(issued + 1, s, FALSE)] : s \in Shapes}

(* What SipfAuthRequest may take for credentials: of a body it has cut      *)
(* before nothing, of another request's body whatever stands there.         *)
Parsed(o) ==
    LET body == Received(buf, o)
    IN  IF ~o.ok \/ Copied(authRes, o) # "OK" \/ body = Zero THEN {None}
        ELSE IF body.kind # "creds" THEN {None} \cup Junks
        ELSE IF body.cut THEN {None} ELSE {body}

(* A text that is too long is in its variable all the same, without an end. *)
Accepted(p) == p # None /\ p.shape \notin {"longuser", "longpassword"}

SipfAuthRequest(o, p) ==
    /\ authRes' = Copied(authRes, o)
    /\ buf' = IF p \in Junks \cup {None} THEN Received(buf, o) ELSE Creds(p.grant, p.shape, TRUE)
    /\ user' = IF p = None THEN user ELSE p
    /\ password' = IF p = None \/ p.shape = "longuser" THEN password ELSE p
    /\ issued' = IF o.data \in {None, Refusal} THEN issued ELSE issued + 1
    /\ UNCHANGED <<upRes, urlRes>>

EncodesAnyWidth(u, p) == TRUE

(* base64_encode refuses what does not fit its buffer, and does so also of  *)
(* a text that overran tmp1 before.                                         *)
Encodes(u, p) == u.shape = "fits" /\ p.shape = "fits"

SipfClientHttpSetAuthInfo ==
    header' = IF Encodes(user', password') THEN [user |-> user', password |-> password'] ELSE header

(* sprintf past the end of tmp1 is undefined: either nothing comes of it,   *)
(* or main() faults and nothing but a reset helps.                          *)
Overruns(u, p) == ~({u.shape, p.shape} \subseteq {"fits", "wide"})
After(place) == IF Overruns(user', password') THEN {place, "fault"} ELSE {place}

How(o, p) == IF ~Accepted(p) \/ ~Encodes(user', password') THEN "failed"
             ELSE IF o.data = None THEN "unanswered" ELSE "ok"

ModeAfter(how) == IF how = "failed" THEN [regs EXCEPT !.mode = 0] ELSE regs

-----------------------------------------------------------------------------

BootAttach == pc = "boot" /\ AttachMain /\ UNCHANGED sessionvars
BootEvents == pc = "boot" /\ (NetworkStatus \/ LteHandler) /\ UNCHANGED sessionvars

(* From here on nobody waits for the semaphore; registrations still come    *)
(* but matter no more, so the variables of the modem are put at rest.       *)
Attached ==
    /\ pc = "boot" /\ apc = "up"
    /\ pc' = "auth" /\ regs' = [regs EXCEPT !.mode = 1]
    /\ try' = 0 /\ lte' = "registered" /\ event' = "none" /\ lte_connected' = 0
    /\ UNCHANGED <<apc, registered, prev, webvars, authvars, fotavars, cmdvars, reboots>>

(* A turn of the loop that ends with the first success, and then the header.*)
(* A mode that a failure cleared is not set again.                          *)
BootAuth ==
    /\ pc = "auth"
    /\ \E o \in Outcomes({Refusal} \cup Issue) : \E p \in Parsed(o) :
        /\ SipfAuthRequest(o, p)
        /\ auth' = How(o, p) /\ regs' = ModeAfter(auth')
        /\ IF Accepted(p)
           THEN SipfClientHttpSetAuthInfo /\ pc' \in After(IF EarlyHost THEN "poll" ELSE "check")
           ELSE UNCHANGED <<header, pc>>
    /\ UNCHANGED <<prev, fotavars, cmdvars, reboots, attachvars>>

CheckLeavingMode ==
    /\ pc \in {"poll", "check"}
    /\ IF regs.mode = 1 /\ prev = 0
       THEN \E o \in Outcomes({Refusal} \cup Issue) : \E p \in Parsed(o) :
            SipfAuthRequest(o, p) /\ SipfClientHttpSetAuthInfo /\ auth' = How(o, p)
       ELSE UNCHANGED <<webvars, authvars>>
    /\ prev' = regs.mode /\ pc' = "poll" /\ last' = NoCommand
    /\ UNCHANGED <<regs, fotavars, is_unlocked, after, commands, reboots, attachvars>>

(* The end of a turn of the main loop.  The header is made from what the    *)
(* variables hold, also after a failure: that of a new user who is too long *)
(* beside the old password, or of a new password that is too long.          *)
Check ==
    /\ pc \in {"poll", "check"}
    /\ IF regs.mode = 1 /\ prev = 0
       THEN \E o \in Outcomes({Refusal} \cup Issue) : \E p \in Parsed(o) :
            /\ SipfAuthRequest(o, p) /\ SipfClientHttpSetAuthInfo
            /\ auth' = How(o, p) /\ regs' = ModeAfter(auth') /\ pc' \in After("poll")
       ELSE pc' = "poll" /\ UNCHANGED <<webvars, authvars, regs>>
    /\ prev' = regs'.mode /\ last' = NoCommand
    /\ UNCHANGED <<fotavars, is_unlocked, after, commands, reboots, attachvars>>

-----------------------------------------------------------------------------

(* CmdParse calls the function of one command.                              *)
Command(cmd, res, objs, peer, ans) ==
    /\ commands' = commands + 1
    /\ last' = [cmd |-> cmd, res |-> res, objs |-> objs, peer |-> peer, ans |-> ans]
    /\ after' = IF cmd = "UNLOCK" THEN {} ELSE IF after = None THEN None ELSE after \cup {cmd}
    /\ UNCHANGED <<prev, authvars, reboots, attachvars>>

Plain(cmd, res) == Command(cmd, res, <<>>, <<>>, None) /\ UNCHANGED <<webvars, fotavars>>

WriteKeepingUnlock(addr, value) ==
    /\ Plain("W", IF CanWrite(addr, value) THEN "OK" ELSE "NG")
    /\ regs' = RegistersWrite(regs, addr, value)
    /\ UNCHANGED <<pc, is_unlocked>>

Write(addr, value) ==
    /\ Plain("W", IF CanWrite(addr, value) THEN "OK" ELSE "NG")
    /\ regs' = RegistersWrite(regs, addr, value)
    /\ is_unlocked' = FALSE
    /\ UNCHANGED pc

Read == Plain("R", "OK") /\ is_unlocked' = FALSE /\ UNCHANGED <<pc, regs>>

Stored == [status |-> "OK", body |-> Note(0)]
UpAnswers == {Stored, [status |-> "OK", body |-> Note(1)], Refusal}

(* A server that gave no answer may have stored the objects.                *)
MayStore(o, objs) ==
    IF o.data = Stored THEN {objs} ELSE IF o.data = None THEN {<<>>, objs} ELSE {<<>>}

(* What a server makes of the packet, of however many objects it has; of    *)
(* wrong lengths nothing.                                                   *)
ServerReads == [objs \in TxLists |->
    IF \A k \in DOMAIN objs : ValueLen(objs[k]) = Len(objs[k].value)
    THEN Split(Packet(objs), Len(Packet(objs))) ELSE <<>>]

UploadOverOldBody(cmd, objs) ==
    \E o \in Outcomes(UpAnswers) : \E peer \in MayStore(o, ServerReads[objs]) :
        /\ buf' = Received(buf, o) /\ upRes' = CopiedOnce(upRes, o)
        /\ Command(cmd, IF o.ok /\ upRes' = "OK" /\ buf' = Note(0) THEN "OK" ELSE "NG",
                   objs, peer, IF o.ok THEN o.data ELSE None)
        /\ UNCHANGED <<pc, regs, authRes, urlRes, fotavars>>

(* SipfObjClientObjUpRaw.  The buffer is cleared before the request.        *)
Upload(cmd, objs) ==
    \E o \in Outcomes(UpAnswers) : \E peer \in MayStore(o, ServerReads[objs]) :
        /\ buf' = Received(Zero, o) /\ upRes' = CopiedOnce(upRes, o)
        /\ Command(cmd, IF o.ok /\ upRes' = "OK" /\ buf' = Note(0) THEN "OK" ELSE "NG",
                   objs, peer, IF o.ok THEN o.data ELSE None)
        /\ UNCHANGED <<pc, regs, authRes, urlRes, fotavars>>

Tx(objs) ==
    /\ IF Accepts(objs) THEN Upload("TX", objs) ELSE Plain("TX", "ILLPARM") /\ UNCHANGED <<pc, regs>>
    /\ UNCHANGED is_unlocked

TxRaw(objs) == Upload("TXRAW", objs) /\ is_unlocked' = FALSE

Reported == [objs \in RxLists |-> Split(Packet(objs), ObjMax)]

(* SipfObjClientObjDown clears its http_res as well.                        *)
Rx ==
    \E objs \in RxLists :
    \E o \in Outcomes({Refusal} \cup {[status |-> "OK", body |-> Objs(r)] : r \in 0 .. 1}) :
        /\ buf' = Received(Zero, o)
        /\ IF o.ok /\ Copied(None, o) = "OK" /\ buf' = Objs(0)
           THEN Command("RX", "OK", Reported[objs], objs, None)
           ELSE Command("RX", "NG", <<>>, <<>>, None)
        /\ UNCHANGED <<pc, regs, is_unlocked, authRes, upRes, urlRes, fotavars>>

-----------------------------------------------------------------------------

UrlOf(f) == Files[f].protocol \o <<":", "/", "/">> \o Files[f].host \o <<"/">> \o Files[f].path \o Files[f].eol

(* sipfFileRequestURL.  Status, length and place of the body are those of   *)
(* the last response: urlRes names the file it was for.                     *)
RequestURL(f, o) ==
    /\ buf' = Received(buf, o) /\ urlRes' = Copied(urlRes, o)
    /\ UNCHANGED <<authRes, upRes>>
UrlAnswers(f) == {Refusal, [status |-> f, body |-> Url(f)]}

(* $$FPUT and $$FGET ask for a URL through the same function.               *)
FileUrl(f) ==
    /\ \E o \in Outcomes(UrlAnswers(f)) : RequestURL(f, o)
    /\ Command("F", "any", <<>>, <<>>, None)
    /\ UNCHANGED <<pc, regs, is_unlocked, fotavars>>

Unlock == Plain("UNLOCK", "OK") /\ is_unlocked' = TRUE /\ UNCHANGED <<pc, regs>>
UnlockWrong == Plain("UNLOCK?", "ILLPARM") /\ is_unlocked' = FALSE /\ UNCHANGED <<pc, regs>>
UpdateLocked == Plain("UPDATE", "NG") /\ ~is_unlocked /\ UNCHANGED <<pc, regs, is_unlocked>>

(* FotaHttpRun up to k_sem_take.  It stays unlocked.                        *)
Update(f) ==
    /\ is_unlocked
    /\ \E o \in Outcomes(UrlAnswers(f)), started \in BOOLEAN :
        LET got == o.ok /\ urlRes' \in DOMAIN Files
            n == Len(UrlOf(urlRes'))
            body == IF buf'.kind = "url" THEN UrlOf(urlRes') ELSE [i \in 1 .. n |-> "junk"]
            url == CopyOver(image_url, body, n)
            target == IF got THEN {t \in ParseURL(url, n) : t.protocol \in {<<"http">>, <<"https">>}} ELSE {}
        IN  /\ RequestURL(f, o)
            /\ image_url' = IF got THEN Cut(url, n) ELSE image_url
            /\ started => target # {}
            /\ Command("UPDATE", IF started THEN "none" ELSE "NG", <<>>, <<>>, None)
            /\ IF started
               THEN /\ pc' = "fota"
                    /\ fota' = [file |-> f, answered |-> o.data # None, target |-> target, running |-> TRUE]
               ELSE UNCHANGED <<pc, fota>>
    /\ UNCHANGED <<regs, is_unlocked, sem_download_failed>>

FotaErrorUnsignalled ==
    /\ fota.running /\ fota' = [fota EXCEPT !.running = FALSE]
    /\ UNCHANGED <<pc, regs, prev, image_url, sem_download_failed, webvars, authvars, cmdvars, reboots, attachvars>>

(* fota_dl_event_handler: an error ends the download.                       *)
FotaError ==
    /\ fota.running /\ fota' = [fota EXCEPT !.running = FALSE]
    /\ sem_download_failed' = 1
    /\ UNCHANGED <<pc, regs, prev, image_url, webvars, authvars, cmdvars, reboots, attachvars>>

FotaReturns ==
    /\ pc = "fota" /\ sem_download_failed = 1
    /\ sem_download_failed' = 0 /\ pc' = "poll"
    /\ last' = [last EXCEPT !.res = "NG"] /\ fota' = NoFota
    /\ UNCHANGED <<regs, prev, image_url, is_unlocked, after, commands, webvars, authvars, reboots, attachvars>>

(* sys_reboot: by WAKE_IN at any time, or the end of a download.            *)
Reboot ==
    /\ reboots < MaxReboots /\ reboots' = reboots + 1
    /\ apc' = "init" /\ try' = 0 /\ lte' = "off" /\ event' = "none"
    /\ lte_connected' = 0 /\ registered' = FALSE
    /\ pc' = "boot" /\ regs' = RegistersReset /\ prev' = 1
    /\ user' = None /\ password' = None /\ header' = None /\ auth' = "none"
    /\ buf' = Zero /\ authRes' = None /\ upRes' = None /\ urlRes' = None
    /\ is_unlocked' = FALSE /\ image_url' = <<>> /\ fota' = NoFota /\ sem_download_failed' = 0
    /\ last' = NoCommand /\ after' = None
    /\ UNCHANGED <<issued, commands>>

FotaFinished == fota.running /\ Reboot
WakeIn == Reboot

-----------------------------------------------------------------------------

HostCommand ==
    /\ pc = "poll" /\ commands < MaxCommands
    /\ \/ \E value \in ModeWrites : Write(ModeAddr, value)
       \/ \E value \in 0 .. Banks : Write(BankAddr, value)
       \/ Read \/ Rx \/ Unlock \/ UnlockWrong \/ UpdateLocked
       \/ \E objs \in TxLists : Tx(objs) \/ TxRaw(objs)
       \/ \E f \in DOMAIN Files : FileUrl(f) \/ Update(f)

Next ==
    \/ BootAttach \/ BootEvents \/ Attached \/ BootAuth \/ Check
    \/ HostCommand
    \/ FotaError \/ FotaReturns \/ FotaFinished \/ WakeIn

(* main() runs; the FOTA library ends every download with an event.         *)
Fairness ==
    /\ WF_vars(BootAttach) /\ WF_vars(FotaReturns)
    /\ WF_vars(FotaError \/ FotaFinished)

Spec == Init /\ [][Next]_vars /\ Fairness

-----------------------------------------------------------------------------

Credentials ==
    [kind : {"creds"}, grant : 1 .. MaxGrants, shape : Shapes, cut : {FALSE}] \cup Junks

(* Types.  The bank is always one with functions: RegistersWrite calls the  *)
(* function of the selected bank without looking.                           *)
TypeOK ==
    /\ AttachTypeOK
    /\ pc \in {"boot", "auth", "check", "poll", "fota", "fault"}
    /\ regs \in [mode : ByteValues, bank : Implemented] /\ prev \in ByteValues
    /\ {user, password} \subseteq Credentials \cup {None}
    /\ header \in [user : Credentials, password : Credentials] \cup {None}
    /\ auth \in {"none", "failed", "unanswered", "ok"}
    /\ {authRes, upRes} \subseteq {None, "OK", "ERR"}
    /\ urlRes \in {None, "ERR"} \cup DOMAIN Files
    /\ is_unlocked \in BOOLEAN /\ sem_download_failed \in 0 .. 1

(* The header never mixes the user of one issue of credentials with the     *)
(* password of another, nor holds one that was cut off at the end of its    *)
(* variable, through retries at boot and switches of the mode, also when    *)
(* credentials of any width come at a re-authentication.  There the code    *)
(* does not retry: a user too long for its variable stays beside the old    *)
(* password and main.c:474 makes the header all the same.  What prevents it *)
(* is only that the encoder's buffer is smaller than the variables          *)
(* (main.c:428-444, 465-479, sipf_auth.c:91-104, sipf_client_http.c:206).   *)
HeaderWhole ==
    header # None =>
        /\ header.user = header.password
        /\ header.user.shape \notin {"longuser", "longpassword"}

(* A mode register of 1 that the main loop has seen means what it says: the *)
(* last authentication succeeded, the header is made of what it left, and   *)
(* that is the latest issue - or the request had no response and an older   *)
(* one was read (main.c:434, 443, 465-480).                                 *)
ModeInForce ==
    pc = "poll" /\ regs.mode = 1 /\ prev = 1 =>
        /\ auth \in {"ok", "unanswered"}
        /\ header = [user |-> user, password |-> password]
        /\ auth = "ok" => user.grant = issued

(* OK to $$TX or $$TXRAW: the server has stored exactly these objects in    *)
(* this request, whatever the buffer and the static response held before,   *)
(* unless a value is too long for its length byte.  OK to $$RX: the objects *)
(* listed are the first ObjMax of those handed out.                         *)
ObjectsAgree ==
    last.res = "OK" =>
        /\ last.cmd \in {"TX", "TXRAW"} =>
              \/ last.peer = last.objs
              \/ \E k \in DOMAIN last.objs : Len(last.objs[k].value) >= LenMod
        /\ last.cmd = "RX" => last.objs = SubSeq(last.peer, 1, Min({ObjMax, Len(last.peer)}))

(* A request answered OK by the server is reported OK, as the comment on    *)
(* the other branch has it (sipf_object.c:190, "not OK").                   *)
OkIsReported == last.ans = Stored => last.res = "OK"

(* An update fetches the host and the path the server gave for the file of  *)
(* this command: not those of an earlier one still in the static response,  *)
(* in the shared buffer or in image_url.  Unless the request had no         *)
(* response, or a URL does not end its line (strncpy adds no NUL).          *)
UpdateTarget ==
    fota.file # None /\ fota.answered /\ Files[fota.file].eol # <<>> =>
        fota.target = {[protocol |-> Files[fota.file].protocol, host |-> Files[fota.file].host,
                        path |-> Files[fota.file].path]}

(* An update runs only if $$UNLOCK was given since the last reboot, and no  *)
(* register command and no $$TXRAW since (cmd_ascii.c:81, 127, 346, 836).   *)
UpdateUnlocked == pc = "fota" => after # None /\ after \cap {"W", "R", "TXRAW", "UNLOCK?"} = {}

(* However a download ends, main() gets out of k_sem_take(K_FOREVER).       *)
FotaEnds == pc = "fota" ~> pc # "fota"
=============================================================================
