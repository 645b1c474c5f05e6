--------------------------- MODULE SessionProofs ----------------------------
(***************************************************************************)
(* The whole client, for any number of registration attempts, issues of     *)
(* credentials, commands and reboots, any object lists and any files of the *)
(* server.                                                                  *)
(***************************************************************************)
EXTENDS Session, WireProofs

-----------------------------------------------------------------------------
(* Attaching to the network.                                                *)

(* A registration the handler or main() has not seen yet is one all the     *)
(* same.                                                                    *)
AttachInv ==
    /\ AttachTypeOK
    /\ lte = "registered" => registered
    /\ event = "REGISTERED" => registered
    /\ lte_connected = 1 => registered
    /\ apc = "up" => registered

(* What any step of the client does to the attachment.                      *)
LEMMA AttachSteps ==
    ASSUME [Next]_vars
    PROVE  \/ AttachNext \/ UNCHANGED attachvars
           \/ Attached \/ Reboot
  <1>1. CASE BootAttach \/ BootEvents
    BY <1>1 DEF BootAttach, BootEvents, AttachNext
  <1>2. CASE Attached \/ FotaFinished \/ WakeIn
    BY <1>2 DEF FotaFinished, WakeIn
  <1>3. CASE BootAuth \/ Check \/ FotaError \/ FotaReturns \/ UNCHANGED vars
    BY <1>3 DEF BootAuth, Check, FotaError, FotaReturns, vars
  <1>4. CASE HostCommand
    BY <1>4 DEF HostCommand, Write, Read, Rx, Unlock, UnlockWrong, UpdateLocked, Tx, TxRaw,
       FileUrl, Update, Upload, Plain, Command
  <1>. QED  BY <1>1, <1>2, <1>3, <1>4 DEF Next

(* Every step keeps the attachment so.                                      *)
LEMMA AttachStep ==
    ASSUME AttachInv, [Next]_vars
    PROVE  AttachInv'
  <1>0. RegisterTry \in Nat \ {0}
    BY AttachAssumption
  <1>. USE <1>0 DEF AttachInv, AttachTypeOK
  <1>1. CASE UNCHANGED attachvars
    BY <1>1 DEF attachvars
  <1>2. CASE Attached
    BY <1>2 DEF Attached
  <1>6. CASE Reboot
    <2>1. registered' \in BOOLEAN
      BY <1>6 DEF Reboot
    <2>2. /\ apc' = "init" /\ try' = 0 /\ lte' = "off" /\ event' = "none"
          /\ lte_connected' = 0
      BY <1>6 DEF Reboot
    <2>. QED  BY <2>1, <2>2
  <1>3. CASE AttachMain
    BY <1>3 DEF AttachMain, ModemInit, Connect, Connected, RegisterTimeout, Offline
  <1>4. CASE NetworkStatus
    <2>1. CASE event' = "REGISTERED"
      <3>1. /\ lte' = "registered" /\ registered' = TRUE
            /\ UNCHANGED <<apc, try, lte_connected>>
        BY <1>4, <2>1 DEF NetworkStatus
      <3>2. registered' \in BOOLEAN
        BY <3>1
      <3>. QED  BY <2>1, <3>1, <3>2
    <2>2. CASE event' = "SEARCHING"
      <3>1. /\ lte' = "searching" /\ UNCHANGED registered
            /\ UNCHANGED <<apc, try, lte_connected>>
        BY <1>4, <2>2 DEF NetworkStatus
      <3>. QED  BY <2>2, <3>1
    <2>. QED  BY <1>4, <2>1, <2>2 DEF NetworkStatus
  <1>5. CASE LteHandler
    BY <1>5 DEF LteHandler
  <1>. QED  BY <1>1, <1>2, <1>3, <1>4, <1>5, <1>6, AttachSteps DEF AttachNext

(* The attachment is right from the boot on.                                *)
THEOREM AttachCorrect == Spec => []AttachInv
  <1>1. Init => AttachInv
    <2>. SUFFICES ASSUME Init PROVE AttachInv
      OBVIOUS
    <2>1. registered \in BOOLEAN
      BY DEF Init, AttachInit
    <2>2. /\ apc = "init" /\ try = 0 /\ lte = "off" /\ event = "none"
          /\ lte_connected = 0
      BY DEF Init, AttachInit
    <2>. QED  BY <2>1, <2>2, AttachAssumption DEF AttachInv, AttachTypeOK
  <1>. QED  BY <1>1, AttachStep, PTL DEF Spec

(* Whatever the modem reports and however late its events are handled,      *)
(* through any number of attempts and reboots, main() goes on only after    *)
(* the modem has registered since the boot.                                 *)
THEOREM RegisteredCorrect == Spec => []AttachedWasRegistered
  <1>1. AttachInv => AttachedWasRegistered
    BY DEF AttachInv, AttachedWasRegistered
  <1>. QED  BY <1>1, AttachCorrect, PTL

-----------------------------------------------------------------------------
(* The commands.                                                            *)

(* A response that is no issue of credentials leaves none in the buffer.    *)
NoNewCreds == buf'.kind = "creds" => buf' = buf

UpTypes ==
    /\ upRes \in {None, "OK", "ERR"}
    /\ urlRes \in {None, "ERR"} \cup DOMAIN Files

(* What the commands that ask the servers for something do to the shared    *)
(* response buffer and the static statuses.                                 *)
LEMMA UploadFacts ==
    ASSUME UpTypes, NEW cmd, NEW objs, Upload(cmd, objs)
    PROVE  NoNewCreds /\ UpTypes' /\ UNCHANGED <<pc, regs, authRes, fotavars>>
  <1>1. PICK o \in Outcomes(UpAnswers) :
            /\ buf' = Received(Zero, o) /\ upRes' = CopiedOnce(upRes, o)
            /\ UNCHANGED <<pc, regs, authRes, urlRes, fotavars>>
    BY DEF Upload
  <1>2. o.data = None \/ o.data \in UpAnswers
    BY DEF Outcomes
  <1>3. NoNewCreds
    BY <1>1, <1>2 DEF NoNewCreds, Received, UpAnswers, Stored, Refusal, Zero, Text, Note
  <1>4. upRes' \in {None, "OK", "ERR"}
    BY <1>1, <1>2 DEF UpTypes, CopiedOnce, Copied, UpAnswers, Stored, Refusal
  <1>. QED  BY <1>1, <1>3, <1>4 DEF UpTypes

(* Neither does a request for a URL.                                        *)
LEMMA RequestURLFacts ==
    ASSUME UpTypes, NEW f \in DOMAIN Files, NEW o \in Outcomes(UrlAnswers(f)), RequestURL(f, o)
    PROVE  NoNewCreds /\ UpTypes' /\ UNCHANGED authRes
  <1>1. o.data = None \/ o.data = Refusal \/ o.data = [status |-> f, body |-> Url(f)]
    BY DEF Outcomes, UrlAnswers
  <1>2. NoNewCreds
    BY <1>1 DEF NoNewCreds, RequestURL, Received, Refusal, Text, Url
  <1>3. urlRes' \in {None, "ERR"} \cup DOMAIN Files
    BY <1>1 DEF UpTypes, RequestURL, Copied, Refusal
  <1>. QED  BY <1>2, <1>3 DEF UpTypes, RequestURL

(* Commands that end the validity of $$UNLOCK.                              *)
Locking == {"W", "R", "TXRAW", "UNLOCK?"}

(* Unlocked means: $$UNLOCK came, and no command that locks again since.    *)
UnlockInv ==
    /\ after = None \/ after \in SUBSET CommandNames
    /\ is_unlocked => after # None /\ after \cap Locking = {}
    /\ pc = "fota" => is_unlocked

(* The place of main(), the registers and the lock.                         *)
PlaceTypes ==
    /\ pc \in {"boot", "auth", "check", "poll", "fota", "fault"}
    /\ regs \in [mode : ByteValues, bank : Implemented]
    /\ is_unlocked \in BOOLEAN

(* A write to a register keeps the file in its type, and changes the mode   *)
(* at most to what the host wrote.                                          *)
LEMMA WriteFacts ==
    ASSUME PlaceTypes, NEW addr \in {ModeAddr, BankAddr}, NEW value \in ByteValues,
           Write(addr, value)
    PROVE  /\ regs' \in [mode : ByteValues, bank : Implemented]
           /\ regs'.mode = regs.mode \/ (addr = ModeAddr /\ regs'.mode = value)
           /\ is_unlocked' = FALSE /\ UNCHANGED <<pc, webvars, fotavars>>
  <1>1. regs' = RegistersWrite(regs, addr, value)
    BY DEF Write
  <1>2. regs \in [mode : ByteValues, bank : Implemented]
    BY DEF PlaceTypes
  <1>3. CanWrite(addr, value) /\ addr = BankAddr => value \in Implemented
    BY DEF CanWrite, CanSelect, BankAddr
  <1>4. ModeAddr # BankAddr
    BY DEF ModeAddr, BankAddr
  <1>5. CASE ~CanWrite(addr, value)
    BY <1>1, <1>2, <1>5 DEF RegistersWrite, Write, Plain
  <1>6. CASE CanWrite(addr, value) /\ addr = ModeAddr
    BY <1>1, <1>2, <1>6 DEF RegistersWrite, Write, Plain
  <1>7. CASE CanWrite(addr, value) /\ addr = BankAddr
    BY <1>1, <1>2, <1>3, <1>4, <1>7 DEF RegistersWrite, Write, Plain
  <1>. QED  BY <1>5, <1>6, <1>7

(* $$UNLOCK begins a new count of commands; any other command is added.     *)
LEMMA AfterCommand ==
    ASSUME UnlockInv, NEW cmd \in CommandNames, NEW res, NEW objs, NEW peer, NEW ans,
           Command(cmd, res, objs, peer, ans)
    PROVE  /\ after' = None \/ after' \in SUBSET CommandNames
           /\ cmd = "UNLOCK" => after' # None /\ after' \cap Locking = {}
           /\ is_unlocked /\ cmd \notin Locking => after' # None /\ after' \cap Locking = {}
  <1>1. \A cmds \in SUBSET CommandNames : None # cmds
    BY NoneAssumption
  <1>2. CASE cmd = "UNLOCK"
    <2>1. after' = {}
      BY <1>2 DEF Command
    <2>. QED  BY <1>1, <1>2, <2>1 DEF Locking
  <1>3. CASE cmd # "UNLOCK" /\ after = None
    BY <1>3 DEF Command, UnlockInv
  <1>4. CASE cmd # "UNLOCK" /\ after # None
    <2>1. after' = after \cup {cmd} /\ after' \in SUBSET CommandNames
      BY <1>4 DEF Command, UnlockInv
    <2>2. is_unlocked /\ cmd \notin Locking => after' \cap Locking = {}
      BY <2>1 DEF UnlockInv
    <2>. QED  BY <1>1, <1>4, <2>1, <2>2
  <1>. QED  BY <1>2, <1>3, <1>4

(* What a command may do: it never touches the credentials, moves main() at *)
(* most into an update, and that only when unlocked.                        *)
LEMMA CommandFacts ==
    ASSUME HostCommand, PlaceTypes, UpTypes, UnlockInv
    PROVE  /\ UNCHANGED <<prev, authvars, reboots, attachvars, authRes, sem_download_failed>>
           /\ pc = "poll" /\ pc' \in {"poll", "fota"}
           /\ regs' \in [mode : ByteValues, bank : Implemented]
           /\ regs'.mode = regs.mode \/ regs'.mode \in ModeWrites
           /\ is_unlocked' \in BOOLEAN
           /\ NoNewCreds /\ UpTypes' /\ UnlockInv'
  <1>. DEFINE Facts ==
           /\ UNCHANGED <<prev, authvars, reboots, attachvars, authRes, sem_download_failed>>
           /\ pc' \in {"poll", "fota"}
           /\ regs' \in [mode : ByteValues, bank : Implemented]
           /\ regs'.mode = regs.mode \/ regs'.mode \in ModeWrites
           /\ is_unlocked' \in BOOLEAN
           /\ NoNewCreds /\ UpTypes' /\ UnlockInv'
  <1>. SUFFICES Facts
    BY DEF HostCommand
  <1>0. /\ pc = "poll" /\ pc # "fota"
        /\ regs \in [mode : ByteValues, bank : Implemented] /\ is_unlocked \in BOOLEAN
    BY DEF HostCommand, PlaceTypes
  <1>1. ASSUME NEW addr \in {ModeAddr, BankAddr}, NEW value \in ByteValues, Write(addr, value),
               addr = ModeAddr => value \in ModeWrites
        PROVE  Facts
    <2>1. \E res : Command("W", res, <<>>, <<>>, None)
      BY <1>1 DEF Write, Plain
    <2>2. after' = None \/ after' \in SUBSET CommandNames
      BY <2>1, AfterCommand DEF CommandNames
    <2>3. UNCHANGED <<prev, authvars, reboots, attachvars>>
      BY <2>1 DEF Command
    <2>. QED
      BY <1>0, <1>1, <2>2, <2>3, WriteFacts DEF webvars, fotavars, NoNewCreds, UpTypes, UnlockInv
  <1>2. CASE Read \/ Unlock \/ UnlockWrong \/ UpdateLocked
    <2>1. PICK cmd \in {"R", "UNLOCK", "UNLOCK?", "UPDATE"}, res \in {"OK", "NG", "ILLPARM"} :
             /\ Command(cmd, res, <<>>, <<>>, None) /\ UNCHANGED <<webvars, fotavars, pc, regs>>
             /\ \/ is_unlocked' = FALSE
                \/ cmd = "UNLOCK" /\ is_unlocked' = TRUE
                \/ cmd = "UPDATE" /\ ~is_unlocked /\ is_unlocked' = is_unlocked
      BY <1>2 DEF Read, Unlock, UnlockWrong, UpdateLocked, Plain
    <2>2. /\ after' = None \/ after' \in SUBSET CommandNames
          /\ cmd = "UNLOCK" => after' # None /\ after' \cap Locking = {}
      BY <2>1, AfterCommand DEF CommandNames
    <2>3. UNCHANGED <<prev, authvars, reboots, attachvars>>
      BY <2>1 DEF Command
    <2>4. is_unlocked' \in BOOLEAN
      BY <1>0, <2>1
    <2>5. UnlockInv'
      BY <1>0, <2>1, <2>2 DEF UnlockInv
    <2>. QED
      BY <1>0, <2>1, <2>3, <2>4, <2>5 DEF webvars, fotavars, NoNewCreds, UpTypes
  <1>3. ASSUME NEW objs \in TxLists, Tx(objs) \/ TxRaw(objs) PROVE Facts
    <2>1. PICK cmd \in {"TX", "TXRAW"} :
             /\ \E res, list, peer, ans : Command(cmd, res, list, peer, ans)
             /\ is_unlocked' = FALSE \/ (cmd = "TX" /\ is_unlocked' = is_unlocked)
      BY <1>3 DEF Tx, TxRaw, Upload, Plain
    <2>2. NoNewCreds /\ UpTypes' /\ UNCHANGED <<pc, regs, authRes, fotavars>>
      BY <1>3, UploadFacts DEF Tx, TxRaw, Plain, webvars, fotavars, UpTypes, NoNewCreds
    <2>3. /\ after' = None \/ after' \in SUBSET CommandNames
          /\ is_unlocked /\ cmd \notin Locking => after' # None /\ after' \cap Locking = {}
      BY <2>1, AfterCommand DEF CommandNames
    <2>4. UNCHANGED <<prev, authvars, reboots, attachvars>>
      BY <2>1 DEF Command
    <2>5. is_unlocked' \in BOOLEAN
      BY <1>0, <2>1
    <2>6. UnlockInv'
      BY <1>0, <2>1, <2>2, <2>3 DEF UnlockInv, Locking
    <2>. QED  BY <1>0, <2>2, <2>4, <2>5, <2>6 DEF fotavars
  <1>4. CASE Rx
    <2>1. PICK o \in Outcomes({Refusal} \cup {[status |-> "OK", body |-> Objs(r)] : r \in 0 .. 1}) :
             /\ buf' = Received(Zero, o)
             /\ \E res, objs, peer : Command("RX", res, objs, peer, None)
             /\ UNCHANGED <<pc, regs, is_unlocked, authRes, upRes, urlRes, fotavars>>
      BY <1>4 DEF Rx
    <2>2. o.data = None \/ o.data = Refusal \/ \E r \in 0 .. 1 : o.data = [status |-> "OK", body |-> Objs(r)]
      BY DEF Outcomes
    <2>3. NoNewCreds
      BY <2>1, <2>2 DEF NoNewCreds, Received, Refusal, Text, Zero, Objs
    <2>4. /\ after' = None \/ after' \in SUBSET CommandNames
          /\ is_unlocked => after' # None /\ after' \cap Locking = {}
      BY <2>1, AfterCommand DEF CommandNames, Locking
    <2>5. UNCHANGED <<prev, authvars, reboots, attachvars>>
      BY <2>1 DEF Command
    <2>6. UnlockInv'
      BY <1>0, <2>1, <2>4 DEF UnlockInv
    <2>. QED  BY <1>0, <2>1, <2>3, <2>5, <2>6 DEF fotavars, UpTypes
  <1>5. ASSUME NEW f \in DOMAIN Files, FileUrl(f) PROVE Facts
    <2>1. PICK o \in Outcomes(UrlAnswers(f)) : RequestURL(f, o)
      BY <1>5 DEF FileUrl
    <2>2. NoNewCreds /\ UpTypes' /\ UNCHANGED authRes
      BY <2>1, RequestURLFacts
    <2>3. Command("F", "any", <<>>, <<>>, None) /\ UNCHANGED <<pc, regs, is_unlocked, fotavars>>
      BY <1>5 DEF FileUrl
    <2>4. /\ after' = None \/ after' \in SUBSET CommandNames
          /\ is_unlocked => after' # None /\ after' \cap Locking = {}
      BY <2>3, AfterCommand DEF CommandNames, Locking
    <2>5. UNCHANGED <<prev, authvars, reboots, attachvars>>
      BY <2>3 DEF Command
    <2>6. UnlockInv'
      BY <1>0, <2>3, <2>4 DEF UnlockInv
    <2>. QED  BY <1>0, <2>2, <2>3, <2>5, <2>6 DEF fotavars
  <1>6. ASSUME NEW f \in DOMAIN Files, Update(f) PROVE Facts
    <2>1. PICK o \in Outcomes(UrlAnswers(f)) : RequestURL(f, o)
      BY <1>6 DEF Update
    <2>2. NoNewCreds /\ UpTypes' /\ UNCHANGED authRes
      BY <2>1, RequestURLFacts
    <2>3. /\ is_unlocked /\ \E res : Command("UPDATE", res, <<>>, <<>>, None)
          /\ pc' \in {"fota", pc} /\ UNCHANGED <<regs, is_unlocked, sem_download_failed>>
      BY <1>6 DEF Update
    <2>4. /\ after' = None \/ after' \in SUBSET CommandNames
          /\ after' # None /\ after' \cap Locking = {}
      BY <2>3, AfterCommand DEF CommandNames, Locking
    <2>5. UNCHANGED <<prev, authvars, reboots, attachvars>>
      BY <2>3 DEF Command
    <2>6. UnlockInv'
      BY <1>0, <2>3, <2>4 DEF UnlockInv
    <2>. QED  BY <1>0, <2>2, <2>3, <2>5, <2>6
  <1>7. ModeWrites \subseteq ByteValues /\ 0 .. Banks \subseteq ByteValues
          /\ ModeAddr # BankAddr
    BY SessionAssumption DEF Banks, ByteValues, ModeAddr, BankAddr
  <1>8. Facts
    <2>. HIDE DEF Facts
    <2>1. CASE \E value \in ModeWrites : Write(ModeAddr, value)
      BY <1>1, <1>7, <2>1
    <2>2. CASE \E value \in 0 .. Banks : Write(BankAddr, value)
      BY <1>1, <1>7, <2>2
    <2>3. CASE \E objs \in TxLists : Tx(objs) \/ TxRaw(objs)
      BY <1>3, <2>3
    <2>4. CASE \E f \in DOMAIN Files : FileUrl(f) \/ Update(f)
      BY <1>5, <1>6, <2>4
    <2>. QED  BY <1>2, <1>4, <2>1, <2>2, <2>3, <2>4 DEF HostCommand
  <1>. QED  BY <1>8

-----------------------------------------------------------------------------
(* The credentials.                                                         *)

(* Credentials as the server wrote them, or cut by an earlier parse.        *)
IsCreds(body) ==
    \E g \in 1 .. MaxGrants, s \in Shapes, c \in BOOLEAN : body = Creds(g, s, c)

CredsTypes ==
    /\ issued \in 0 .. MaxGrants
    /\ user \in Credentials \cup {None} /\ password \in Credentials \cup {None}
    /\ authRes \in {None, "OK", "ERR"}
    /\ buf.kind = "creds" => IsCreds(buf)

(* User and password belong together, or the user is too long and the       *)
(* password that came with it was not looked at.                            *)
Paired == user = password \/ (user # None /\ user.shape = "longuser")

(* Credentials by their fields.                                             *)
LEMMA CredsFields ==
    ASSUME NEW body, IsCreds(body)
    PROVE  /\ body.kind = "creds" /\ body.shape \in Shapes
           /\ ~body.cut => body \in Credentials
           /\ IsCreds(Creds(body.grant, body.shape, TRUE))
           /\ Creds(body.grant, body.shape, TRUE).cut
  <1>1. PICK g \in 1 .. MaxGrants, s \in Shapes, c \in BOOLEAN : body = Creds(g, s, c)
    BY DEF IsCreds
  <1>2. body.kind = "creds" /\ body.grant = g /\ body.shape = s /\ body.cut = c
    BY <1>1 DEF Creds
  <1>3. Creds(body.grant, body.shape, TRUE) = Creds(g, s, TRUE)
    BY <1>2
  <1>4. IsCreds(Creds(g, s, TRUE)) /\ Creds(g, s, TRUE).cut
    BY DEF IsCreds, Creds
  <1>5. ~c => Creds(g, s, c) \in Credentials
    <2>1. Creds(g, s, FALSE) \in Credentials
      BY DEF Credentials, Creds
    <2>2. ~c => c = FALSE
      OBVIOUS
    <2>. QED  BY <2>1, <2>2
  <1>. QED  BY <1>1, <1>2, <1>3, <1>4, <1>5

(* The response to a request for credentials.                               *)
LEMMA AuthOutcome ==
    ASSUME CredsTypes, NEW o \in Outcomes({Refusal} \cup Issue)
    PROVE  \/ o.data = None
           \/ o.data = Refusal
           \/ /\ o.data # None /\ o.data.status = "OK" /\ o.data # Refusal
              /\ IsCreds(o.data.body)
              /\ o.data.body.grant = issued + 1 /\ issued + 1 \in 1 .. MaxGrants
  <1>. SUFFICES ASSUME o.data # None, o.data # Refusal
                PROVE  /\ o.data.status = "OK"
                       /\ IsCreds(o.data.body)
                       /\ o.data.body.grant = issued + 1 /\ issued + 1 \in 1 .. MaxGrants
    OBVIOUS
  <1>1. o.data \in Issue
    BY DEF Outcomes
  <1>2. issued # MaxGrants /\ \E s \in Shapes :
           o.data = [status |-> "OK", body |-> Creds(issued + 1, s, FALSE)]
    BY <1>1 DEF Issue
  <1>3. PICK s \in Shapes : o.data = [status |-> "OK", body |-> Creds(issued + 1, s, FALSE)]
    BY <1>2
  <1>4. issued + 1 \in 1 .. MaxGrants
    BY <1>2, SessionAssumption DEF CredsTypes
  <1>5. IsCreds(Creds(issued + 1, s, FALSE))
    BY <1>4 DEF IsCreds
  <1>6. Creds(issued + 1, s, FALSE).grant = issued + 1
    BY DEF Creds
  <1>7. o.data.status = "OK" /\ o.data.body = Creds(issued + 1, s, FALSE)
    BY <1>3
  <1>. QED  BY <1>4, <1>5, <1>6, <1>7

(* What the parse may take, and from where.                                 *)
LEMMA ParsedFacts ==
    ASSUME CredsTypes, NEW o \in Outcomes({Refusal} \cup Issue), NEW p \in Parsed(o)
    PROVE  \/ p = None
           \/ p \in Junks /\ Received(buf, o).kind # "creds" /\ o.data = None
           \/ /\ IsCreds(p) /\ ~p.cut /\ p \in Credentials
              /\ \/ o.data = None /\ p = buf
                 \/ o.data # None /\ o.data # Refusal /\ p.grant = issued + 1
  <1>. SUFFICES ASSUME p # None
                PROVE  \/ p \in Junks /\ Received(buf, o).kind # "creds" /\ o.data = None
                       \/ /\ IsCreds(p) /\ ~p.cut /\ p \in Credentials
                          /\ \/ o.data = None /\ p = buf
                             \/ o.data # None /\ o.data # Refusal /\ p.grant = issued + 1
    OBVIOUS
  <1>. DEFINE body == Received(buf, o)
  <1>1. /\ Copied(authRes, o) = "OK"
        /\ \/ body.kind # "creds" /\ p \in Junks
           \/ body.kind = "creds" /\ ~body.cut /\ p = body
    BY DEF Parsed
  <1>2. o.data # Refusal \/ o.data = None
    BY <1>1 DEF Copied, Refusal
  <1>3. CASE o.data = None
    <2>1. body = buf
      BY <1>3 DEF Received
    <2>. HIDE DEF body
    <2>2. CASE body.kind # "creds" /\ p \in Junks
      BY <1>3, <2>2 DEF body
    <2>3. CASE body.kind = "creds" /\ ~body.cut /\ p = body
      BY <1>3, <2>1, <2>3, CredsFields DEF CredsTypes
    <2>. QED  BY <1>1, <2>2, <2>3 DEF body
  <1>4. CASE o.data # None
    <2>1. body = o.data.body /\ o.data # Refusal
      BY <1>2, <1>4 DEF Received
    <2>2. IsCreds(o.data.body) /\ o.data.body.grant = issued + 1
      BY <1>4, <2>1, AuthOutcome
    <2>3. body.kind = "creds"
      BY <2>1, <2>2, CredsFields
    <2>. QED  BY <1>1, <1>4, <2>1, <2>2, <2>3, CredsFields
  <1>. QED  BY <1>3, <1>4

(* Where an authentication leaves user and password: a pair as it came, of  *)
(* whatever width, a new user who is too long beside the old password, or   *)
(* the old pair.                                                            *)
LEMMA AuthFacts ==
    ASSUME CredsTypes, NEW o \in Outcomes({Refusal} \cup Issue), NEW p \in Parsed(o),
           SipfAuthRequest(o, p)
    PROVE  /\ CredsTypes' /\ UNCHANGED <<upRes, urlRes>>
           /\ p = None => UNCHANGED <<user, password>>
           /\ p # None => p \in Credentials /\ user' = p
           /\ Paired => Paired'
           /\ Accepted(p) /\ o.data # None => p.grant = issued'
  <1>. DEFINE body == Received(buf, o)
  <1>1. \/ p = None
        \/ p \in Junks /\ body.kind # "creds" /\ o.data = None
        \/ /\ IsCreds(p) /\ ~p.cut /\ p \in Credentials
           /\ \/ o.data = None /\ p = buf
              \/ o.data # None /\ o.data # Refusal /\ p.grant = issued + 1
    BY ParsedFacts
  <1>2. Junks \subseteq Credentials
    BY DEF Credentials
  <1>3. p # None => p \in Credentials
    BY <1>1, <1>2
  <1>4. /\ user' = IF p = None THEN user ELSE p
        /\ password' = IF p = None \/ p.shape = "longuser" THEN password ELSE p
        /\ UNCHANGED <<upRes, urlRes>>
        /\ authRes' = Copied(authRes, o)
        /\ buf' = IF p \in Junks \cup {None} THEN body ELSE Creds(p.grant, p.shape, TRUE)
        /\ issued' = IF o.data \in {None, Refusal} THEN issued ELSE issued + 1
    BY DEF SipfAuthRequest
  <1>5. body.kind = "creds" => IsCreds(body)
    <2>1. CASE o.data = None
      BY <2>1 DEF Received, CredsTypes
    <2>2. CASE o.data # None /\ o.data = Refusal
      BY <2>2 DEF Received, Refusal, Text
    <2>3. CASE o.data # None /\ o.data # Refusal
      BY <2>3, AuthOutcome DEF Received
    <2>. QED  BY <2>1, <2>2, <2>3
  <1>a. \/ o.data = None
        \/ o.data = Refusal
        \/ /\ o.data # None /\ o.data # Refusal /\ o.data.status = "OK"
           /\ issued + 1 \in 1 .. MaxGrants
    BY AuthOutcome
  <1>6. issued' \in 0 .. MaxGrants
    BY <1>4, <1>a DEF CredsTypes
  <1>7. authRes' \in {None, "OK", "ERR"}
    BY <1>4, <1>a DEF CredsTypes, Copied, Refusal
  <1>. HIDE DEF body
  <1>8. buf'.kind = "creds" => IsCreds(buf')
    <2>1. CASE p \in Junks \cup {None}
      BY <1>4, <1>5, <2>1
    <2>2. CASE p \notin Junks \cup {None}
      <3>1. IsCreds(p)
        BY <1>1, <2>2
      <3>. QED  BY <1>4, <2>2, <3>1, CredsFields
    <2>. QED  BY <2>1, <2>2
  <1>9. CredsTypes'
    <2>1. user' \in Credentials \cup {None} /\ password' \in Credentials \cup {None}
      BY <1>3, <1>4 DEF CredsTypes
    <2>. QED  BY <1>6, <1>7, <1>8, <2>1 DEF CredsTypes
  <1>10. Paired => Paired'
    BY <1>4 DEF Paired
  <1>11. Accepted(p) /\ o.data # None => p.grant = issued'
    <2>. SUFFICES ASSUME p # None, o.data # None PROVE p.grant = issued'
      BY DEF Accepted
    <2>. QED  BY <1>1, <1>4
  <1>. QED  BY <1>3, <1>4, <1>9, <1>10, <1>11

-----------------------------------------------------------------------------
(* The invariant of the client.                                             *)

(* Once the boot is over there are credentials.                             *)
Running == pc \in {"check", "poll", "fota"} => user # None

StateTypes ==
    /\ PlaceTypes /\ UpTypes /\ CredsTypes
    /\ prev \in ByteValues
    /\ header \in [user : Credentials, password : Credentials] \cup {None}
    /\ auth \in {"none", "failed", "unanswered", "ok"}
    /\ sem_download_failed \in 0 .. 1

SessionInv == StateTypes /\ UnlockInv /\ Running /\ Paired /\ HeaderWhole

(* What SipfClientHttpSetAuthInfo makes the header of belongs together: it  *)
(* is called with a user who is too long beside an old password, but the    *)
(* encoder has no room for such a user.                                     *)
LEMMA HeaderSet ==
    ASSUME SipfClientHttpSetAuthInfo, HeaderWhole, Paired',
           header \in [user : Credentials, password : Credentials] \cup {None},
           user' \in Credentials
    PROVE  /\ HeaderWhole'
           /\ header' \in [user : Credentials, password : Credentials] \cup {None}
  <1>1. \/ header' = header
        \/ /\ header' = [user |-> user', password |-> password']
           /\ Encodes(user', password')
    BY DEF SipfClientHttpSetAuthInfo
  <1>2. CASE header' = header
    BY <1>2 DEF HeaderWhole
  <1>3. CASE header' = [user |-> user', password |-> password'] /\ Encodes(user', password')
    <2>1. user'.shape = "fits" /\ user' = password'
      BY <1>3 DEF Encodes, Paired
    <2>. QED  BY <1>3, <2>1 DEF HeaderWhole
  <1>. QED  BY <1>1, <1>2, <1>3

(* A change of the mode register by a failed authentication.                *)
LEMMA ModeAfterType ==
    ASSUME regs \in [mode : ByteValues, bank : Implemented], NEW how
    PROVE  /\ ModeAfter(how) \in [mode : ByteValues, bank : Implemented]
           /\ ModeAfter(how).mode \in {0, regs.mode}
           /\ how = "failed" => ModeAfter(how).mode = 0
  BY DEF ModeAfter, ByteValues

(* An authentication before the main loop.                                  *)
LEMMA BootAuthStep ==
    ASSUME SessionInv, BootAuth
    PROVE  SessionInv'
  <1>1. PICK o \in Outcomes({Refusal} \cup Issue) : \E p \in Parsed(o) :
        /\ SipfAuthRequest(o, p)
        /\ auth' = How(o, p) /\ regs' = ModeAfter(auth')
        /\ IF Accepted(p)
           THEN SipfClientHttpSetAuthInfo /\ pc' \in After(IF EarlyHost THEN "poll" ELSE "check")
           ELSE UNCHANGED <<header, pc>>
    BY DEF BootAuth
  <1>2. PICK p \in Parsed(o) :
        /\ SipfAuthRequest(o, p)
        /\ auth' = How(o, p) /\ regs' = ModeAfter(auth')
        /\ IF Accepted(p)
           THEN SipfClientHttpSetAuthInfo /\ pc' \in After(IF EarlyHost THEN "poll" ELSE "check")
           ELSE UNCHANGED <<header, pc>>
    BY <1>1
  <1>3. /\ pc = "auth"
        /\ UNCHANGED <<prev, sem_download_failed, is_unlocked, after>>
    BY DEF BootAuth, fotavars, cmdvars
  <1>4. /\ CredsTypes' /\ UNCHANGED <<upRes, urlRes>>
        /\ p # None => p \in Credentials /\ user' = p
        /\ Paired'
    BY <1>2, AuthFacts DEF SessionInv, StateTypes
  <1>5. regs' \in [mode : ByteValues, bank : Implemented]
    BY <1>2, ModeAfterType DEF SessionInv, StateTypes, PlaceTypes
  <1>6. auth' \in {"none", "failed", "unanswered", "ok"}
    BY <1>2 DEF How
  <1>7. CASE Accepted(p)
    <2>1. user' \in Credentials /\ user' # None
      BY <1>4, <1>7 DEF Accepted
    <2>2. /\ HeaderWhole'
          /\ header' \in [user : Credentials, password : Credentials] \cup {None}
      BY <1>2, <1>4, <1>7, <2>1, HeaderSet DEF SessionInv, StateTypes
    <2>3. pc' \in {"poll", "check", "fault"}
      BY <1>2, <1>7 DEF After
    <2>. QED
      BY <1>3, <1>4, <1>5, <1>6, <2>1, <2>2, <2>3
      DEF SessionInv, StateTypes, PlaceTypes, UpTypes, UnlockInv, Running
  <1>8. CASE ~Accepted(p)
    <2>1. UNCHANGED <<header, pc>>
      BY <1>2, <1>8
    <2>2. HeaderWhole'
      BY <2>1 DEF SessionInv, HeaderWhole
    <2>. QED
      BY <1>3, <1>4, <1>5, <1>6, <2>1, <2>2
      DEF SessionInv, StateTypes, PlaceTypes, UpTypes, UnlockInv, Running
  <1>. QED  BY <1>7, <1>8

(* The end of a turn of the main loop, with or without an authentication.   *)
LEMMA CheckStep ==
    ASSUME SessionInv, Check
    PROVE  SessionInv'
  <1>1. /\ pc \in {"poll", "check"} /\ pc' \in {"poll", "fault"} /\ prev' = regs'.mode
        /\ UNCHANGED <<sem_download_failed, is_unlocked, after>>
    BY DEF Check, After, fotavars
  <1>2. user \in Credentials /\ user # None
    BY <1>1 DEF SessionInv, StateTypes, CredsTypes, Running
  <1>3. CASE regs.mode = 1 /\ prev = 0
    <2>1. PICK o \in Outcomes({Refusal} \cup Issue) : \E p \in Parsed(o) :
              /\ SipfAuthRequest(o, p) /\ SipfClientHttpSetAuthInfo
              /\ auth' = How(o, p) /\ regs' = ModeAfter(auth') /\ pc' \in After("poll")
      BY <1>3 DEF Check
    <2>2. PICK p \in Parsed(o) :
              /\ SipfAuthRequest(o, p) /\ SipfClientHttpSetAuthInfo
              /\ auth' = How(o, p) /\ regs' = ModeAfter(auth') /\ pc' \in After("poll")
      BY <2>1
    <2>3. /\ CredsTypes' /\ UNCHANGED <<upRes, urlRes>> /\ Paired'
          /\ p = None => UNCHANGED <<user, password>>
          /\ p # None => p \in Credentials /\ user' = p
      BY <2>2, AuthFacts DEF SessionInv, StateTypes
    <2>4. user' \in Credentials /\ user' # None
      BY <1>2, <2>3
    <2>6. /\ HeaderWhole'
          /\ header' \in [user : Credentials, password : Credentials] \cup {None}
      BY <2>2, <2>3, <2>4, HeaderSet DEF SessionInv, StateTypes
    <2>7. regs' \in [mode : ByteValues, bank : Implemented]
      BY <2>2, ModeAfterType DEF SessionInv, StateTypes, PlaceTypes
    <2>8. auth' \in {"none", "failed", "unanswered", "ok"}
      BY <2>2 DEF How
    <2>. QED
      BY <1>1, <2>3, <2>4, <2>6, <2>7, <2>8
      DEF SessionInv, StateTypes, PlaceTypes, UpTypes, UnlockInv, Running
  <1>4. CASE ~(regs.mode = 1 /\ prev = 0)
    <2>1. UNCHANGED <<webvars, authvars, regs>>
      BY <1>4 DEF Check
    <2>2. HeaderWhole' /\ Paired'
      BY <2>1 DEF SessionInv, HeaderWhole, Paired, webvars, authvars
    <2>. QED
      BY <1>1, <1>2, <2>1, <2>2
      DEF SessionInv, StateTypes, PlaceTypes, UpTypes, CredsTypes, UnlockInv, Running, webvars, authvars
  <1>. QED  BY <1>3, <1>4

(* A command of the host.                                                   *)
LEMMA CommandStep ==
    ASSUME SessionInv, HostCommand
    PROVE  SessionInv'
  <1>1. /\ UNCHANGED <<prev, user, password, header, auth, issued, authRes, sem_download_failed>>
        /\ pc = "poll" /\ pc' \in {"poll", "fota"}
        /\ regs' \in [mode : ByteValues, bank : Implemented]
        /\ is_unlocked' \in BOOLEAN
        /\ NoNewCreds /\ UpTypes' /\ UnlockInv'
    BY CommandFacts DEF SessionInv, StateTypes, authvars
  <1>2. CredsTypes' /\ HeaderWhole'
    BY <1>1 DEF SessionInv, StateTypes, CredsTypes, NoNewCreds, HeaderWhole
  <1>3. Paired'
    BY <1>1 DEF SessionInv, Paired
  <1>. QED  BY <1>1, <1>2, <1>3 DEF SessionInv, StateTypes, PlaceTypes, Running

(* A reboot clears all of it.                                               *)
LEMMA RebootStep ==
    ASSUME SessionInv, Reboot
    PROVE  SessionInv'
  <1>1. /\ pc' = "boot" /\ regs' = RegistersReset /\ prev' = 1
        /\ user' = None /\ password' = None /\ header' = None /\ auth' = "none"
        /\ buf' = Zero /\ authRes' = None /\ upRes' = None /\ urlRes' = None
        /\ after' = None /\ issued' = issued /\ sem_download_failed' = 0
    BY DEF Reboot
  <1>2. is_unlocked' = FALSE
    BY DEF Reboot
  <1>3. is_unlocked' \in BOOLEAN
    BY <1>2
  <1>4. regs' \in [mode : ByteValues, bank : Implemented] /\ prev' \in ByteValues
    BY <1>1 DEF RegistersReset, ByteValues, Implemented
  <1>5. CredsTypes'
    BY <1>1 DEF SessionInv, StateTypes, CredsTypes, Zero
  <1>6. UnlockInv' /\ Running' /\ Paired' /\ HeaderWhole'
    BY <1>1, <1>2 DEF UnlockInv, Running, Paired, HeaderWhole
  <1>. QED  BY <1>1, <1>3, <1>4, <1>5, <1>6 DEF SessionInv, StateTypes, PlaceTypes, UpTypes

(* The invariant is inductive.                                              *)
LEMMA SessionStep == SessionInv /\ [Next]_vars => SessionInv'
  <1>. SUFFICES ASSUME SessionInv, [Next]_vars PROVE SessionInv'
    OBVIOUS
  <1>1. CASE BootAttach \/ BootEvents \/ UNCHANGED vars
    <2>1. UNCHANGED sessionvars
      BY <1>1 DEF BootAttach, BootEvents, vars
    <2>. QED
      BY <2>1 DEF sessionvars, webvars, authvars, fotavars, cmdvars, SessionInv, StateTypes,
         PlaceTypes, UpTypes, CredsTypes, UnlockInv, Running, Paired, HeaderWhole
  <1>2. CASE Attached
    <2>1. /\ pc' = "auth" /\ regs' = [regs EXCEPT !.mode = 1]
          /\ UNCHANGED <<prev, webvars, authvars, fotavars, cmdvars>>
      BY <1>2 DEF Attached
    <2>2. regs' \in [mode : ByteValues, bank : Implemented]
      BY <2>1 DEF SessionInv, StateTypes, PlaceTypes, ByteValues
    <2>. QED
      BY <2>1, <2>2 DEF webvars, authvars, fotavars, cmdvars, SessionInv, StateTypes,
         PlaceTypes, UpTypes, CredsTypes, UnlockInv, Running, Paired, HeaderWhole
  <1>3. CASE FotaError \/ FotaReturns
    <2>1. /\ UNCHANGED <<regs, prev, webvars, authvars, is_unlocked, after>>
          /\ pc' = pc \/ (pc = "fota" /\ pc' = "poll")
          /\ sem_download_failed' \in 0 .. 1
      BY <1>3 DEF FotaError, FotaReturns, cmdvars
    <2>. QED
      BY <2>1 DEF webvars, authvars, SessionInv, StateTypes,
         PlaceTypes, UpTypes, CredsTypes, UnlockInv, Running, Paired, HeaderWhole
  <1>. QED
    BY <1>1, <1>2, <1>3, BootAuthStep, CheckStep, CommandStep, RebootStep
    DEF Next, FotaFinished, WakeIn

(* The client starts in it.                                                 *)
LEMMA SessionInit == Init => SessionInv
  <1>. SUFFICES ASSUME Init PROVE SessionInv
    OBVIOUS
  <1>1. /\ pc = "boot" /\ regs = RegistersReset /\ prev = 1
        /\ user = None /\ password = None /\ header = None /\ auth = "none"
        /\ buf = Zero /\ authRes = None /\ upRes = None /\ urlRes = None
        /\ after = None /\ issued = 0 /\ sem_download_failed = 0
    BY DEF Init
  <1>2. is_unlocked = FALSE
    BY DEF Init
  <1>3. is_unlocked \in BOOLEAN
    BY <1>2
  <1>4. regs \in [mode : ByteValues, bank : Implemented] /\ prev \in ByteValues
    BY <1>1 DEF RegistersReset, ByteValues, Implemented
  <1>5. CredsTypes
    BY <1>1, SessionAssumption DEF CredsTypes, Zero
  <1>6. UnlockInv /\ Running /\ Paired /\ HeaderWhole
    BY <1>1, <1>2 DEF UnlockInv, Running, Paired, HeaderWhole
  <1>. QED  BY <1>1, <1>3, <1>4, <1>5, <1>6 DEF SessionInv, StateTypes, PlaceTypes, UpTypes

(* The invariant of the client, through every boot, command and reboot.     *)
THEOREM SessionCorrect == Spec => []SessionInv
  BY SessionInit, SessionStep, PTL DEF Spec

(* Every variable has its type; above all, the bank selected is one with    *)
(* functions, and what is taken for credentials was issued as such or is    *)
(* text of another response.                                                *)
THEOREM SessionTypes == Spec => []TypeOK
  <1>1. AttachInv /\ SessionInv => TypeOK
    BY DEF AttachInv, SessionInv, StateTypes, PlaceTypes, UpTypes, CredsTypes, TypeOK
  <1>. QED  BY <1>1, AttachCorrect, SessionCorrect, PTL

(* The header never mixes two issues of credentials nor holds one that was  *)
(* cut off, through retries at boot, switches of the mode, failures and     *)
(* reboots, for credentials of any width at any of them, and whatever the   *)
(* servers answer or leave in the shared buffer.  The variables may mix     *)
(* them (Paired); the encoder refuses the mixture.                          *)
THEOREM HeaderCorrect == Spec => []HeaderWhole
  BY SessionCorrect, PTL DEF SessionInv

(* An update runs only if $$UNLOCK was given since the last reboot, and no  *)
(* register command and no $$TXRAW since.                                   *)
THEOREM UnlockCorrect == Spec => []UpdateUnlocked
  <1>1. SessionInv => UpdateUnlocked
    BY DEF SessionInv, UnlockInv, UpdateUnlocked, Locking
  <1>. QED  BY <1>1, SessionCorrect, PTL

-----------------------------------------------------------------------------
(* The mode register.                                                       *)

(* What a mode of 1 stands for.                                             *)
InForce ==
    /\ auth \in {"ok", "unanswered"}
    /\ header = [user |-> user, password |-> password]
    /\ auth = "ok" => user.grant = issued

(* Before the main loop the mode is only 1 while nothing failed; in it the  *)
(* mode of the last turn tells, and the one of this turn may be rewritten.  *)
ModeInv ==
    /\ regs.mode \in {0, 1} /\ prev \in {0, 1}
    /\ pc \in {"boot", "auth", "check"} => prev = 1
    /\ pc = "check" /\ regs.mode = 1 => InForce
    /\ pc \in {"poll", "fota"} /\ prev = 1 => InForce

(* An authentication that did not fail is in force.                         *)
LEMMA AuthInForce ==
    ASSUME CredsTypes, NEW o \in Outcomes({Refusal} \cup Issue), NEW p \in Parsed(o),
           SipfAuthRequest(o, p), SipfClientHttpSetAuthInfo,
           auth' = How(o, p), auth' # "failed"
    PROVE  InForce'
  <1>1. Accepted(p) /\ Encodes(user', password') /\ auth' \in {"ok", "unanswered"}
        /\ (auth' = "ok" => o.data # None)
    BY DEF How
  <1>2. header' = [user |-> user', password |-> password']
    BY <1>1 DEF SipfClientHttpSetAuthInfo
  <1>3. user' = p /\ (o.data # None => p.grant = issued')
    BY <1>1, AuthFacts DEF Accepted
  <1>. QED  BY <1>1, <1>2, <1>3 DEF InForce

(* Every step keeps what the mode register stands for.                      *)
LEMMA ModeStep ==
    ASSUME ~EarlyHost, ModeWrites \subseteq {0, 1}, SessionInv, ModeInv, [Next]_vars
    PROVE  ModeInv'
  <1>0. regs \in [mode : ByteValues, bank : Implemented] /\ CredsTypes
    BY DEF SessionInv, StateTypes, PlaceTypes
  <1>1. CASE BootAttach \/ BootEvents \/ UNCHANGED vars
    <2>1. UNCHANGED sessionvars
      BY <1>1 DEF BootAttach, BootEvents, vars
    <2>. QED  BY <2>1 DEF sessionvars, authvars, ModeInv, InForce
  <1>2. CASE Attached
    <2>1. /\ pc = "boot" /\ pc' = "auth" /\ regs' = [regs EXCEPT !.mode = 1] /\ prev' = prev
      BY <1>2 DEF Attached
    <2>2. regs'.mode = 1
      BY <1>0, <2>1
    <2>. QED  BY <2>1, <2>2 DEF ModeInv
  <1>3. CASE FotaError \/ FotaReturns
    <2>1. /\ UNCHANGED <<regs, prev, authvars>>
          /\ pc' = pc \/ (pc = "fota" /\ pc' = "poll")
      BY <1>3 DEF FotaError, FotaReturns
    <2>. QED  BY <2>1 DEF authvars, ModeInv, InForce
  <1>4. CASE Reboot
    <2>1. pc' = "boot" /\ prev' = 1 /\ regs'.mode = 0
      BY <1>4 DEF Reboot, RegistersReset
    <2>. QED  BY <2>1 DEF ModeInv
  <1>5. CASE HostCommand
    <2>1. /\ UNCHANGED <<prev, user, password, header, auth, issued>>
          /\ pc = "poll" /\ pc' \in {"poll", "fota"}
          /\ regs'.mode = regs.mode \/ regs'.mode \in ModeWrites
      BY <1>5, CommandFacts DEF SessionInv, StateTypes, authvars
    <2>. QED  BY <2>1 DEF ModeInv, InForce
  <1>6. CASE BootAuth
    <2>1. PICK o \in Outcomes({Refusal} \cup Issue) : \E p \in Parsed(o) :
          /\ SipfAuthRequest(o, p)
          /\ auth' = How(o, p) /\ regs' = ModeAfter(auth')
          /\ IF Accepted(p)
             THEN SipfClientHttpSetAuthInfo /\ pc' \in After(IF EarlyHost THEN "poll" ELSE "check")
             ELSE UNCHANGED <<header, pc>>
      BY <1>6 DEF BootAuth
    <2>2. PICK p \in Parsed(o) :
          /\ SipfAuthRequest(o, p)
          /\ auth' = How(o, p) /\ regs' = ModeAfter(auth')
          /\ IF Accepted(p)
             THEN SipfClientHttpSetAuthInfo /\ pc' \in After(IF EarlyHost THEN "poll" ELSE "check")
             ELSE UNCHANGED <<header, pc>>
      BY <2>1
    <2>3. pc = "auth" /\ prev' = prev /\ prev = 1
      BY <1>6 DEF BootAuth, ModeInv
    <2>4. regs'.mode \in {0, regs.mode} /\ (auth' = "failed" => regs'.mode = 0)
      BY <1>0, <2>2, ModeAfterType
    <2>5. CASE Accepted(p)
      <3>1. pc' \in {"check", "fault"} /\ SipfClientHttpSetAuthInfo
        BY <2>2, <2>5 DEF After
      <3>2. auth' # "failed" => InForce'
        BY <1>0, <2>2, <3>1, AuthInForce
      <3>. QED  BY <2>3, <2>4, <3>1, <3>2 DEF ModeInv
    <2>6. CASE ~Accepted(p)
      BY <2>2, <2>3, <2>4, <2>6 DEF ModeInv
    <2>. QED  BY <2>5, <2>6
  <1>7. CASE Check
    <2>1. pc \in {"poll", "check"} /\ pc' \in {"poll", "fault"} /\ prev' = regs'.mode
      BY <1>7 DEF Check, After
    <2>2. CASE regs.mode = 1 /\ prev = 0
      <3>1. PICK o \in Outcomes({Refusal} \cup Issue) : \E p \in Parsed(o) :
                /\ SipfAuthRequest(o, p) /\ SipfClientHttpSetAuthInfo
                /\ auth' = How(o, p) /\ regs' = ModeAfter(auth') /\ pc' \in After("poll")
        BY <1>7, <2>2 DEF Check
      <3>2. PICK p \in Parsed(o) :
                /\ SipfAuthRequest(o, p) /\ SipfClientHttpSetAuthInfo
                /\ auth' = How(o, p) /\ regs' = ModeAfter(auth') /\ pc' \in After("poll")
        BY <3>1
      <3>3. regs'.mode \in {0, regs.mode} /\ (auth' = "failed" => regs'.mode = 0)
        BY <1>0, <3>2, ModeAfterType
      <3>4. auth' # "failed" => InForce'
        BY <1>0, <3>2, AuthInForce
      <3>. QED  BY <2>1, <3>3, <3>4 DEF ModeInv
    <2>3. CASE ~(regs.mode = 1 /\ prev = 0)
      <3>1. UNCHANGED <<authvars, regs>>
        BY <1>7, <2>3 DEF Check
      <3>2. regs.mode = 1 => prev = 1 /\ InForce
        BY <2>1, <2>3 DEF ModeInv
      <3>3. InForce => InForce'
        BY <3>1 DEF InForce, authvars
      <3>. QED  BY <2>1, <3>1, <3>2, <3>3 DEF ModeInv
    <2>. QED  BY <2>2, <2>3
  <1>. QED
    BY <1>1, <1>2, <1>3, <1>4, <1>5, <1>6, <1>7 DEF Next, FotaFinished, WakeIn

(* When the host waits for "+++ Ready +++" and writes only 0 and 1 to the   *)
(* mode register, a 1 that the main loop has seen means what it says: the   *)
(* last authentication succeeded and the header is made of what it left.    *)
THEOREM ModeCorrect ==
    ASSUME ~EarlyHost, ModeWrites \subseteq {0, 1}
    PROVE  Spec => []ModeInForce
  <1>1. Init => ModeInv
    BY DEF Init, RegistersReset, ModeInv
  <1>2. SessionInv /\ ModeInv /\ [Next]_vars => (SessionInv /\ ModeInv)'
    BY SessionStep, ModeStep
  <1>3. ModeInv => ModeInForce
    BY DEF ModeInv, InForce, ModeInForce
  <1>. QED  BY <1>1, <1>2, <1>3, SessionInit, PTL DEF Spec

-----------------------------------------------------------------------------
(* Objects.                                                                 *)

(* The last command, with its answer.                                       *)
Answered == \E cmd, res, objs, peer, ans :
    last = [cmd |-> cmd, res |-> res, objs |-> objs, peer |-> peer, ans |-> ans]

(* A value shorter than LenMod fits its length byte.                        *)
LEMMA ShortFits ==
    ASSUME NEW o \in Object, Len(o.value) < LenMod
    PROVE  LengthFits(o)
  <1>1. Len(o.value) \in Nat
    BY DEF Object
  <1>2. LenMod \in Nat \ {0}
    BY ObjectsAssumption
  <1>3. \A x \in 0 .. LenMod - 1 : x % LenMod = x
    BY <1>2
  <1>4. Len(o.value) \in 0 .. LenMod - 1
    BY <1>1, <1>2
  <1>5. Len(o.value) % LenMod = Len(o.value)
    BY <1>3, <1>4, Zenon
  <1>. QED  BY <1>5 DEF LengthFits, ValueLen

(* What the server reads of a list that fits is the list.                   *)
LEMMA ServerReadsAll ==
    ASSUME NEW objs \in TxLists
    PROVE  \/ ServerReads[objs] = objs
           \/ \E k \in DOMAIN objs : Len(objs[k].value) >= LenMod
  <1>. SUFFICES ASSUME ~ \E k \in DOMAIN objs : Len(objs[k].value) >= LenMod
                PROVE  ServerReads[objs] = objs
    OBVIOUS
  <1>. DEFINE n == Len(objs)
              max == Len(Packet(objs))
  <1>1. objs \in Seq(Object) /\ n \in Nat
    BY ListsAssumption
  <1>2. LenMod \in Nat
    BY ObjectsAssumption
  <1>3. ASSUME NEW k \in DOMAIN objs PROVE LengthFits(objs[k])
    <2>1. objs[k] \in Object
      BY <1>1
    <2>2. Len(objs[k].value) \in Nat
      BY <2>1 DEF Object
    <2>. QED  BY <1>2, <2>1, <2>2, ShortFits
  <1>4. max \in Nat /\ n <= max
    BY <1>1, <1>3, PacketLonger
  <1>5. Split(Packet(objs), max) = SubSeq(objs, 1, Min({max, n}))
    <2>. HIDE DEF max
    <2>. QED  BY <1>1, <1>3, <1>4, SplitPacket
  <1>6. Min({max, n}) = n
    <2>. HIDE DEF max, n
    <2>. QED  BY <1>1, <1>4, MinOfTwo
  <1>7. SubSeq(objs, 1, n) = objs
    BY <1>1
  <1>8. ServerReads[objs] = Split(Packet(objs), max)
    BY <1>3 DEF ServerReads, LengthFits
  <1>. QED  BY <1>5, <1>6, <1>7, <1>8

(* An upload that is answered OK was confirmed in this request.             *)
LEMMA UploadAgrees ==
    ASSUME NEW cmd, NEW objs, Upload(cmd, objs)
    PROVE  \E res, peer, ans :
              /\ last' = [cmd |-> cmd, res |-> res, objs |-> objs, peer |-> peer, ans |-> ans]
              /\ res = "OK" => peer = ServerReads[objs]
  <1>0. PICK o \in Outcomes(UpAnswers) : \E peer \in MayStore(o, ServerReads[objs]) :
            /\ buf' = Received(Zero, o)
            /\ Command(cmd, IF o.ok /\ upRes' = "OK" /\ buf' = Note(0) THEN "OK" ELSE "NG",
                       objs, peer, IF o.ok THEN o.data ELSE None)
    BY DEF Upload
  <1>1. PICK peer \in MayStore(o, ServerReads[objs]) :
            /\ buf' = Received(Zero, o)
            /\ Command(cmd, IF o.ok /\ upRes' = "OK" /\ buf' = Note(0) THEN "OK" ELSE "NG",
                       objs, peer, IF o.ok THEN o.data ELSE None)
    BY <1>0
  <1>2. o.data = None \/ o.data \in UpAnswers
    BY DEF Outcomes
  <1>3. buf' = Note(0) => o.data = Stored
    <2>1. Zero # Note(0) /\ Text # Note(0) /\ Note(1) # Note(0)
      BY DEF Zero, Text, Note
    <2>2. o.data = None => buf' = Zero
      BY <1>1 DEF Received
    <2>3. o.data # None => buf' = o.data.body
      BY <1>1 DEF Received
    <2>4. o.data # None => o.data = Stored \/ o.data.body \in {Text, Note(1)}
      BY <1>2 DEF UpAnswers, Refusal
    <2>. QED  BY <2>1, <2>2, <2>3, <2>4
  <1>4. o.data = Stored => peer = ServerReads[objs]
    BY <1>1 DEF MayStore
  <1>. DEFINE res == IF o.ok /\ upRes' = "OK" /\ buf' = Note(0) THEN "OK" ELSE "NG"
              ans == IF o.ok THEN o.data ELSE None
  <1>5. last' = [cmd |-> cmd, res |-> res, objs |-> objs, peer |-> peer, ans |-> ans]
    BY <1>1 DEF Command
  <1>6. res = "OK" => peer = ServerReads[objs]
    BY <1>3, <1>4
  <1>. QED  BY <1>5, <1>6

(* The objects $$RX lists are the first of those handed out.                *)
LEMMA ReportedFirst ==
    ASSUME NEW objs \in RxLists
    PROVE  Reported[objs] = SubSeq(objs, 1, Min({ObjMax, Len(objs)}))
  <1>1. objs \in Seq(Object)
    BY ListsAssumption
  <1>2. ASSUME NEW k \in DOMAIN objs PROVE LengthFits(objs[k])
    <2>1. objs[k] \in Object /\ Len(objs[k].value) < LenMod
      BY <1>1, ListsAssumption
    <2>. QED  BY <2>1, ShortFits
  <1>3. Split(Packet(objs), ObjMax) = SubSeq(objs, 1, Min({ObjMax, Len(objs)}))
    BY <1>1, <1>2, SplitPacket, ObjectsAssumption
  <1>4. Reported[objs] = Split(Packet(objs), ObjMax)
    BY DEF Reported
  <1>. QED  BY <1>3, <1>4

(* What each command leaves behind as its answer.                           *)
LEMMA CommandAgrees ==
    ASSUME HostCommand
    PROVE  Answered' /\ ObjectsAgree'
  <1>. DEFINE Same(cmd, res, objs, peer, ans) ==
           last' = [cmd |-> cmd, res |-> res, objs |-> objs, peer |-> peer, ans |-> ans]
  <1>1. ASSUME NEW cmd \in CommandNames, NEW res, Plain(cmd, res),
               cmd \notin {"TX", "TXRAW", "RX"} \/ res = "ILLPARM"
        PROVE  Answered' /\ ObjectsAgree'
    <2>1. Same(cmd, res, <<>>, <<>>, None)
      BY <1>1 DEF Plain, Command
    <2>2. Answered'
      BY <2>1, Zenon DEF Answered
    <2>3. last'.res = res /\ last'.cmd = cmd
      BY <2>1
    <2>. QED  BY <1>1, <2>2, <2>3 DEF ObjectsAgree
  <1>2. ASSUME NEW cmd \in {"TX", "TXRAW"}, NEW objs \in TxLists, Upload(cmd, objs)
        PROVE  Answered' /\ ObjectsAgree'
    <2>1. PICK res, peer, ans : Same(cmd, res, objs, peer, ans) /\ (res = "OK" => peer = ServerReads[objs])
      BY <1>2, UploadAgrees
    <2>2. Answered'
      BY <2>1, Zenon DEF Answered
    <2>3. last'.res = res /\ last'.cmd = cmd /\ last'.objs = objs /\ last'.peer = peer
      BY <2>1
    <2>4. \/ ServerReads[objs] = objs
          \/ \E k \in DOMAIN objs : Len(objs[k].value) >= LenMod
      BY ServerReadsAll
    <2>. QED  BY <2>1, <2>2, <2>3, <2>4 DEF ObjectsAgree
  <1>3. ASSUME Rx PROVE Answered' /\ ObjectsAgree'
    <2>1. \/ \E objs \in RxLists : Same("RX", "OK", Reported[objs], objs, None)
          \/ Same("RX", "NG", <<>>, <<>>, None)
      BY <1>3 DEF Rx, Command
    <2>2. CASE Same("RX", "NG", <<>>, <<>>, None)
      <3>1. Answered'
        BY <2>2, Zenon DEF Answered
      <3>2. last'.res = "NG"
        BY <2>2
      <3>. QED  BY <3>1, <3>2 DEF ObjectsAgree
    <2>3. ASSUME NEW objs \in RxLists, Same("RX", "OK", Reported[objs], objs, None)
          PROVE  Answered' /\ ObjectsAgree'
      <3>1. Answered'
        BY <2>3, Zenon DEF Answered
      <3>2. last'.cmd = "RX" /\ last'.objs = Reported[objs] /\ last'.peer = objs
        BY <2>3
      <3>. QED  BY <3>1, <3>2, ReportedFirst DEF ObjectsAgree
    <2>. QED  BY <2>1, <2>2, <2>3
  <1>4. ASSUME NEW res, Command("F", res, <<>>, <<>>, None) \/ Command("UPDATE", res, <<>>, <<>>, None)
        PROVE  Answered' /\ ObjectsAgree'
    <2>1. Same("F", res, <<>>, <<>>, None) \/ Same("UPDATE", res, <<>>, <<>>, None)
      BY <1>4 DEF Command
    <2>2. Answered'
      BY <2>1, Zenon DEF Answered
    <2>3. last'.cmd \in {"F", "UPDATE"}
      BY <2>1
    <2>. QED  BY <2>2, <2>3 DEF ObjectsAgree
  <1>. USE DEF CommandNames
  <1>5. ASSUME NEW addr, NEW value, Write(addr, value) PROVE Answered' /\ ObjectsAgree'
    BY <1>1, <1>5 DEF Write
  <1>6. CASE Read \/ Unlock \/ UnlockWrong \/ UpdateLocked
    BY <1>1, <1>6 DEF Read, Unlock, UnlockWrong, UpdateLocked
  <1>7. ASSUME NEW objs \in TxLists, Tx(objs) \/ TxRaw(objs) PROVE Answered' /\ ObjectsAgree'
    BY <1>1, <1>2, <1>7 DEF Tx, TxRaw
  <1>8. ASSUME NEW f, FileUrl(f) \/ Update(f) PROVE Answered' /\ ObjectsAgree'
    BY <1>4, <1>8 DEF FileUrl, Update
  <1>. QED  BY <1>3, <1>5, <1>6, <1>7, <1>8 DEF HostCommand

(* Every step keeps the last answer what it is.                             *)
LEMMA ObjectsStep ==
    ASSUME Answered, ObjectsAgree, [Next]_vars
    PROVE  Answered' /\ ObjectsAgree'
  <1>1. CASE last' = NoCommand
    <2>1. last' = [cmd |-> "none", res |-> "none", objs |-> <<>>, peer |-> <<>>, ans |-> None]
      BY <1>1 DEF NoCommand
    <2>2. Answered'
      BY <2>1, Zenon DEF Answered
    <2>3. last'.res = "none"
      BY <2>1
    <2>. QED  BY <2>2, <2>3 DEF ObjectsAgree
  <1>2. CASE UNCHANGED last
    BY <1>2 DEF Answered, ObjectsAgree
  <1>3. CASE FotaReturns
    <2>1. PICK cmd, res, objs, peer, ans :
              last = [cmd |-> cmd, res |-> res, objs |-> objs, peer |-> peer, ans |-> ans]
      BY DEF Answered
    <2>2. last' = [cmd |-> cmd, res |-> "NG", objs |-> objs, peer |-> peer, ans |-> ans]
      BY <1>3, <2>1 DEF FotaReturns
    <2>3. Answered'
      BY <2>2, Zenon DEF Answered
    <2>4. last'.res = "NG"
      BY <2>2
    <2>. QED  BY <2>3, <2>4 DEF ObjectsAgree
  <1>4. CASE HostCommand
    BY <1>4, CommandAgrees
  <1>5. BootAttach \/ BootEvents \/ Attached \/ BootAuth \/ FotaError \/ UNCHANGED vars => UNCHANGED last
    BY DEF BootAttach, BootEvents, Attached, BootAuth, FotaError, vars, sessionvars, cmdvars
  <1>6. Check \/ FotaFinished \/ WakeIn => last' = NoCommand
    BY DEF Check, FotaFinished, WakeIn, Reboot
  <1>. QED  BY <1>1, <1>2, <1>3, <1>4, <1>5, <1>6 DEF Next

(* OK to $$TX or $$TXRAW: the server has stored exactly these objects, in   *)
(* this request, unless a value is too long for its length byte; OK to      *)
(* $$RX: the objects listed are the first of those handed out.  For lists   *)
(* of any number of objects with values of any length, and whatever the     *)
(* buffer and the static response held.                                     *)
THEOREM ObjectsCorrect == Spec => []ObjectsAgree
  <1>1. Init => Answered /\ ObjectsAgree
    <2>. SUFFICES ASSUME Init PROVE Answered /\ ObjectsAgree
      OBVIOUS
    <2>1. last = [cmd |-> "none", res |-> "none", objs |-> <<>>, peer |-> <<>>, ans |-> None]
      BY DEF Init, NoCommand
    <2>2. Answered
      BY <2>1, Zenon DEF Answered
    <2>3. last.res = "none"
      BY <2>1
    <2>. QED  BY <2>2, <2>3 DEF ObjectsAgree
  <1>2. Answered /\ ObjectsAgree /\ [Next]_vars => (Answered /\ ObjectsAgree)'
    BY ObjectsStep
  <1>. QED  BY <1>1, <1>2, PTL DEF Spec

-----------------------------------------------------------------------------
(* What an update fetches.                                                  *)

(* A file is written in the characters of a URL.                            *)
LEMMA FileFacts ==
    ASSUME NEW f \in DOMAIN Files
    PROVE  /\ Parts(Char, Files[f].protocol, Files[f].host, Files[f].path)
           /\ Files[f].protocol \in Seq(Char) /\ Files[f].host \in Seq(Char)
           /\ Files[f].path \in Seq(Char) /\ Files[f].eol \in Seq(Char)
           /\ Files[f].eol \in {<<>>, <<"newline">>}
           /\ UrlOf(f) \in Seq(Char)
  <1>1. /\ {":", "/", "newline", "nul", "junk"} \subseteq Char
        /\ Files[f] \in [protocol : Seq(Char \ {":", "nul"}), host : Seq(Char \ {"/", "nul"}),
                         path : Seq(Char \ {"newline", "nul"}), eol : {<<>>, <<"newline">>}]
    BY FilesAssumption
  <1>2. /\ Files[f].protocol \in Seq(Char \ {":", "nul"}) /\ Files[f].host \in Seq(Char \ {"/", "nul"})
        /\ Files[f].path \in Seq(Char \ {"newline", "nul"}) /\ Files[f].eol \in {<<>>, <<"newline">>}
    BY <1>1
  <1>3. ASSUME NEW D, NEW q \in Seq(Char \ D) PROVE q \in Seq(Char)
    OBVIOUS
  <1>4. /\ Files[f].protocol \in Seq(Char) /\ Files[f].host \in Seq(Char)
        /\ Files[f].path \in Seq(Char)
    BY <1>2, <1>3
  <1>5. Files[f].eol \in Seq(Char)
    <2>1. <<>> \in Seq(Char) /\ <<"newline">> \in Seq(Char)
      BY <1>1
    <2>. QED  BY <1>2, <2>1
  <1>6. <<":", "/", "/">> \in Seq(Char) /\ <<"/">> \in Seq(Char)
    BY <1>1
  <1>7. UrlOf(f) \in Seq(Char)
    <2>1. ASSUME NEW a \in Seq(Char), NEW b \in Seq(Char) PROVE a \o b \in Seq(Char)
      OBVIOUS
    <2>. QED  BY <1>4, <1>5, <1>6, <2>1, Zenon DEF UrlOf
  <1>. QED  BY <1>2, <1>4, <1>5, <1>7 DEF Parts

(* Copying a URL over an older one and cutting it leaves characters.        *)
LEMMA CopyFacts ==
    ASSUME NEW U, "nul" \in U, NEW old \in Seq(U), NEW body \in Seq(U)
    PROVE  LET n == Len(body)
               url == CopyOver(old, body, n)
           IN  /\ url = body \o SubSeq(old, n + 1, Len(old))
               /\ SubSeq(old, n + 1, Len(old)) \in Seq(U)
               /\ url \in Seq(U) /\ Cut(url, n) \in Seq(U)
  <1>. DEFINE n == Len(body)
              rest == SubSeq(old, n + 1, Len(old))
              url == CopyOver(old, body, n)
  <1>1. n \in Nat /\ SubSeq(body, 1, n) = body
    OBVIOUS
  <1>2. rest \in Seq(U)
    OBVIOUS
  <1>3. url = body \o rest
    BY <1>1 DEF CopyOver
  <1>. HIDE DEF rest
  <1>4. url \in Seq(U)
    BY <1>2, <1>3
  <1>. HIDE DEF url
  <1>5. Cut(url, n) \in Seq(U)
    <2>1. \A i \in 1 .. Len(url) : url[i] \in U
      BY <1>4
    <2>2. DOMAIN url = 1 .. Len(url) /\ Len(url) \in Nat
      BY <1>4
    <2>. QED  BY <2>1, <2>2 DEF Cut
  <1>. QED  BY <1>2, <1>3, <1>4, <1>5 DEF rest, url

(* A URL that ends its line is parsed into the parts it was made of,        *)
(* whatever an older one has left behind it.                                *)
LEMMA FetchedParts ==
    ASSUME NEW f \in DOMAIN Files, Files[f].eol # <<>>, NEW old \in Seq(Char)
    PROVE  ParseURL(CopyOver(old, UrlOf(f), Len(UrlOf(f))), Len(UrlOf(f)))
              = {[protocol |-> Files[f].protocol, host |-> Files[f].host, path |-> Files[f].path]}
  <1>. DEFINE protocol == Files[f].protocol
              host == Files[f].host
              path == Files[f].path
              line == UrlOf(f)
              n == Len(line)
              rest == SubSeq(old, n + 1, Len(old))
  <1>1. {":", "/", "newline", "nul", "junk"} \subseteq Char
    BY FilesAssumption
  <1>2. Parts(Char, protocol, host, path) /\ line \in Seq(Char) /\ Files[f].eol = <<"newline">>
    BY FileFacts
  <1>3. protocol \in Seq(Char) /\ host \in Seq(Char) /\ path \in Seq(Char)
    BY FileFacts
  <1>4. line = protocol \o <<":", "/", "/">> \o host \o <<"/">> \o path \o <<"newline">>
    BY <1>2 DEF UrlOf
  <1>5. CopyOver(old, line, n) = line \o rest /\ rest \in Seq(Char)
    BY <1>1, <1>2, CopyFacts
  <1>. HIDE DEF protocol, host, path, line, rest
  <1>6. /\ line \o rest \in Seq(Char)
        /\ n = Len(protocol) + 3 + Len(host) + 1 + Len(path) + 1
        /\ IsLine(line \o rest, protocol, host, path)
    BY <1>1, <1>3, <1>4, <1>5, LineOfParts
  <1>. HIDE DEF n
  <1>7. "nul" \in Char
    BY <1>1
  <1>8. ParsesTo(line \o rest, n, protocol, host, path)
    BY <1>2, <1>6, <1>7, ParseLine, Zenon
  <1>. QED  BY <1>5, <1>8 DEF protocol, host, path, line, n, ParsesTo

(* No update, or one whose target is the file's.  image_url holds           *)
(* characters, of whichever URLs.                                           *)
TargetInv ==
    /\ image_url \in Seq(Char)
    /\ \E file, answered, target, running :
          fota = [file |-> file, answered |-> answered, target |-> target, running |-> running]
    /\ UpdateTarget

(* An update that starts takes its target from this command's response.     *)
LEMMA UpdateStep ==
    ASSUME TargetInv, NEW f \in DOMAIN Files, Update(f)
    PROVE  TargetInv'
  <1>1. PICK o \in Outcomes(UrlAnswers(f)), started \in BOOLEAN :
        LET got == o.ok /\ urlRes' \in DOMAIN Files
            n == Len(UrlOf(urlRes'))
            body == IF buf'.kind = "url" THEN UrlOf(urlRes') ELSE [i \in 1 .. n |-> "junk"]
            url == CopyOver(image_url, body, n)
            target == IF got THEN {t \in ParseURL(url, n) : t.protocol \in {<<"http">>, <<"https">>}} ELSE {}
        IN  /\ RequestURL(f, o)
            /\ image_url' = IF got THEN Cut(url, n) ELSE image_url
            /\ started => target # {}
            /\ Command("UPDATE", IF started THEN "none" ELSE "NG", <<>>, <<>>, None)
            /\ IF started
               THEN /\ pc' = "fota"
                    /\ fota' = [file |-> f, answered |-> o.data # None, target |-> target, running |-> TRUE]
               ELSE UNCHANGED <<pc, fota>>
    BY DEF Update
  <1>. DEFINE got == o.ok /\ urlRes' \in DOMAIN Files
              line == UrlOf(urlRes')
              n == Len(line)
              body == IF buf'.kind = "url" THEN line ELSE [i \in 1 .. n |-> "junk"]
              url == CopyOver(image_url, body, n)
              parsed == ParseURL(url, n)
              target == IF got THEN {t \in parsed : t.protocol \in {<<"http">>, <<"https">>}} ELSE {}
  <1>2. /\ RequestURL(f, o)
        /\ image_url' = IF got THEN Cut(url, n) ELSE image_url
        /\ started => target # {}
        /\ started => fota' = [file |-> f, answered |-> o.data # None, target |-> target, running |-> TRUE]
        /\ ~started => UNCHANGED fota
    BY <1>1
  <1>3. {":", "/", "newline", "nul", "junk"} \subseteq Char /\ "ERR" \notin DOMAIN Files
    BY FilesAssumption
  <1>4. image_url \in Seq(Char)
    BY DEF TargetInv
  <1>5. image_url' \in Seq(Char)
    <2>. SUFFICES ASSUME got PROVE Cut(url, n) \in Seq(Char)
      BY <1>2, <1>4
    <2>1. line \in Seq(Char) /\ n \in Nat
      BY FileFacts
    <2>2. body \in Seq(Char) /\ Len(body) = n
      <3>1. [i \in 1 .. n |-> "junk"] \in Seq(Char) /\ Len([i \in 1 .. n |-> "junk"]) = n
        <4>. HIDE DEF n
        <4>. QED  BY <1>3, <2>1
      <3>. QED  BY <2>1, <3>1
    <2>. HIDE DEF body, line
    <2>. QED  BY <1>3, <1>4, <2>2, CopyFacts
  <1>6. CASE ~started
    BY <1>2, <1>5, <1>6 DEF TargetInv, UpdateTarget
  <1>7. CASE started
    <2>1. fota' = [file |-> f, answered |-> o.data # None, target |-> target, running |-> TRUE]
      BY <1>2, <1>7
    <2>. HIDE DEF target
    <2>2. /\ fota'.file = f /\ fota'.answered = (o.data # None) /\ fota'.target = target
      BY <2>1
    <2>3. \E file, answered, tgt, running :
             fota' = [file |-> file, answered |-> answered, target |-> tgt, running |-> running]
      BY <2>1, Zenon
    <2>4. ASSUME o.data # None, Files[f].eol # <<>>
          PROVE  target = {[protocol |-> Files[f].protocol, host |-> Files[f].host,
                            path |-> Files[f].path]}
      <3>1. o.data = Refusal \/ o.data = [status |-> f, body |-> Url(f)]
        BY <2>4 DEF Outcomes, UrlAnswers
      <3>2. target # {}
        BY <1>2, <1>7
      <3>3. got
        BY <3>2 DEF target
      <3>4. o.data # Refusal
        <4>. SUFFICES ASSUME o.data = Refusal PROVE FALSE
          OBVIOUS
        <4>1. urlRes' = "ERR"
          BY <1>2, <2>4 DEF RequestURL, Copied, Refusal
        <4>. QED  BY <1>3, <3>3, <4>1
      <3>5. urlRes' = f /\ buf'.kind = "url"
        <4>1. o.data.status = f /\ o.data.body = Url(f)
          BY <3>1, <3>4
        <4>2. urlRes' = f /\ buf' = Url(f)
          BY <1>2, <2>4, <4>1 DEF RequestURL, Copied, Received
        <4>. QED  BY <4>2 DEF Url
      <3>6. parsed = {[protocol |-> Files[f].protocol, host |-> Files[f].host, path |-> Files[f].path]}
        <4>1. parsed = ParseURL(CopyOver(image_url, UrlOf(f), Len(UrlOf(f))), Len(UrlOf(f)))
          BY <3>5
        <4>. QED  BY <1>4, <2>4, <4>1, FetchedParts
      <3>. HIDE DEF parsed, got
      <3>7. target \subseteq parsed
        BY DEF target
      <3>. QED  BY <3>2, <3>6, <3>7
    <2>5. UpdateTarget'
      BY <2>2, <2>4 DEF UpdateTarget
    <2>. QED  BY <1>5, <2>3, <2>5 DEF TargetInv
  <1>. QED  BY <1>6, <1>7

(* Every step keeps the target what it is.                                  *)
LEMMA TargetStep == ASSUME TargetInv, [Next]_vars PROVE TargetInv'
  <1>1. CASE image_url' \in {image_url, <<>>} /\ fota' = NoFota
    <2>1. fota' = [file |-> None, answered |-> FALSE, target |-> {}, running |-> FALSE]
      BY <1>1 DEF NoFota
    <2>2. \E file, answered, target, running :
             fota' = [file |-> file, answered |-> answered, target |-> target, running |-> running]
      BY <2>1, Zenon
    <2>3. fota'.file = None
      BY <2>1
    <2>4. image_url' \in Seq(Char)
      <3>1. <<>> \in Seq(Char)
        OBVIOUS
      <3>. QED  BY <1>1, <3>1 DEF TargetInv
    <2>. QED  BY <2>2, <2>3, <2>4 DEF TargetInv, UpdateTarget
  <1>2. CASE UNCHANGED <<image_url, fota>>
    BY <1>2 DEF TargetInv, UpdateTarget
  <1>3. CASE FotaError
    <2>1. PICK file, answered, target, running :
              fota = [file |-> file, answered |-> answered, target |-> target, running |-> running]
      BY DEF TargetInv
    <2>2. fota' = [file |-> file, answered |-> answered, target |-> target, running |-> FALSE]
      BY <1>3, <2>1 DEF FotaError
    <2>3. \E a, b, c, d : fota' = [file |-> a, answered |-> b, target |-> c, running |-> d]
      BY <2>2, Zenon
    <2>4. fota'.file = fota.file /\ fota'.answered = fota.answered /\ fota'.target = fota.target
      BY <2>1, <2>2
    <2>5. image_url' = image_url
      BY <1>3 DEF FotaError
    <2>. QED  BY <2>3, <2>4, <2>5 DEF TargetInv, UpdateTarget
  <1>4. CASE HostCommand
    <2>1. CASE \E f \in DOMAIN Files : Update(f)
      BY <2>1, UpdateStep
    <2>2. ASSUME NEW objs, Tx(objs) \/ TxRaw(objs) PROVE UNCHANGED <<image_url, fota>>
      BY <2>2 DEF Tx, TxRaw, Upload, Plain, fotavars
    <2>3. ASSUME NEW f, FileUrl(f) PROVE UNCHANGED <<image_url, fota>>
      BY <2>3 DEF FileUrl, fotavars
    <2>4. ASSUME NEW addr, NEW value, Write(addr, value) PROVE UNCHANGED <<image_url, fota>>
      BY <2>4 DEF Write, Plain, fotavars
    <2>5. Read \/ Rx \/ Unlock \/ UnlockWrong \/ UpdateLocked => UNCHANGED <<image_url, fota>>
      BY DEF Read, Rx, Unlock, UnlockWrong, UpdateLocked, Plain, fotavars
    <2>. QED  BY <1>2, <1>4, <2>1, <2>2, <2>3, <2>4, <2>5 DEF HostCommand
  <1>5. BootAttach \/ BootEvents \/ Attached \/ BootAuth \/ Check \/ UNCHANGED vars
           => UNCHANGED <<image_url, fota>>
    BY DEF BootAttach, BootEvents, Attached, BootAuth, Check, vars, sessionvars, fotavars
  <1>6. FotaReturns \/ FotaFinished \/ WakeIn => image_url' \in {image_url, <<>>} /\ fota' = NoFota
    BY DEF FotaReturns, FotaFinished, WakeIn, Reboot
  <1>. QED  BY <1>1, <1>2, <1>3, <1>4, <1>5, <1>6 DEF Next

(* An update fetches what the server gave for the file of this command,     *)
(* whatever earlier URLs, longer or shorter, have left in image_url, in the *)
(* buffer and in the static response, and however often the client          *)
(* rebooted, if the request had a response and the URL ends its line.       *)
THEOREM TargetCorrect == Spec => []UpdateTarget
  <1>1. Init => TargetInv
    <2>. SUFFICES ASSUME Init PROVE TargetInv
      OBVIOUS
    <2>1. fota = [file |-> None, answered |-> FALSE, target |-> {}, running |-> FALSE]
      BY DEF Init, NoFota
    <2>2. \E file, answered, target, running :
             fota = [file |-> file, answered |-> answered, target |-> target, running |-> running]
      BY <2>1, Zenon
    <2>3. fota.file = None /\ image_url \in Seq(Char)
      BY <2>1 DEF Init
    <2>. QED  BY <2>2, <2>3 DEF TargetInv, UpdateTarget
  <1>2. TargetInv => UpdateTarget
    BY DEF TargetInv
  <1>. QED  BY <1>1, <1>2, TargetStep, PTL DEF Spec
=============================================================================
