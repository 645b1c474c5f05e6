------------------------------- MODULE Attach -------------------------------
(***************************************************************************)
(* Attaching to the LTE network: init_modem_and_lte and lte_handler of      *)
(* src/src/main.c.  main() starts the modem and waits for a semaphore with  *)
(* a timeout; the handler of LTE events runs in another context and gives   *)
(* it.                                                                      *)
(***************************************************************************)
EXTENDS Integers

CONSTANT RegisterTry    \* REGISTER_TRY: 3 in the code

ASSUME AttachAssumption == RegisterTry \in Nat \ {0}

VARIABLES
    apc,            \* where init_modem_and_lte is
    try,            \* i
    lte,            \* the modem: off, searching or registered
    event,          \* registration status on its way to the handler
    lte_connected,  \* the semaphore
    registered      \* the modem has registered since the boot (history)

attachvars == <<apc, try, lte, event, lte_connected, registered>>

AttachTypeOK ==
    /\ apc \in {"init", "connect", "wait", "offline", "up", "failed"}
    /\ try \in 0 .. RegisterTry - 1
    /\ lte \in {"off", "searching", "registered"}
    /\ event \in {"none", "SEARCHING", "REGISTERED"}
    /\ lte_connected \in 0 .. 1
    /\ registered \in BOOLEAN

AttachInit ==
    /\ apc = "init" /\ try = 0 /\ lte = "off" /\ event = "none"
    /\ lte_connected = 0 /\ registered = FALSE

(* Modem library, certificates, system mode, antenna and APN: each may fail.*)
ModemInit ==
    /\ apc = "init" /\ apc' \in {"connect", "failed"}
    /\ UNCHANGED <<try, lte, event, lte_connected, registered>>

Connect ==
    /\ apc = "connect"
    /\ \/ apc' = "wait" /\ lte' = "searching"
       \/ apc' = "failed" /\ UNCHANGED lte
    /\ UNCHANGED <<try, event, lte_connected, registered>>

Connected ==
    /\ apc = "wait" /\ lte_connected = 1
    /\ lte_connected' = 0 /\ apc' = "up"
    /\ UNCHANGED <<try, lte, event, registered>>

RegisterTimeout ==
    /\ apc = "wait" /\ lte_connected = 0
    /\ apc' = "offline"
    /\ UNCHANGED <<try, lte, event, lte_connected, registered>>

OfflineUncounted ==
    /\ apc = "offline" /\ lte' = "off" /\ apc' = "connect"
    /\ UNCHANGED <<try, event, lte_connected, registered>>

(* The semaphore is not reset: a registration handled from now on is taken  *)
(* for one of the next attempt.                                             *)
Offline ==
    /\ apc = "offline" /\ lte' = "off"
    /\ IF try + 1 < RegisterTry
       THEN try' = try + 1 /\ apc' = "connect"
       ELSE apc' = "failed" /\ UNCHANGED try
    /\ UNCHANGED <<event, lte_connected, registered>>

AttachMain == ModemInit \/ Connect \/ Connected \/ RegisterTimeout \/ Offline

(* The modem finds the network, or loses it and searches again.             *)
NetworkStatus ==
    /\ lte # "off" /\ event = "none"
    /\ \/ lte = "searching" /\ lte' = "registered" /\ event' = "REGISTERED" /\ registered' = TRUE
       \/ lte' = "searching" /\ event' = "SEARCHING" /\ UNCHANGED registered
    /\ UNCHANGED <<apc, try, lte_connected>>

LteHandlerEager ==
    /\ event # "none" /\ event' = "none"
    /\ lte_connected' = 1
    /\ UNCHANGED <<apc, try, lte, registered>>

LteHandler ==
    /\ event # "none" /\ event' = "none"
    /\ lte_connected' = IF event = "REGISTERED" THEN 1 ELSE lte_connected
    /\ UNCHANGED <<apc, try, lte, registered>>

AttachNext == AttachMain \/ NetworkStatus \/ LteHandler

-----------------------------------------------------------------------------

(* Whatever the modem reports and however late its events are handled,      *)
(* main() goes on only after the modem has registered since the boot.       *)
AttachedWasRegistered == apc = "up" => registered

(* The boot does not hang on a network that never comes, or comes and goes. *)
AttachEnds == apc = "init" ~> apc \in {"up", "failed"}
=============================================================================
