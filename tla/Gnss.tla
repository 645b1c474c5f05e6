-------------------------------- MODULE Gnss --------------------------------
(***************************************************************************)
(* GNSS: src/src/gnss/gnss.c and the $$GNSS commands of cmd_ascii.c.  The   *)
(* modem calls gnss_event_handler in an interrupt, so between any two steps *)
(* of a command that reads the same static data, without a lock.            *)
(*                                                                          *)
(* Frames and sentences are numbered as the modem issues them.              *)
(***************************************************************************)
EXTENDS Integers, Sequences

CONSTANTS
    MaxLines,       \* rows of nmea_strings: 10 in the code
    MaxFrames,      \* bound: position frames of the modem
    MaxSentences,   \* bound: NMEA sentences of the modem
    MaxCommands     \* bound: commands of the host

ASSUME GnssAssumption ==
    /\ MaxLines \in Nat \ {0}
    /\ MaxFrames \in Nat /\ MaxSentences \in Nat /\ MaxCommands \in Nat

VARIABLES
    (* the modem *)
    handler,            \* gnss_init registered the event handler
    running,            \* between gnss_start and gnss_stop
    frame, sentence,    \* how many it has issued
    read,               \* the last frame nrf_modem_gnss_read delivered (history)
    (* gnss.c *)
    last_gps_pvt,       \* the frame it is and whether its position is valid
    nmea_strings, nmea_string_cnt,
    (* the command *)
    pc, i,
    head,               \* the sentence whose first half was copied
    lines,              \* out_buff of $$GNSSNMEA: which sentences the halves are of
    data,               \* gps_data and the verdict: which frame each part is of
    since,              \* read when the command began (history)
    commands

modem == <<handler, running, frame, sentence, read>>
store == <<last_gps_pvt, nmea_strings, nmea_string_cnt>>
command == <<pc, i, head, lines, data, since, commands>>
vars == <<modem, store, command>>

Frames == 0 .. MaxFrames
Sentences == 0 .. MaxSentences
NoData == [position |-> 0, flags |-> 0, verdict |-> 0, valid |-> FALSE]

TypeOK ==
    /\ handler \in BOOLEAN /\ running \in BOOLEAN
    /\ frame \in Frames /\ sentence \in Sentences /\ read \in Frames
    /\ last_gps_pvt \in [frame : Frames, valid : BOOLEAN]
    /\ nmea_strings \in [0 .. MaxLines - 1 -> Sentences]
    /\ nmea_string_cnt \in 0 .. MaxLines
    /\ pc \in {"idle", "position", "flags", "verdict", "located", "line", "half", "listed"}
    /\ i \in 0 .. MaxLines /\ head \in Sentences
    /\ lines \in Seq([head : Sentences, tail : Sentences])
    /\ data \in [position : Frames, flags : Frames, verdict : Frames, valid : BOOLEAN]
    /\ since \in Frames /\ commands \in 0 .. MaxCommands

(* gnss_init may fail at each of its four steps; then main() only says so.  *)
Init ==
    /\ handler \in BOOLEAN /\ running = FALSE /\ frame = 0 /\ sentence = 0 /\ read = 0
    /\ last_gps_pvt = [frame |-> 0, valid |-> FALSE]
    /\ nmea_strings = [n \in 0 .. MaxLines - 1 |-> 0] /\ nmea_string_cnt = 0
    /\ pc = "idle" /\ i = 0 /\ head = 0 /\ lines = <<>> /\ data = NoData
    /\ since = 0 /\ commands = 0

-----------------------------------------------------------------------------
(* Interrupts.  nrf_modem_gnss_read may fail.                               *)

EventPvtKeepingFix ==
    /\ handler /\ running /\ frame < MaxFrames
    /\ frame' = frame + 1
    /\ nmea_string_cnt' = 0
    /\ \/ \E v \in BOOLEAN :
             /\ last_gps_pvt' = IF v THEN [frame |-> frame', valid |-> v] ELSE last_gps_pvt
             /\ read' = frame'
       \/ UNCHANGED <<last_gps_pvt, read>>
    /\ UNCHANGED <<handler, running, sentence, nmea_strings, command>>

EventPvt ==
    /\ handler /\ running /\ frame < MaxFrames
    /\ frame' = frame + 1
    /\ nmea_string_cnt' = 0
    /\ \/ \E v \in BOOLEAN : last_gps_pvt' = [frame |-> frame', valid |-> v] /\ read' = frame'
       \/ UNCHANGED <<last_gps_pvt, read>>
    /\ UNCHANGED <<handler, running, sentence, nmea_strings, command>>

StoreUncounted ==
    /\ nmea_strings' = [nmea_strings EXCEPT ![nmea_string_cnt] = sentence']
    /\ nmea_string_cnt' = nmea_string_cnt + 1

StoreReplacing ==
    IF nmea_string_cnt < MaxLines
    THEN /\ nmea_strings' = [nmea_strings EXCEPT ![nmea_string_cnt] = sentence']
         /\ nmea_string_cnt' = nmea_string_cnt + 1
    ELSE /\ nmea_strings' = [nmea_strings EXCEPT ![0] = sentence']
         /\ UNCHANGED nmea_string_cnt

(* on_gnss_evt_nmea: what does not fit is dropped.                          *)
Store ==
    \/ /\ nmea_string_cnt < MaxLines
       /\ nmea_strings' = [nmea_strings EXCEPT ![nmea_string_cnt] = sentence']
       /\ nmea_string_cnt' = nmea_string_cnt + 1
    \/ nmea_string_cnt >= MaxLines /\ UNCHANGED <<nmea_strings, nmea_string_cnt>>

EventNmea ==
    /\ handler /\ running /\ sentence < MaxSentences
    /\ sentence' = sentence + 1
    /\ Store \/ UNCHANGED <<nmea_strings, nmea_string_cnt>>
    /\ UNCHANGED <<handler, running, frame, read, last_gps_pvt, command>>

-----------------------------------------------------------------------------
(* Commands of main().                                                      *)

Begin(next) ==
    /\ pc = "idle" /\ commands < MaxCommands
    /\ commands' = commands + 1 /\ pc' = next
    /\ since' = read /\ i' = 0 /\ lines' = <<>> /\ data' = NoData /\ head' = 0

(* $$GNSSEN: the modem may refuse.                                          *)
Enable ==
    /\ Begin("idle")
    /\ \E r \in BOOLEAN : running' = r
    /\ UNCHANGED <<handler, frame, sentence, read, store>>

(* $$GNSSLOC and $$GNSSSTAT: gnss_get_data copies the frame and then reads  *)
(* the valid flag of the original once more.                                *)
GetData == Begin("position") /\ UNCHANGED <<modem, store>>

CopyPosition ==
    /\ pc = "position" /\ pc' = "flags"
    /\ data' = [data EXCEPT !.position = last_gps_pvt.frame]
    /\ UNCHANGED <<modem, store, i, head, lines, since, commands>>

CopyFlags ==
    /\ pc = "flags" /\ pc' = "verdict"
    /\ data' = [data EXCEPT !.flags = last_gps_pvt.frame]
    /\ UNCHANGED <<modem, store, i, head, lines, since, commands>>

ReadVerdict ==
    /\ pc = "verdict" /\ pc' = "located"
    /\ data' = [data EXCEPT !.verdict = last_gps_pvt.frame, !.valid = last_gps_pvt.valid]
    /\ UNCHANGED <<modem, store, i, head, lines, since, commands>>

(* $$GNSSNMEA: gnss_strcpy_nmea prints the rows one after the other, and    *)
(* looks at the count again before each.                                    *)
ListNmea == Begin("line") /\ UNCHANGED <<modem, store>>

CopyHeadOneMore ==
    /\ pc = "line" /\ i <= nmea_string_cnt
    /\ head' = IF i < MaxLines THEN nmea_strings[i] ELSE 0
    /\ pc' = "half"
    /\ UNCHANGED <<modem, store, i, lines, data, since, commands>>

CopyHead ==
    /\ pc = "line" /\ i < nmea_string_cnt
    /\ head' = nmea_strings[i] /\ pc' = "half"
    /\ UNCHANGED <<modem, store, i, lines, data, since, commands>>

(* A shorter sentence in the meantime leaves the rest of the old one.       *)
CopyTail ==
    /\ pc = "half"
    /\ \E t \in {nmea_strings[i], head} :
          lines' = Append(lines, [head |-> head, tail |-> t])
    /\ i' = i + 1 /\ pc' = "line"
    /\ UNCHANGED <<modem, store, head, data, since, commands>>

NoMoreLines ==
    /\ pc = "line" /\ i >= nmea_string_cnt
    /\ pc' = "listed"
    /\ UNCHANGED <<modem, store, i, head, lines, data, since, commands>>

Answer ==
    /\ pc \in {"located", "listed"} /\ pc' = "idle"
    /\ UNCHANGED <<modem, store, i, head, lines, data, since, commands>>

Main ==
    \/ Enable \/ GetData \/ CopyPosition \/ CopyFlags \/ ReadVerdict
    \/ ListNmea \/ CopyHead \/ CopyTail \/ NoMoreLines \/ Answer

Next == EventPvt \/ EventNmea \/ Main
Spec == Init /\ [][Next]_vars

-----------------------------------------------------------------------------

(* However the interrupts fall between the steps of the loop, the answer to *)
(* $$GNSSNMEA gives sentences in the order the modem issued them, and none  *)
(* twice; a sentence replaced while it is copied counts with both halves.   *)
NmeaInOrder ==
    /\ \A n \in DOMAIN lines : lines[n].head <= lines[n].tail
    /\ \A m, n \in DOMAIN lines : m < n => lines[m].tail < lines[n].head

(* However often the count is reset and filled again meanwhile, an answer   *)
(* has no more lines than there are rows, and the index stays in the table. *)
AnswerFits ==
    /\ Len(lines) <= MaxLines
    /\ pc = "half" => i < MaxLines

(* The answer to $$GNSSLOC is never older than the last frame read before   *)
(* the command, none of its parts older than the one copied before.         *)
FreshLocation ==
    pc = "located" =>
        /\ since <= data.position /\ data.position <= data.flags
        /\ data.flags <= data.verdict /\ data.verdict <= read
=============================================================================
