------------------------------ MODULE CmdLine -------------------------------
(***************************************************************************)
(* The command line, src/src/cmd.c, and the dispatch of a finished line,    *)
(* CmdAsciiParse in src/src/cmd_ascii.c.  CmdParse takes one byte.          *)
(***************************************************************************)
EXTENDS Integers, Sequences

CONSTANTS
    BufSz,      \* CMD_BUFF_SZ: 4096 in the code
    Text,       \* ordinary characters
    Names,      \* cmdfunc: the command names, in the order of the table
    LenMod      \* in_len is a uint16_t: 65536

ASSUME TableAssumption ==
    /\ BufSz \in Nat \ {0} /\ LenMod \in Nat /\ LenMod > 2 * BufSz
    /\ Names \in Seq(Seq(Text \cup {"$"}))
    /\ \A c \in DOMAIN Names : Len(Names[c]) \in 1 .. BufSz - 1

Space == " "

ASSUME TextAssumption == Space \in Text /\ Text \cap {"$", "LF", "BS", "NUL"} = {}

VARIABLES
    state,          \* CMD_STATE_WAIT or CMD_STATE_BUFFERING_ASCII
    in_buff, in_buff_idx,
    given,          \* the bytes last handed to CmdAsciiParse
    ran,            \* the command it chose, 0 for none, and the length passed
    fresh           \* what was stored since the last $ (history)

cmdvars == <<state, in_buff, in_buff_idx, given, ran, fresh>>

Chars == Text \cup {"$"}
Bytes == Chars \cup {"LF", "BS"}       \* LF: either of 0x0a and 0x0d

CmdTypeOK ==
    /\ state \in {"WAIT", "ASCII"}
    /\ in_buff \in [0 .. BufSz - 1 -> Chars \cup {"NUL"}]
    /\ in_buff_idx \in -1 .. BufSz + 1
    /\ given \in Seq(Chars)
    /\ ran \in [cmd : 0 .. Len(Names), args : 0 .. LenMod - 1]
    /\ fresh \in SUBSET Chars

CmdInit ==
    /\ state = "WAIT" /\ in_buff = [i \in 0 .. BufSz - 1 |-> "NUL"] /\ in_buff_idx = 0
    /\ given = <<>> /\ ran = [cmd |-> 0, args |-> 0] /\ fresh = {}

(* The line as it stands: the first in_buff_idx bytes of the buffer.        *)
Line == [i \in 1 .. in_buff_idx |-> in_buff[i - 1]]

MatchesNoSeparator(c) ==
    LET n == Len(Names[c])
    IN  \A i \in 1 .. n : in_buff[i - 1] = Names[c][i]

(* memcmp of the name with the buffer, and the byte after it.               *)
Matches(c) ==
    LET n == Len(Names[c])
    IN  /\ \A i \in 1 .. n : in_buff[i - 1] = Names[c][i]
        /\ in_buff_idx = n \/ in_buff[n] = Space

CmdAsciiParse ==
    \/ \E c \in DOMAIN Names :
          /\ Matches(c) /\ \A d \in 1 .. c - 1 : ~Matches(d)
          /\ ran' = [cmd |-> c, args |-> (in_buff_idx - Len(Names[c])) % LenMod]
    \/ /\ \A c \in DOMAIN Names : ~Matches(c)
       /\ ran' = [cmd |-> 0, args |-> 0]

WaitOther(b) == state = "WAIT" /\ b # "$" /\ UNCHANGED cmdvars

WaitDollarKeepingBuffer(b) ==
    /\ state = "WAIT" /\ b = "$"
    /\ state' = "ASCII" /\ in_buff_idx' = 0
    /\ fresh' = {}
    /\ UNCHANGED <<in_buff, given, ran>>

WaitDollar(b) ==
    /\ state = "WAIT" /\ b = "$"
    /\ state' = "ASCII" /\ in_buff_idx' = 0
    /\ in_buff' = [i \in 0 .. BufSz - 1 |-> "NUL"]
    /\ fresh' = {}
    /\ UNCHANGED <<given, ran>>

LineEndsStaying(b) ==
    /\ state = "ASCII" /\ b = "LF"
    /\ given' = Line
    /\ CmdAsciiParse
    /\ UNCHANGED <<state, in_buff, in_buff_idx, fresh>>

LineEnds(b) ==
    /\ state = "ASCII" /\ b = "LF"
    /\ state' = "WAIT"
    /\ given' = Line
    /\ CmdAsciiParse
    /\ UNCHANGED <<in_buff, in_buff_idx, fresh>>

BackspaceStaying(b) ==
    /\ state = "ASCII" /\ b = "BS"
    /\ in_buff_idx' = in_buff_idx - 1
    /\ UNCHANGED <<state, in_buff, given, ran, fresh>>

Backspace(b) ==
    /\ state = "ASCII" /\ b = "BS"
    /\ state' = IF in_buff_idx = 0 THEN "WAIT" ELSE "ASCII"
    /\ in_buff_idx' = in_buff_idx - 1
    /\ UNCHANGED <<in_buff, given, ran, fresh>>

Store(b) ==
    /\ state = "ASCII" /\ b \in Chars /\ in_buff_idx < BufSz
    /\ in_buff' = [in_buff EXCEPT ![in_buff_idx] = b]
    /\ in_buff_idx' = in_buff_idx + 1
    /\ fresh' = fresh \cup {b}
    /\ UNCHANGED <<state, given, ran>>

(* The byte is written behind the buffer before the index is checked.  What *)
(* lies there in cmd.c (state, out_buff, out_len, cmdres) is written again  *)
(* before it is read, and in_buff_idx, whose low byte it may replace, stays *)
(* above the limit: the write is not seen.                                  *)
BufferFull(b) ==
    /\ state = "ASCII" /\ b \in Chars /\ in_buff_idx = BufSz
    /\ state' = "WAIT" /\ in_buff_idx' = in_buff_idx + 1
    /\ UNCHANGED <<in_buff, given, ran, fresh>>

CmdParse(b) ==
    \/ WaitOther(b) \/ WaitDollar(b)
    \/ LineEnds(b) \/ Backspace(b) \/ Store(b) \/ BufferFull(b)

CmdNext == \E b \in Bytes : CmdParse(b)
CmdSpec == CmdInit /\ [][CmdNext]_cmdvars

-----------------------------------------------------------------------------

(* While a line is edited the index points into the buffer or just behind   *)
(* its last byte: no backspace takes it below zero, no character further.   *)
IndexInBuffer == state = "ASCII" => in_buff_idx \in 0 .. BufSz

(* The dispatcher compares names with the buffer, not with the line, and    *)
(* backspaces leave bytes behind.  Still, a command that is passed a length *)
(* that fits the buffer is the one the edited line names, and the length is *)
(* that of the rest of the line.                                            *)
RunsTheLine ==
    LET n == Len(Names[ran.cmd])
    IN  ran.cmd # 0 /\ ran.args <= BufSz =>
          /\ Len(given) = n + ran.args
          /\ SubSeq(given, 1, n) = Names[ran.cmd]
          /\ Len(given) > n => given[n + 1] = Space

(* Nothing of an earlier line is left in the buffer, where a backspace      *)
(* could bring it back.                                                     *)
OnlyThisLine == \A i \in 0 .. BufSz - 1 : in_buff[i] \in fresh \cup {"NUL"}

(* The command line is a line editor.  In Console it is fed through the     *)
(* queue, with bytes lost on the way in and bytes that a transfer takes.    *)
Editor == INSTANCE LineEditor WITH
    MaxLen <- BufSz,
    phase <- IF state = "WAIT" THEN "off" ELSE "on",
    text <- IF state = "WAIT" THEN <<>> ELSE Line

IsLineEditor == Editor!Spec
=============================================================================
