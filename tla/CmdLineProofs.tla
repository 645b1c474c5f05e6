--------------------------- MODULE CmdLineProofs ----------------------------
(***************************************************************************)
(* The command line, for every size of the buffer and every table of        *)
(* commands: its types, its index, that nothing of an earlier line is left  *)
(* in the buffer, and that it implements LineEditor.                        *)
(***************************************************************************)
EXTENDS CmdLine, TLAPS

(* Types and the range of the index go together: a byte is stored only      *)
(* where the buffer has a place.                                            *)
CmdInv == CmdTypeOK /\ IndexInBuffer

(* The constants of the buffer.                                             *)
LEMMA SizeTypes == BufSz \in Nat /\ BufSz > 0 /\ LenMod \in Nat /\ LenMod > 2 * BufSz
BY TableAssumption DEF TableAssumption

(* The table of names.                                                      *)
LEMMA NameTypes == Len(Names) \in Nat /\ \A c \in DOMAIN Names : c \in 1 .. Len(Names) /\ Len(Names[c]) \in Nat
BY TableAssumption DEF TableAssumption

(* What is no character.                                                    *)
LEMMA CharTypes == "NUL" \notin Chars /\ "LF" \notin Chars /\ "BS" \notin Chars
BY TextAssumption DEF TextAssumption, Chars

(* A text is the function of its places.                                    *)
LEMMA SeqAsFunction == \A s \in Seq(Chars) : s = [i \in 1 .. Len(s) |-> s[i]]
OBVIOUS

(* What the dispatch chooses has its type.                                  *)
LEMMA DispatchType ==
    ASSUME CmdInv, state = "ASCII", CmdAsciiParse
    PROVE  ran' \in [cmd : 0 .. Len(Names), args : 0 .. LenMod - 1]
<1>1. CASE \E c \in DOMAIN Names :
              ran' = [cmd |-> c, args |-> (in_buff_idx - Len(Names[c])) % LenMod]
  <2>1. PICK c \in DOMAIN Names :
              ran' = [cmd |-> c, args |-> (in_buff_idx - Len(Names[c])) % LenMod]
    BY <1>1
  <2>2. c \in 1 .. Len(Names) /\ Len(Names[c]) \in Int
    BY SizeTypes, NameTypes
  <2>3. in_buff_idx - Len(Names[c]) \in Int
    BY <2>2 DEF CmdInv, CmdTypeOK
  <2>4. (in_buff_idx - Len(Names[c])) % LenMod \in 0 .. LenMod - 1
    BY <2>3, SizeTypes, NameTypes
  <2> QED BY <2>1, <2>2, <2>4
<1>2. CASE ran' = [cmd |-> 0, args |-> 0]
  <2>1. 0 \in 0 .. Len(Names) /\ 0 \in 0 .. LenMod - 1
    BY SizeTypes, NameTypes
  <2> QED BY <1>2, <2>1
<1> QED BY <1>1, <1>2 DEF CmdAsciiParse

(* The line handed over is a sequence of characters: no place below the     *)
(* index still holds what $ left there.                                     *)
Written == state = "ASCII" => \A i \in 0 .. in_buff_idx - 1 : in_buff[i] \in Chars

(* The line is a text as long as the index says.                            *)
LEMMA LineType ==
    ASSUME CmdInv, Written, state = "ASCII"
    PROVE  Line \in Seq(Chars) /\ Len(Line) = in_buff_idx
<1>1. in_buff_idx \in Nat
  BY SizeTypes DEF CmdInv, IndexInBuffer
<1>2. \A i \in 1 .. in_buff_idx : in_buff[i - 1] \in Chars
  BY <1>1 DEF Written
<1> QED BY <1>1, <1>2 DEF Line

(* Every byte keeps types, index and Written.                               *)
LEMMA StepTypes ==
    ASSUME CmdInv, Written, [CmdNext]_cmdvars
    PROVE  CmdInv' /\ Written'
<1> USE SizeTypes DEF CmdInv, CmdTypeOK, IndexInBuffer, Written
<1>1. CASE UNCHANGED cmdvars
  BY <1>1 DEF cmdvars
<1>2. ASSUME NEW b \in Bytes, WaitOther(b) PROVE CmdInv' /\ Written'
  BY <1>2 DEF WaitOther, cmdvars
<1>3. ASSUME NEW b \in Bytes, WaitDollar(b) PROVE CmdInv' /\ Written'
  BY <1>3 DEF WaitDollar
<1>4. ASSUME NEW b \in Bytes, LineEnds(b) PROVE CmdInv' /\ Written'
  <2>1. ran' \in [cmd : 0 .. Len(Names), args : 0 .. LenMod - 1]
    BY <1>4, DispatchType DEF LineEnds
  <2>2. given' \in Seq(Chars)
    BY <1>4, LineType DEF LineEnds
  <2> QED BY <1>4, <2>1, <2>2 DEF LineEnds
<1>5. ASSUME NEW b \in Bytes, Backspace(b) PROVE CmdInv' /\ Written'
  BY <1>5 DEF Backspace
<1>6. ASSUME NEW b \in Bytes, Store(b) PROVE CmdInv' /\ Written'
  BY <1>6 DEF Store
<1>7. ASSUME NEW b \in Bytes, BufferFull(b) PROVE CmdInv' /\ Written'
  BY <1>7 DEF BufferFull
<1> QED BY <1>1, <1>2, <1>3, <1>4, <1>5, <1>6, <1>7 DEF CmdNext, CmdParse

(* Types and the range of the index, at every step (cmd.c:26-70).           *)
THEOREM CmdInvariant == CmdSpec => [](CmdInv /\ Written)
<1>1. CmdInit => CmdInv /\ Written
  BY SizeTypes, NameTypes DEF CmdInit, CmdInv, CmdTypeOK, IndexInBuffer, Written
<1>2. CmdInv /\ Written /\ [CmdNext]_cmdvars => (CmdInv /\ Written)'
  BY StepTypes
<1> QED BY <1>1, <1>2, PTL DEF CmdSpec

(* The index never leaves the buffer while a line is edited (cmd.c:50-68).  *)
THEOREM IndexCorrect == CmdSpec => []IndexInBuffer
BY CmdInvariant, PTL DEF CmdInv

(* No byte of an earlier line is left in the buffer (cmd.c:28-32).          *)
THEOREM OnlyThisLineCorrect == CmdSpec => []OnlyThisLine
<1>1. CmdInit => OnlyThisLine
  BY DEF CmdInit, OnlyThisLine
<1>2. CmdInv /\ OnlyThisLine /\ [CmdNext]_cmdvars => OnlyThisLine'
  <2> SUFFICES ASSUME CmdInv, OnlyThisLine, [CmdNext]_cmdvars PROVE OnlyThisLine'
    OBVIOUS
  <2> USE SizeTypes DEF CmdInv, CmdTypeOK, OnlyThisLine
  <2>1. CASE UNCHANGED cmdvars
    BY <2>1 DEF cmdvars
  <2>2. ASSUME NEW b \in Bytes, WaitDollar(b) PROVE OnlyThisLine'
    BY <2>2 DEF WaitDollar
  <2>3. ASSUME NEW b \in Bytes, Store(b) PROVE OnlyThisLine'
    BY <2>3 DEF Store
  <2>4. ASSUME NEW b \in Bytes, WaitOther(b) \/ LineEnds(b) \/ Backspace(b) \/ BufferFull(b)
        PROVE  OnlyThisLine'
    BY <2>4 DEF WaitOther, LineEnds, Backspace, BufferFull, cmdvars
  <2> QED BY <2>1, <2>2, <2>3, <2>4 DEF CmdNext, CmdParse
<1> QED BY <1>1, <1>2, CmdInvariant, PTL DEF CmdSpec

-----------------------------------------------------------------------------
(* The dispatch.                                                            *)

(* A length that fits the buffer did not wrap: the name is no longer than   *)
(* the line, and the name found in the buffer is found in the line.         *)
LEMMA DispatchedLine ==
    ASSUME CmdInv, Written, state = "ASCII", CmdAsciiParse, given' = Line
    PROVE  RunsTheLine'
<1>1. in_buff_idx \in 0 .. BufSz
  BY DEF CmdInv, IndexInBuffer
<1>2. Line \in Seq(Chars) /\ Len(Line) = in_buff_idx
  BY LineType
<1>3. \A i \in 1 .. in_buff_idx : Line[i] = in_buff[i - 1]
  BY DEF Line
<1>4. ASSUME NEW c \in DOMAIN Names, Matches(c),
             ran' = [cmd |-> c, args |-> (in_buff_idx - Len(Names[c])) % LenMod]
      PROVE  RunsTheLine'
  <2> DEFINE n == Len(Names[c])
             d == in_buff_idx - n
  <2>1. n \in 1 .. BufSz - 1 /\ Names[c] \in Seq(Chars)
    BY TableAssumption DEF TableAssumption, Chars
  <2>0. ran'.cmd = c /\ ran'.args = d % LenMod
    BY <1>4
  <2>2. SUFFICES ASSUME d % LenMod <= BufSz
                 PROVE  /\ Len(Line) = n + (d % LenMod)
                        /\ SubSeq(Line, 1, n) = Names[c]
                        /\ Len(Line) > n => Line[n + 1] = Space
    BY <2>0 DEF RunsTheLine
  <2>3. d \in -BufSz .. BufSz
    BY <1>1, <2>1, SizeTypes
  <2>4. d >= 0 /\ d % LenMod = d
    <3>1. CASE d >= 0
      BY <2>3, <3>1, SizeTypes
    <3>2. CASE d < 0
      <4>1. d % LenMod = d + LenMod
        BY <2>3, <3>2, SizeTypes
      <4> QED BY <4>1, <2>2, <2>3, SizeTypes
    <3> QED BY <3>1, <3>2, <2>3
  <2>5. n <= in_buff_idx /\ Len(Line) = n + (d % LenMod)
    <3>1. d % LenMod = in_buff_idx - n /\ in_buff_idx - n >= 0
      BY <2>4
    <3> HIDE DEF d
    <3> QED BY <3>1, <1>1, <1>2, <2>1, SizeTypes
  <2>6. SubSeq(Line, 1, n) = Names[c]
    <3>1. \A i \in 1 .. n : Line[i] = Names[c][i]
      BY <1>1, <1>3, <1>4, <2>1, <2>5 DEF Matches
    <3>2. SubSeq(Line, 1, n) = [i \in 1 .. n |-> Line[i]]
      BY <1>1, <1>2, <2>1, <2>5
    <3> QED BY <3>1, <3>2, <2>1, SeqAsFunction
  <2>7. ASSUME Len(Line) > n PROVE Line[n + 1] = Space
    <3>1. in_buff[n] = Space
      BY <1>2, <1>4, <2>7 DEF Matches
    <3>2. n + 1 \in 1 .. in_buff_idx /\ (n + 1) - 1 = n
      BY <1>1, <1>2, <2>1, <2>7
    <3> QED BY <3>1, <3>2, <1>3
  <2> QED BY <2>5, <2>6, <2>7
<1>5. ASSUME ran' = [cmd |-> 0, args |-> 0] PROVE RunsTheLine'
  BY <1>5 DEF RunsTheLine
<1> QED BY <1>4, <1>5 DEF CmdAsciiParse

(* A command that is passed a length that fits the buffer is the one the    *)
(* line names, and the length is that of the rest (cmd_ascii.c:984-994).    *)
THEOREM RunsTheLineCorrect == CmdSpec => []RunsTheLine
<1>1. CmdInit => RunsTheLine
  BY DEF CmdInit, RunsTheLine
<1>2. CmdInv /\ Written /\ RunsTheLine /\ [CmdNext]_cmdvars => RunsTheLine'
  <2> SUFFICES ASSUME CmdInv, Written, RunsTheLine, [CmdNext]_cmdvars PROVE RunsTheLine'
    OBVIOUS
  <2>1. CASE UNCHANGED <<given, ran>>
    BY <2>1 DEF RunsTheLine
  <2>2. ASSUME NEW b \in Bytes, LineEnds(b) PROVE RunsTheLine'
    BY <2>2, DispatchedLine DEF LineEnds
  <2>3. ASSUME NEW b \in Bytes,
               WaitOther(b) \/ WaitDollar(b) \/ Backspace(b) \/ Store(b) \/ BufferFull(b)
        PROVE  UNCHANGED <<given, ran>>
    BY <2>3 DEF WaitOther, WaitDollar, Backspace, Store, BufferFull, cmdvars
  <2> QED BY <2>1, <2>2, <2>3 DEF CmdNext, CmdParse, cmdvars
<1> QED BY <1>1, <1>2, CmdInvariant, PTL DEF CmdSpec

-----------------------------------------------------------------------------
(* The refinement.                                                          *)

(* A byte stored is appended to the line.                                   *)
LEMMA StoredLine ==
    ASSUME CmdInv, Written, NEW b \in Bytes, Store(b)
    PROVE  Line' = Append(Line, b)
<1>1. in_buff_idx \in 0 .. BufSz - 1 /\ b \in Chars
  BY SizeTypes DEF CmdInv, IndexInBuffer, Store
<1>2. \A i \in 1 .. in_buff_idx + 1 :
        in_buff'[i - 1] = IF i = in_buff_idx + 1 THEN b ELSE in_buff[i - 1]
  BY <1>1, SizeTypes DEF CmdInv, CmdTypeOK, Store
<1>3. Line' = [i \in 1 .. in_buff_idx + 1 |-> IF i = in_buff_idx + 1 THEN b ELSE in_buff[i - 1]]
  <2>1. in_buff_idx' = in_buff_idx + 1
    BY DEF Store
  <2> QED BY <1>2, <2>1 DEF Line
<1>4. Line \in Seq(Chars) /\ Len(Line) = in_buff_idx
  BY LineType DEF Store
<1>5. Append(Line, b) = [i \in 1 .. in_buff_idx + 1 |-> IF i = in_buff_idx + 1 THEN b ELSE Line[i]]
  <2>1. /\ Append(Line, b) \in Seq(Chars) /\ Len(Append(Line, b)) = in_buff_idx + 1
        /\ \A i \in 1 .. in_buff_idx + 1 : Append(Line, b)[i] = IF i = in_buff_idx + 1 THEN b ELSE Line[i]
    BY <1>1, <1>4
  <2>2. Append(Line, b) = [i \in 1 .. Len(Append(Line, b)) |-> Append(Line, b)[i]]
    BY <2>1, SeqAsFunction
  <2> QED BY <2>1, <2>2
<1>6. \A i \in 1 .. in_buff_idx : Line[i] = in_buff[i - 1]
  BY DEF Line
<1> QED BY <1>1, <1>3, <1>5, <1>6

(* A backspace takes the last byte off the line.                            *)
LEMMA ErasedLine ==
    ASSUME CmdInv, Written, NEW b \in Bytes, Backspace(b), in_buff_idx > 0
    PROVE  Line # <<>> /\ Line' = SubSeq(Line, 1, Len(Line) - 1)
<1>1. in_buff_idx \in 1 .. BufSz
  BY SizeTypes DEF CmdInv, IndexInBuffer, Backspace
<1>2. Line \in Seq(Chars) /\ Len(Line) = in_buff_idx
  BY LineType DEF Backspace
<1>3. Line' = [i \in 1 .. in_buff_idx - 1 |-> in_buff[i - 1]]
  BY DEF Line, Backspace
<1>4. SubSeq(Line, 1, in_buff_idx - 1) = [i \in 1 .. in_buff_idx - 1 |-> Line[i]]
  BY <1>1, <1>2
<1>5. \A i \in 1 .. in_buff_idx - 1 : Line[i] = in_buff[i - 1]
  BY <1>1 DEF Line
<1> QED BY <1>1, <1>2, <1>3, <1>4, <1>5

(* At index 0 the line is empty.                                            *)
LEMMA EmptyLine ==
    ASSUME CmdInv, Written, state = "ASCII", in_buff_idx = 0
    PROVE  Line = <<>>
<1>1. Line \in Seq(Chars) /\ Len(Line) = 0
  BY LineType
<1> QED BY <1>1

(* Each byte is a step of the editor or none (cmd.c:26-70).                 *)
LEMMA EditorStep ==
    ASSUME CmdInv, Written, [CmdNext]_cmdvars
    PROVE  [Editor!Next]_(Editor!vars)
<1> USE DEF Editor!Next, Editor!vars
<1>1. CASE UNCHANGED cmdvars
  BY <1>1 DEF cmdvars, Line
<1>2. ASSUME NEW b \in Bytes, WaitOther(b) PROVE UNCHANGED Editor!vars
  BY <1>2 DEF WaitOther, cmdvars, Line
<1>3. ASSUME NEW b \in Bytes, WaitDollar(b) PROVE Editor!Open
  <2>1. Line' = <<>>
    <3>1. in_buff_idx' = 0 /\ Line' = [i \in 1 .. 0 |-> in_buff'[i - 1]]
      BY <1>3 DEF WaitDollar, Line
    <3> QED BY <3>1
  <2> QED BY <1>3, <2>1 DEF WaitDollar, Editor!Open
<1>4. ASSUME NEW b \in Bytes, LineEnds(b) PROVE Editor!HandOver
  BY <1>4 DEF LineEnds, Editor!HandOver, Editor!Close
<1>5. ASSUME NEW b \in Bytes, Backspace(b) PROVE Editor!Erase \/ Editor!Leave
  <2>1. CASE in_buff_idx = 0
    BY <1>5, <2>1, EmptyLine DEF Backspace, Editor!Leave, Editor!Close
  <2>2. CASE in_buff_idx > 0
    BY <1>5, <2>2, ErasedLine DEF Backspace, Editor!Erase
  <2>3. in_buff_idx \in Nat
    BY <1>5, SizeTypes DEF Backspace, CmdInv, IndexInBuffer
  <2> QED BY <2>1, <2>2, <2>3
<1>6. ASSUME NEW b \in Bytes, Store(b) PROVE Editor!Type
  <2>1. Len(Line) < BufSz /\ Line' = Append(Line, b) /\ b \in Chars
    BY <1>6, LineType, StoredLine DEF Store
  <2> QED BY <1>6, <2>1 DEF Store, Editor!Type
<1>7. ASSUME NEW b \in Bytes, BufferFull(b) PROVE Editor!Overflow
  BY <1>7, LineType DEF BufferFull, Editor!Overflow, Editor!Close
<1> QED BY <1>1, <1>2, <1>3, <1>4, <1>5, <1>6, <1>7 DEF CmdNext, CmdParse

(* The command line implements the line editor.                             *)
THEOREM EditorCorrect == CmdSpec => IsLineEditor
<1>1. CmdInit => Editor!Init
  BY DEF CmdInit, Editor!Init
<1>2. CmdInv /\ Written /\ [CmdNext]_cmdvars => [Editor!Next]_(Editor!vars)
  BY EditorStep
<1> QED BY <1>1, <1>2, CmdInvariant, PTL DEF CmdSpec, IsLineEditor, Editor!Spec
=============================================================================
