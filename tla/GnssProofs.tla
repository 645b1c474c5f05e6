----------------------------- MODULE GnssProofs -----------------------------
(***************************************************************************)
(* The answers of the GNSS commands, for every size of the table and every  *)
(* interleaving with the interrupt.                                         *)
(***************************************************************************)
EXTENDS Gnss, TLAPS

Listing == pc \in {"line", "half", "listed"}
Row(r) == nmea_strings[r]
Filled == 0 .. nmea_string_cnt - 1

(* The rows up to the count are in the order of the modem, and none is      *)
(* newer than the last sentence.                                            *)
TableInOrder ==
    /\ \A r \in Filled : Row(r) <= sentence
    /\ \A q, r \in Filled : q < r => Row(q) < Row(r)

(* What was copied is older than every row still to be copied, whatever     *)
(* the interrupt has put there: a row replaced holds a later sentence.      *)
CopiedOlder ==
    /\ Listing => i = Len(lines)
    /\ \A m \in DOMAIN lines : lines[m].tail <= sentence
    /\ Listing => \A m \in DOMAIN lines, r \in Filled : i <= r => lines[m].tail < Row(r)

HeadCopied ==
    pc = "half" =>
        /\ i < MaxLines /\ head <= Row(i) /\ Row(i) <= sentence
        /\ \A r \in Filled : i < r => head < Row(r)
        /\ \A m \in DOMAIN lines : lines[m].tail < head

Fits == Len(lines) <= MaxLines

Located ==
    /\ last_gps_pvt.frame = read
    /\ pc # "idle" => since <= read
    /\ pc \in {"flags", "verdict", "located"} => since <= data.position /\ data.position <= read
    /\ pc \in {"verdict", "located"} => data.position <= data.flags /\ data.flags <= read
    /\ pc = "located" => data.flags <= data.verdict /\ data.verdict <= read

GnssInv ==
    /\ TypeOK /\ read <= frame
    /\ TableInOrder /\ CopiedOlder /\ HeadCopied /\ Fits /\ Located /\ NmeaInOrder

-----------------------------------------------------------------------------

(* The bounds are numbers.                                                  *)
LEMMA Sizes == MaxLines \in Nat /\ MaxLines > 0 /\ MaxFrames \in Nat /\ MaxSentences \in Nat
BY GnssAssumption DEF GnssAssumption

(* What the steps need of TypeOK.                                           *)
TableTypes ==
    /\ nmea_string_cnt \in 0 .. MaxLines /\ sentence \in Nat
    /\ \A r \in 0 .. MaxLines - 1 : Row(r) \in Nat

LineTypes ==
    /\ i \in Nat /\ head \in Nat /\ Len(lines) \in Nat /\ DOMAIN lines = 1 .. Len(lines)
    /\ \A m \in DOMAIN lines : lines[m].head \in Nat /\ lines[m].tail \in Nat

DataTypes ==
    /\ read \in Nat /\ since \in Nat /\ last_gps_pvt.frame \in Nat
    /\ data.position \in Nat /\ data.flags \in Nat /\ data.verdict \in Nat

(* A row of an answer is one of its set.                                    *)
LEMMA ElementOf == ASSUME NEW S, NEW s \in Seq(S), NEW m \in DOMAIN s PROVE s[m] \in S
OBVIOUS

(* The parts of TypeOK under their names.                                   *)
LEMMA SmallTypes == TypeOK => TableTypes /\ LineTypes /\ DataTypes
<1> SUFFICES ASSUME TypeOK PROVE TableTypes /\ LineTypes /\ DataTypes
  OBVIOUS
<1> USE Sizes DEF TypeOK, Frames, Sentences
<1>1. TableTypes
  BY DEF TableTypes, Row
<1>2. LineTypes
  <2>1. ASSUME NEW m \in DOMAIN lines PROVE lines[m].head \in Nat /\ lines[m].tail \in Nat
    <3>1. lines[m] \in [head : Sentences, tail : Sentences]
      BY <2>1, ElementOf
    <3> QED BY <3>1
  <2>2. i \in Nat /\ head \in Nat /\ Len(lines) \in Nat /\ DOMAIN lines = 1 .. Len(lines)
    OBVIOUS
  <2> QED BY <2>1, <2>2 DEF LineTypes
<1>3. DataTypes
  BY DEF DataTypes
<1> QED BY <1>1, <1>2, <1>3

(* It holds at power-up.                                                    *)
LEMMA InitInv == Init => GnssInv
<1> SUFFICES ASSUME Init PROVE GnssInv
  OBVIOUS
<1>1. TypeOK /\ read <= frame
  <2>1. 0 \in Frames /\ 0 \in Sentences /\ 0 \in 0 .. MaxCommands /\ 0 \in 0 .. MaxLines
    BY GnssAssumption DEF GnssAssumption, Frames, Sentences
  <2>2. lines \in Seq([head : Sentences, tail : Sentences])
    BY DEF Init
  <2>3. /\ data \in [position : Frames, flags : Frames, verdict : Frames, valid : BOOLEAN]
        /\ last_gps_pvt \in [frame : Frames, valid : BOOLEAN]
    BY <2>1 DEF Init, NoData
  <2>4. nmea_strings \in [0 .. MaxLines - 1 -> Sentences]
    BY <2>1 DEF Init
  <2>5. read <= frame
    BY DEF Init
  <2> QED BY <2>1, <2>2, <2>3, <2>4, <2>5 DEF Init, TypeOK
<1>2. TableInOrder /\ CopiedOlder /\ HeadCopied /\ Fits /\ Located /\ NmeaInOrder
  BY Sizes DEF Init, NoData, TableInOrder, CopiedOlder, HeadCopied, Fits, Located, NmeaInOrder,
               Filled, Row, Listing
<1> QED BY <1>1, <1>2 DEF GnssInv

(* Types.                                                                   *)
LEMMA StepTypes == GnssInv /\ [Next]_vars => TypeOK' /\ (read <= frame)'
<1> SUFFICES ASSUME GnssInv, [Next]_vars PROVE TypeOK' /\ (read <= frame)'
  OBVIOUS
<1> USE Sizes DEF Frames, Sentences
<1>0. TypeOK /\ read <= frame /\ HeadCopied
  BY DEF GnssInv
<1>1. CASE UNCHANGED vars
  BY <1>0, <1>1 DEF TypeOK, vars, modem, store, command
<1>2. CASE EventPvt
  BY <1>0, <1>2 DEF TypeOK, EventPvt, command
<1>3. CASE EventNmea
  <2>1. sentence' \in Sentences
    BY <1>0, <1>3 DEF TypeOK, EventNmea
  <2>2. nmea_strings' \in [0 .. MaxLines - 1 -> Sentences] /\ nmea_string_cnt' \in 0 .. MaxLines
    <3>1. nmea_strings \in [0 .. MaxLines - 1 -> Sentences] /\ nmea_string_cnt \in 0 .. MaxLines
      BY <1>0 DEF TypeOK
    <3> HIDE DEF Sentences
    <3> QED BY <1>3, <2>1, <3>1 DEF EventNmea, Store
  <2>3. UNCHANGED <<handler, running, frame, read, last_gps_pvt, command>>
    BY <1>3 DEF EventNmea
  <2> QED BY <1>0, <2>1, <2>2, <2>3 DEF TypeOK, command
<1>4. CASE Enable \/ GetData \/ ListNmea
  <2>1. /\ pc' \in {"idle", "position", "line"} /\ commands' \in 0 .. MaxCommands
        /\ since' = read /\ i' = 0 /\ lines' = <<>> /\ data' = NoData /\ head' = 0
        /\ running' \in BOOLEAN /\ UNCHANGED <<handler, frame, sentence, read, store>>
    BY <1>0, <1>4, GnssAssumption DEF GnssAssumption, TypeOK, Enable, GetData, ListNmea, Begin, modem
  <2>2. /\ data' \in [position : Frames, flags : Frames, verdict : Frames, valid : BOOLEAN]
        /\ lines' \in Seq([head : Sentences, tail : Sentences])
    BY <2>1 DEF NoData
  <2> QED BY <1>0, <2>1, <2>2 DEF TypeOK, store
<1>5. CASE CopyPosition \/ CopyFlags \/ ReadVerdict
  BY <1>0, <1>5 DEF TypeOK, CopyPosition, CopyFlags, ReadVerdict, modem, store
<1>6. CASE CopyHead
  BY <1>0, <1>6 DEF TypeOK, CopyHead, modem, store
<1>7. CASE CopyTail
  <2>1. PICK t \in {nmea_strings[i], head} : lines' = Append(lines, [head |-> head, tail |-> t])
    BY <1>7 DEF CopyTail
  <2>2. i \in 0 .. MaxLines - 1
    BY <1>0, <1>7 DEF TypeOK, CopyTail, HeadCopied
  <2>3. lines' \in Seq([head : Sentences, tail : Sentences])
    BY <1>0, <2>1, <2>2 DEF TypeOK
  <2> QED BY <1>0, <1>7, <2>2, <2>3 DEF TypeOK, CopyTail, modem, store
<1>8. CASE NoMoreLines \/ Answer
  BY <1>0, <1>8 DEF TypeOK, NoMoreLines, Answer, modem, store
<1> QED BY <1>1, <1>2, <1>3, <1>4, <1>5, <1>6, <1>7, <1>8 DEF Next, Main

(* A sentence of the modem fills one row more, or none.                     *)
LEMMA SentenceStored ==
    ASSUME GnssInv, EventNmea
    PROVE  /\ sentence' = sentence + 1 /\ UNCHANGED command
           /\ nmea_string_cnt' \in {nmea_string_cnt, nmea_string_cnt + 1}
           /\ nmea_string_cnt' <= MaxLines
           /\ \A r \in 0 .. MaxLines - 1 :
                 Row(r)' = IF nmea_string_cnt' = nmea_string_cnt + 1 /\ r = nmea_string_cnt
                           THEN sentence' ELSE Row(r)
<1>1. nmea_string_cnt \in 0 .. MaxLines /\ nmea_strings \in [0 .. MaxLines - 1 -> Sentences]
  BY DEF GnssInv, TypeOK
<1>2. sentence' = sentence + 1 /\ UNCHANGED command
  BY DEF EventNmea
<1>3. CASE UNCHANGED <<nmea_strings, nmea_string_cnt>>
  BY <1>1, <1>2, <1>3, Sizes DEF Row
<1>4. CASE /\ nmea_string_cnt < MaxLines
           /\ nmea_strings' = [nmea_strings EXCEPT ![nmea_string_cnt] = sentence']
           /\ nmea_string_cnt' = nmea_string_cnt + 1
  BY <1>1, <1>2, <1>4, Sizes DEF Row
<1> QED BY <1>3, <1>4 DEF EventNmea, Store

(* The table, under both interrupts; the commands only read it.             *)
LEMMA StepTable == GnssInv /\ [Next]_vars => TableInOrder'
<1> SUFFICES ASSUME GnssInv, [Next]_vars PROVE TableInOrder'
  OBVIOUS
<1> USE Sizes DEF TableInOrder, Filled
<1>0. TableTypes /\ TableInOrder
  BY SmallTypes DEF GnssInv
<1>1. CASE EventPvt
  BY <1>1 DEF EventPvt
<1>2. CASE EventNmea
  BY <1>0, <1>2, SentenceStored DEF TableTypes
<1>3. CASE UNCHANGED <<sentence, store>>
  BY <1>0, <1>3 DEF store, Row
<1>4. Main \/ UNCHANGED vars => UNCHANGED <<sentence, store>>
  BY DEF Main, Enable, GetData, CopyPosition, CopyFlags, ReadVerdict, ListNmea, CopyHead,
         CopyTail, NoMoreLines, Answer, modem, store, vars
<1> QED BY <1>1, <1>2, <1>3, <1>4 DEF Next

(* The answer of $$GNSSNMEA.                                                *)
Listed == CopiedOlder /\ HeadCopied /\ Fits /\ NmeaInOrder

(* Every step keeps answers in order.                                       *)
LEMMA StepListed == GnssInv /\ [Next]_vars => Listed'
<1> SUFFICES ASSUME GnssInv, [Next]_vars PROVE Listed'
  OBVIOUS
<1> USE Sizes DEF Listed
<1>0. TableTypes /\ LineTypes /\ TableInOrder /\ Listed
  BY SmallTypes DEF GnssInv
<1>1. CASE UNCHANGED <<pc, i, head, lines, sentence, nmea_strings>> /\ nmea_string_cnt' \in {0, nmea_string_cnt}
  <2>1. Filled' \subseteq Filled
    <3>1. CASE nmea_string_cnt' = 0
      BY <3>1 DEF Filled
    <3>2. CASE nmea_string_cnt' = nmea_string_cnt
      BY <3>2 DEF Filled
    <3> QED BY <1>1, <3>1, <3>2
  <2>2. UNCHANGED Listing /\ \A r : Row(r)' = Row(r)
    BY <1>1 DEF Listing, Row
  <2> QED BY <1>0, <1>1, <2>1, <2>2 DEF CopiedOlder, HeadCopied, Fits, NmeaInOrder
<1>2. CASE EventNmea
  <2>1. /\ sentence' = sentence + 1 /\ UNCHANGED <<pc, i, head, lines, Listing>>
        /\ \A r \in Filled' : r \in Filled \/ Row(r)' = sentence'
        /\ \A r \in 0 .. MaxLines - 1 : Row(r)' \in {Row(r), sentence'}
        /\ \A r \in Filled : Row(r)' = Row(r) /\ r \in 0 .. MaxLines - 1
        /\ \A r \in Filled' : r \in 0 .. MaxLines - 1
    BY <1>0, <1>2, SentenceStored DEF TableTypes, Filled, command, Listing
  <2>2. CopiedOlder'
    <3>1. \A m \in DOMAIN lines : lines[m].tail <= sentence /\ lines[m].tail \in Nat
      BY <1>0 DEF CopiedOlder, LineTypes
    <3>2. \A m \in DOMAIN lines : lines[m].tail < sentence'
      BY <1>0, <2>1, <3>1 DEF TableTypes
    <3>3. \A m \in DOMAIN lines : lines[m].tail <= sentence'
      BY <1>0, <2>1, <3>1 DEF TableTypes
    <3>4. Listing => \A m \in DOMAIN lines, r \in Filled' : i <= r => lines[m].tail < Row(r)'
      BY <1>0, <2>1, <3>2 DEF CopiedOlder
    <3> QED BY <1>0, <2>1, <3>3, <3>4 DEF CopiedOlder
  <2>3. ASSUME pc = "half" PROVE HeadCopied'
    <3>1. /\ i \in 0 .. MaxLines - 1 /\ head <= Row(i) /\ Row(i) <= sentence
          /\ \A r \in Filled : i < r => head < Row(r)
          /\ \A m \in DOMAIN lines : lines[m].tail < head
      BY <1>0, <2>3 DEF HeadCopied, LineTypes
    <3>2. head <= Row(i)' /\ Row(i)' <= sentence'
      BY <1>0, <2>1, <3>1 DEF TableTypes, LineTypes
    <3>3. \A r \in Filled' : i < r => head < Row(r)'
      BY <1>0, <2>1, <3>1 DEF TableTypes, LineTypes
    <3> QED BY <2>1, <3>1, <3>2, <3>3 DEF HeadCopied, Row
  <2>4. ASSUME pc # "half" PROVE HeadCopied'
    BY <2>1, <2>4 DEF HeadCopied
  <2> QED BY <1>0, <2>1, <2>2, <2>3, <2>4 DEF Fits, NmeaInOrder
<1>3. CASE lines' = <<>> /\ i' = 0 /\ pc' \in {"idle", "position", "line"}
  BY <1>3 DEF CopiedOlder, HeadCopied, Fits, NmeaInOrder, Listing
<1>4. CASE /\ UNCHANGED <<modem, store, i, lines>>
           /\ pc' # "half" /\ (Listing' => Listing)
  BY <1>0, <1>4 DEF CopiedOlder, HeadCopied, Fits, NmeaInOrder, Filled, Row, modem, store
<1>5. CASE CopyHead
  <2>1. i \in Filled /\ head' = Row(i) /\ pc = "line" /\ pc' = "half"
    BY <1>0, <1>5 DEF CopyHead, Filled, Row, LineTypes, TableTypes
  <2>2. UNCHANGED <<sentence, i, lines, Filled>> /\ \A r : Row(r)' = Row(r)
    BY <1>5 DEF CopyHead, modem, store, Filled, Row
  <2>3. HeadCopied'
    <3>1. i < MaxLines /\ Row(i) <= sentence /\ \A r \in Filled : i < r => Row(i) < Row(r)
      BY <1>0, <2>1 DEF TableInOrder, Filled, TableTypes
    <3>2. \A m \in DOMAIN lines : lines[m].tail < Row(i)
      BY <1>0, <2>1 DEF CopiedOlder, Listing, LineTypes
    <3>3. Row(i) <= Row(i)
      BY <1>0, <2>1 DEF TableTypes, Filled
    <3> QED BY <2>1, <2>2, <3>1, <3>2, <3>3 DEF HeadCopied
  <2>4. CopiedOlder'
    BY <1>0, <2>1, <2>2 DEF CopiedOlder, Listing
  <2> QED BY <1>0, <2>2, <2>3, <2>4 DEF Fits, NmeaInOrder
<1>6. CASE CopyTail
  <2>1. PICK t \in {Row(i), head} : lines' = Append(lines, [head |-> head, tail |-> t])
    BY <1>6 DEF CopyTail, Row
  <2>2. /\ pc = "half" /\ pc' = "line" /\ i' = i + 1 /\ i = Len(lines)
        /\ UNCHANGED <<sentence, Filled>> /\ \A r : Row(r)' = Row(r)
    BY <1>0, <1>6 DEF CopyTail, CopiedOlder, Listing, modem, store, Filled, Row
  <2>3. /\ i \in 0 .. MaxLines - 1 /\ t \in Nat /\ head \in Nat /\ Row(i) \in Nat
        /\ head <= t /\ t <= Row(i) /\ Row(i) <= sentence /\ sentence \in Nat
    BY <1>0, <2>1, <2>2 DEF HeadCopied, TableTypes, LineTypes
  <2>4. /\ Len(lines') = i + 1
        /\ lines'[i + 1] = [head |-> head, tail |-> t]
        /\ \A m \in 1 .. i : lines'[m] = lines[m]
    <3>1. lines \in Seq([head : Sentences, tail : Sentences])
      BY DEF GnssInv, TypeOK
    <3> QED BY <2>1, <2>2, <3>1
  <2>5. DOMAIN lines = 1 .. i /\ DOMAIN lines' = 1 .. i + 1
    <3>1. lines \in Seq([head : Sentences, tail : Sentences])
      BY DEF GnssInv, TypeOK
    <3> QED BY <2>1, <2>2, <3>1
  <2>6. lines'[i + 1].head = head /\ lines'[i + 1].tail = t
    BY <2>4
  <2>7. \A m \in 1 .. i : lines'[m].tail = lines[m].tail /\ lines'[m].head = lines[m].head /\ lines[m].tail \in Nat
    BY <1>0, <2>4, <2>5 DEF LineTypes
  <2>8. CopiedOlder'
    <3>1. ASSUME NEW m \in 1 .. i + 1 PROVE lines'[m].tail <= sentence
      BY <1>0, <2>3, <2>5, <2>6, <2>7, <3>1 DEF CopiedOlder
    <3>2. ASSUME NEW m \in 1 .. i + 1, NEW r \in Filled, i + 1 <= r PROVE lines'[m].tail < Row(r)
      <4>1. r \in Nat /\ i <= r /\ Row(r) \in Nat /\ i \in Filled /\ Row(i) < Row(r)
        BY <1>0, <2>3, <3>2 DEF TableInOrder, Filled, TableTypes
      <4>2. CASE m = i + 1
        BY <2>3, <2>6, <4>1, <4>2
      <4>3. CASE m \in 1 .. i
        BY <1>0, <2>2, <2>5, <2>7, <4>1, <4>3 DEF CopiedOlder, Listing
      <4> QED BY <2>3, <4>2, <4>3
    <3> QED BY <2>2, <2>4, <2>5, <3>1, <3>2 DEF CopiedOlder
  <2>9. NmeaInOrder'
    <3>1. \A m \in 1 .. i : lines[m].tail < head /\ lines[m].head <= lines[m].tail
      BY <1>0, <2>2, <2>5 DEF HeadCopied, NmeaInOrder
    <3>2. \A m, n \in 1 .. i : m < n => lines[m].tail < lines[n].head
      BY <1>0, <2>5 DEF NmeaInOrder
    <3>3. \A m \in 1 .. i + 1 : lines'[m].head <= lines'[m].tail
      BY <2>3, <2>6, <2>7, <3>1
    <3>4. \A m, n \in 1 .. i + 1 : m < n => lines'[m].tail < lines'[n].head
      BY <2>3, <2>6, <2>7, <3>1, <3>2
    <3> QED BY <2>5, <3>3, <3>4 DEF NmeaInOrder
  <2> QED BY <2>2, <2>3, <2>4, <2>8, <2>9 DEF HeadCopied, Fits
<1>7. EventPvt => /\ UNCHANGED <<pc, i, head, lines, sentence, nmea_strings>>
                  /\ nmea_string_cnt' \in {0, nmea_string_cnt}
  BY DEF EventPvt, command
<1>8. UNCHANGED vars => UNCHANGED <<pc, i, head, lines, sentence, nmea_strings, nmea_string_cnt>>
  BY DEF vars, modem, store, command
<1>9. Enable \/ GetData \/ ListNmea => lines' = <<>> /\ i' = 0 /\ pc' \in {"idle", "position", "line"}
  BY DEF Enable, GetData, ListNmea, Begin
<1>10. CopyPosition \/ CopyFlags \/ ReadVerdict \/ NoMoreLines \/ Answer
         => UNCHANGED <<modem, store, i, lines>> /\ pc' # "half" /\ (Listing' => Listing)
  BY DEF CopyPosition, CopyFlags, ReadVerdict, NoMoreLines, Answer, Listing
<1> QED BY <1>1, <1>2, <1>3, <1>4, <1>5, <1>6, <1>7, <1>8, <1>9, <1>10 DEF Next, Main

(* The answer of $$GNSSLOC.                                                 *)
LEMMA StepLocated == GnssInv /\ [Next]_vars => Located'
<1> SUFFICES ASSUME GnssInv, [Next]_vars PROVE Located'
  OBVIOUS
<1> USE DEF Located
<1>0. DataTypes /\ Located /\ read <= frame /\ frame \in Nat
  BY SmallTypes, Sizes DEF GnssInv, TypeOK, Frames
<1>1. CASE EventPvt
  <2>1. /\ UNCHANGED <<pc, since, data>> /\ last_gps_pvt'.frame = read' /\ read <= read'
        /\ read' \in Nat
    BY <1>0, <1>1 DEF EventPvt, command, DataTypes
  <2> QED BY <1>0, <2>1 DEF DataTypes
<1>2. CASE EventNmea \/ UNCHANGED vars
  BY <1>0, <1>2 DEF EventNmea, vars, modem, store, command
<1>3. CASE Enable \/ GetData \/ ListNmea
  BY <1>0, <1>3 DEF Enable, GetData, ListNmea, Begin, modem, store, DataTypes
<1>4. CASE CopyPosition
  <2>1. data'.position = last_gps_pvt.frame
    <3>1. data \in [position : Frames, flags : Frames, verdict : Frames, valid : BOOLEAN]
      BY DEF GnssInv, TypeOK
    <3> QED BY <1>4, <3>1 DEF CopyPosition
  <2> QED BY <1>0, <1>4, <2>1 DEF CopyPosition, modem, store, DataTypes
<1>5. CASE CopyFlags
  <2>1. data'.position = data.position /\ data'.flags = last_gps_pvt.frame
    <3>1. data \in [position : Frames, flags : Frames, verdict : Frames, valid : BOOLEAN]
      BY DEF GnssInv, TypeOK
    <3> QED BY <1>5, <3>1 DEF CopyFlags
  <2> QED BY <1>0, <1>5, <2>1 DEF CopyFlags, modem, store, DataTypes
<1>6. CASE ReadVerdict
  <2>1. data'.position = data.position /\ data'.flags = data.flags /\ data'.verdict = last_gps_pvt.frame
    <3>1. data \in [position : Frames, flags : Frames, verdict : Frames, valid : BOOLEAN]
      BY DEF GnssInv, TypeOK
    <3> QED BY <1>6, <3>1 DEF ReadVerdict
  <2> QED BY <1>0, <1>6, <2>1 DEF ReadVerdict, modem, store, DataTypes
<1>7. CASE CopyHead \/ CopyTail \/ NoMoreLines \/ Answer
  BY <1>0, <1>7 DEF CopyHead, CopyTail, NoMoreLines, Answer, modem, store
<1> QED BY <1>1, <1>2, <1>3, <1>4, <1>5, <1>6, <1>7 DEF Next, Main

(* The inductive invariant.                                                 *)
THEOREM GnssInvariant == Spec => []GnssInv
<1>1. GnssInv /\ [Next]_vars => GnssInv'
  BY StepTypes, StepTable, StepListed, StepLocated DEF GnssInv, Listed
<1> QED BY <1>1, InitInv, PTL DEF Spec

(* Types: no row behind the table is ever written or read.                  *)
THEOREM TypeCorrect == Spec => []TypeOK
BY GnssInvariant, PTL DEF GnssInv

(* The sentences of an answer are in the order of the modem, none twice     *)
(* (gnss.c, gnss_strcpy_nmea against on_gnss_evt_nmea).                     *)
THEOREM NmeaCorrect == Spec => []NmeaInOrder
BY GnssInvariant, PTL DEF GnssInv

(* An answer has no more lines than the table has rows.                     *)
THEOREM FitsCorrect == Spec => []AnswerFits
<1>1. GnssInv => AnswerFits
  BY DEF GnssInv, AnswerFits, Fits, HeadCopied
<1> QED BY <1>1, GnssInvariant, PTL

(* An answer to $$GNSSLOC is no older than the command, and its parts are   *)
(* in the order they were copied (gnss.c, gnss_get_data).                   *)
THEOREM LocationCorrect == Spec => []FreshLocation
<1>1. GnssInv => FreshLocation
  BY DEF GnssInv, Located, FreshLocation
<1> QED BY <1>1, GnssInvariant, PTL
=============================================================================
