------------------------------ MODULE Objects -------------------------------
(***************************************************************************)
(* The wire format of objects: what $$TX builds from its arguments          *)
(* (cmdAsciiCmdTx) and how a received payload is taken apart for $$RX       *)
(* (SipfObjClientObjDown, SipfObjectParse).  A payload is a sequence of     *)
(* bytes; per object its type, its tag, the length and the value.           *)
(***************************************************************************)
EXTENDS Integers, Sequences, FiniteSets, SequencesExt

CONSTANTS
    LenMod,     \* value_len is a uint8_t: 256
    ObjMax      \* OBJ_MAX_CNT: 255

ASSUME ObjectsAssumption == LenMod \in Nat \ {0} /\ ObjMax \in Nat \ {0}

(* Types with a value of fixed length, standing for all of the table; a     *)
(* string or a binary has any.                                              *)
FixedLen == [u8 |-> 1, u16 |-> 2]

Types == DOMAIN FixedLen \cup {"bin"}

Object == [type : Types, tag : 0 .. 255, value : Seq(0 .. 255)]

CheckTypeLen(type, len) == type = "bin" \/ len = FixedLen[type]

(* The counter of the parser of $$TX.                                       *)
ValueLen(o) == Len(o.value) % LenMod

Accepts(objs) ==
    objs # <<>> /\ \A k \in DOMAIN objs : CheckTypeLen(objs[k].type, ValueLen(objs[k]))

Encode(o) == <<o.type, o.tag, ValueLen(o)>> \o o.value
Packet(objs) == FlattenSeq([k \in DOMAIN objs |-> Encode(objs[k])])

(* SipfObjectParse at an index of the payload.                              *)
Parse(p, at) == [type |-> p[at], tag |-> p[at + 1], value |-> SubSeq(p, at + 3, at + 2 + p[at + 2])]

(* The loop over the objects of a list with room for max: where each of     *)
(* them begins.                                                             *)
Starts(p, max) ==
    LET start[k \in 1 .. max] ==
            IF k = 1 THEN 1
            ELSE LET at == start[k - 1]
                 IN  IF at > Len(p) THEN at ELSE at + 3 + p[at + 2]
    IN  start

(* It ends at the end of the payload or when the list is full.              *)
Split(p, max) ==
    LET start == Starts(p, max)
        qty == Cardinality({k \in 1 .. max : start[k] <= Len(p)})
    IN  [k \in 1 .. qty |-> Parse(p, start[k])]
=============================================================================
