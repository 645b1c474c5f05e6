----------------------------- MODULE WireProofs -----------------------------
(***************************************************************************)
(* What is read of a packet of objects is what was packed, and what is      *)
(* taken out of a URL line is what was put together: for values, names and  *)
(* lists of every length.                                                   *)
(***************************************************************************)
EXTENDS Objects, SipfUrl, SeqFacts, FiniteSetTheorems, WellFoundedInduction

-----------------------------------------------------------------------------
(* Counting up.                                                             *)

(* A set of natural numbers has a least element.                            *)
LEMMA LeastNat ==
    ASSUME NEW T \in SUBSET Nat, T # {}
    PROVE  \E x \in T : \A y \in T : x <= y
  <1>1. IsWellFoundedOn(OpToRel(<, Nat), Nat)
    BY NatLessThanWellFounded
  <1>2. PICK x \in T : \A y \in T : ~ (<<y, x>> \in OpToRel(<, Nat))
    BY <1>1, WFMin
  <1>3. ASSUME NEW y \in T PROVE x <= y
    <2>1. <<y, x>> \notin OpToRel(<, Nat)
      BY <1>2
    <2>2. y < x => <<y, x>> \in OpToRel(<, Nat)
      BY DEF OpToRel
    <2>3. ~ (y < x)
      BY <2>1, <2>2, Zenon
    <2>. QED  BY <2>3
  <1>. QED  BY <1>3

(* What holds of 0 and passes on from each number to the next holds of all. *)
LEMMA ByNat ==
    ASSUME NEW T, 0 \in T, \A n \in Nat : n \in T => n + 1 \in T
    PROVE  \A n \in Nat : n \in T
  <1>. DEFINE Bad == {n \in Nat : n \notin T}
  <1>. SUFFICES ASSUME Bad # {} PROVE FALSE
    OBVIOUS
  <1>1. PICK x \in Bad : \A y \in Bad : x <= y
    BY LeastNat
  <1>2. x # 0 /\ x - 1 \in Nat
    OBVIOUS
  <1>3. x - 1 \in T
    BY <1>1, <1>2
  <1>. QED  BY <1>2, <1>3

-----------------------------------------------------------------------------
(* Sequences put one behind the other.                                      *)

(* What the first m pieces make, for each m up to n.                        *)
Concats(F, s, n) == F[0] = <<>> /\ \A i \in 1 .. n : F[i] = F[i - 1] \o s[i]

Concatenable(U, s, n) == \E F \in [0 .. n -> Seq(U)] : Concats(F, s, n)

(* One piece more.                                                          *)
LEMMA OnePiece ==
    ASSUME NEW U, NEW s \in Seq(Seq(U)), NEW m \in Nat, m + 1 <= Len(s), Concatenable(U, s, m)
    PROVE  Concatenable(U, s, m + 1)
  <1>1. PICK F \in [0 .. m -> Seq(U)] : Concats(F, s, m)
    BY DEF Concatenable
  <1>2. F[m] \in Seq(U) /\ s[m + 1] \in Seq(U)
    OBVIOUS
  <1>3. F[m] \o s[m + 1] \in Seq(U)
    BY <1>2, ConcatProperties
  <1>. DEFINE G == [i \in 0 .. m + 1 |-> IF i = m + 1 THEN F[m] \o s[m + 1] ELSE F[i]]
  <1>4. G \in [0 .. m + 1 -> Seq(U)]
    BY <1>3
  <1>5. G[m + 1] = F[m] \o s[m + 1] /\ \A i \in 0 .. m : G[i] = F[i]
    OBVIOUS
  <1>. HIDE DEF G
  <1>6. G[0] = <<>>
    BY <1>1, <1>5 DEF Concats
  <1>7. ASSUME NEW i \in 1 .. m + 1 PROVE G[i] = G[i - 1] \o s[i]
    <2>1. CASE i = m + 1
      <3>1. i - 1 = m /\ G[i - 1] = F[m]
        BY <1>5, <2>1
      <3>. QED  BY <1>5, <2>1, <3>1
    <2>2. CASE i # m + 1
      <3>1. i \in 1 .. m /\ G[i] = F[i] /\ G[i - 1] = F[i - 1]
        BY <1>5, <2>2
      <3>. QED  BY <1>1, <3>1 DEF Concats
    <2>. QED  BY <2>1, <2>2
  <1>8. Concats(G, s, m + 1)
    BY <1>6, <1>7 DEF Concats
  <1>. QED  BY <1>4, <1>8 DEF Concatenable

(* All pieces.                                                              *)
LEMMA AllPieces ==
    ASSUME NEW U, NEW s \in Seq(Seq(U))
    PROVE  Concatenable(U, s, Len(s))
  <1>. DEFINE T == {m \in Nat : m <= Len(s) => Concatenable(U, s, m)}
  <1>1. 0 \in T
    <2>. DEFINE F == [i \in 0 .. 0 |-> <<>>]
    <2>1. F \in [0 .. 0 -> Seq(U)] /\ F[0] = <<>>
      OBVIOUS
    <2>. HIDE DEF F
    <2>2. Concats(F, s, 0)
      BY <2>1 DEF Concats
    <2>3. Concatenable(U, s, 0)
      BY <2>1, <2>2 DEF Concatenable
    <2>. QED  BY <2>3
  <1>2. ASSUME NEW m \in Nat, m \in T PROVE m + 1 \in T
    <2>1. m + 1 <= Len(s) => Concatenable(U, s, m + 1)
      BY <1>2, OnePiece
    <2>. QED  BY <2>1
  <1>3. \A m \in Nat : m \in T
    <2>. HIDE DEF T
    <2>. QED  BY <1>1, <1>2, ByNat
  <1>. QED  BY <1>3

(* FlattenSeq is the last of them.                                          *)
LEMMA FlattenIsLast ==
    ASSUME NEW U, NEW s \in Seq(Seq(U)), NEW F \in [0 .. Len(s) -> Seq(U)], Concats(F, s, Len(s))
    PROVE  FlattenSeq(s) = F[Len(s)]
  <1>1. CASE Len(s) = 0
    <2>1. s = <<>>
      BY <1>1, EmptySeq
    <2>. QED  BY <1>1, <2>1 DEF FlattenSeq, Concats
  <1>2. CASE Len(s) # 0
    <2>. DEFINE f == [i \in 1 .. Len(s) |-> F[i]]
                Step(g) == [i \in 1 .. Len(s) |-> IF i = 1 THEN s[i] ELSE g[i - 1] \o s[i]]
                g == CHOOSE h : h = Step(h)
    <2>1. ASSUME NEW i \in 1 .. Len(s) PROVE f[i] = Step(f)[i]
      <3>1. CASE i = 1
        <4>0. s[1] \in Seq(U)
          BY <3>1
        <4>1. F[i] = F[i - 1] \o s[i] /\ F[0] = <<>>
          BY DEF Concats
        <4>2. F[1] = <<>> \o s[1]
          <5>1. i - 1 = 0
            BY <3>1
          <5>2. F[i - 1] = <<>>
            BY <4>1, <5>1
          <5>. QED  BY <3>1, <4>1, <5>2
        <4>3. F[1] = s[1]
          BY <4>0, <4>2, ConcatEmptySeq
        <4>. QED  BY <3>1, <4>3
      <3>2. CASE i # 1
        <4>1. F[i] = F[i - 1] \o s[i]
          BY DEF Concats
        <4>2. i - 1 \in 1 .. Len(s) /\ f[i - 1] = F[i - 1]
          BY <3>2
        <4>. QED  BY <3>2, <4>1, <4>2
      <3>. QED  BY <3>1, <3>2
    <2>2. f = Step(f)
      BY <2>1
    <2>3. g = Step(g)
      <3>. HIDE DEF f, Step
      <3>. QED  BY <2>2
    <2>. DEFINE T == {i \in Nat : i + 1 <= Len(s) => g[i + 1] = F[i + 1]}
    <2>. HIDE DEF g
    <2>4. 0 \in T
      <3>1. g[1] = s[1] /\ f[1] = s[1]
        BY <1>2, <2>1, <2>3
      <3>. QED  BY <1>2, <3>1
    <2>5. ASSUME NEW i \in Nat, i \in T PROVE i + 1 \in T
      <3>. SUFFICES ASSUME i + 2 <= Len(s) PROVE g[i + 2] = F[i + 2]
        OBVIOUS
      <3>1. g[i + 1] = F[i + 1]
        BY <2>5
      <3>2. i + 2 \in 1 .. Len(s) /\ i + 2 # 1 /\ (i + 2) - 1 = i + 1
        OBVIOUS
      <3>3. g[i + 2] = g[i + 1] \o s[i + 2]
        BY <2>3, <3>2
      <3>4. F[i + 2] = F[i + 1] \o s[i + 2]
        BY <3>2 DEF Concats
      <3>. QED  BY <3>1, <3>3, <3>4
    <2>6. \A i \in Nat : i \in T
      <3>. HIDE DEF T
      <3>. QED  BY <2>4, <2>5, ByNat
    <2>7. Len(s) - 1 \in Nat /\ (Len(s) - 1) + 1 = Len(s)
      BY <1>2
    <2>8. g[Len(s)] = F[Len(s)]
      <3>1. Len(s) - 1 \in T
        BY <2>6, <2>7
      <3>. QED  BY <2>7, <3>1
    <2>9. FlattenSeq(s) = g[Len(s)]
      BY <1>2 DEF FlattenSeq, g
    <2>. QED  BY <2>8, <2>9
  <1>. QED  BY <1>1, <1>2

(* A sequence with another one behind it.                                   *)
Joined(c, a, b) ==
    /\ Len(a) \in Nat /\ Len(b) \in Nat
    /\ Len(c) = Len(a) + Len(b)
    /\ \A x \in 1 .. Len(a) : c[x] = a[x]
    /\ \A x \in 1 .. Len(b) : c[Len(a) + x] = b[x]

(* What \o does, by positions.                                              *)
LEMMA TwoPieces ==
    ASSUME NEW U, NEW a \in Seq(U), NEW b \in Seq(U)
    PROVE  Joined(a \o b, a, b)
  <1>1. /\ Len(a \o b) = Len(a) + Len(b)
        /\ \A x \in 1 .. Len(a) + Len(b) :
              (a \o b)[x] = IF x <= Len(a) THEN a[x] ELSE b[x - Len(a)]
    BY ConcatProperties
  <1>2. Len(a) \in Nat /\ Len(b) \in Nat
    OBVIOUS
  <1>3. ASSUME NEW n \in Nat, NEW x \in Nat, x >= 1
        PROVE  ~ (n + x <= n) /\ (n + x) - n = x
    BY <1>3
  <1>4. ASSUME NEW x \in 1 .. Len(b) PROVE (a \o b)[Len(a) + x] = b[x]
    <2>1. ~ (Len(a) + x <= Len(a)) /\ (Len(a) + x) - Len(a) = x
      BY <1>2, <1>3
    <2>2. Len(a) + x \in 1 .. Len(a) + Len(b)
      BY <1>2
    <2>. QED  BY <1>1, <2>1, <2>2
  <1>5. ASSUME NEW x \in 1 .. Len(a) PROVE (a \o b)[x] = a[x]
    <2>1. x \in 1 .. Len(a) + Len(b) /\ x <= Len(a)
      BY <1>2
    <2>. QED  BY <1>1, <2>1
  <1>. QED  BY <1>1, <1>2, <1>4, <1>5 DEF Joined

(* A piece lies where the ones before it end.                               *)
Placed(F, s) == \A i \in 1 .. Len(s) : Joined(F[i], F[i - 1], s[i])

(* So do the pieces of any sequence.                                        *)
LEMMA PieceFacts ==
    ASSUME NEW U, NEW s \in Seq(Seq(U)), NEW F \in [0 .. Len(s) -> Seq(U)],
           Concats(F, s, Len(s))
    PROVE  Placed(F, s)
  <1>. SUFFICES ASSUME NEW i \in 1 .. Len(s)
                PROVE  Joined(F[i], F[i - 1], s[i])
    BY DEF Placed
  <1>1. F[i] = F[i - 1] \o s[i]
    BY DEF Concats
  <1>2. i - 1 \in 0 .. Len(s)
    OBVIOUS
  <1>3. F[i - 1] \in Seq(U)
    BY <1>2
  <1>4. s[i] \in Seq(U)
    OBVIOUS
  <1>. QED  BY <1>1, <1>3, <1>4, TwoPieces

(* c goes on where a ends.                                                  *)
Begins(a, c) == Len(a) <= Len(c) /\ \A x \in 1 .. Len(a) : c[x] = a[x]

(* A piece stays where it is whatever comes behind it.                      *)
LEMMA Behind ==
    ASSUME NEW U, NEW s \in Seq(Seq(U)), NEW F \in [0 .. Len(s) -> Seq(U)],
           Concats(F, s, Len(s)), NEW i \in 0 .. Len(s)
    PROVE  Begins(F[i], F[Len(s)])
  <1>. DEFINE T == {d \in Nat : i + d <= Len(s) =>
                        /\ Len(F[i]) <= Len(F[i + d])
                        /\ \A x \in 1 .. Len(F[i]) : F[i + d][x] = F[i][x]}
  <1>0. F[i] \in Seq(U) /\ Len(F[i]) \in Nat
    OBVIOUS
  <1>a. Placed(F, s)
    BY PieceFacts
  <1>b. \A l, m, n \in Nat : l <= m => l <= m + n
    OBVIOUS
  <1>1. 0 \in T
    BY <1>0
  <1>2. ASSUME NEW d \in Nat, d \in T PROVE d + 1 \in T
    <2>. SUFFICES ASSUME i + (d + 1) <= Len(s)
                  PROVE  /\ Len(F[i]) <= Len(F[i + (d + 1)])
                         /\ \A x \in 1 .. Len(F[i]) : F[i + (d + 1)][x] = F[i][x]
      OBVIOUS
    <2>1. /\ Len(F[i]) <= Len(F[i + d])
          /\ \A x \in 1 .. Len(F[i]) : F[i + d][x] = F[i][x]
      BY <1>2
    <2>. DEFINE j == i + (d + 1)
    <2>2. j \in 1 .. Len(s) /\ j - 1 = i + d
      OBVIOUS
    <2>. HIDE DEF j
    <2>3. /\ Len(F[j - 1]) \in Nat /\ Len(s[j]) \in Nat
          /\ Len(F[j]) = Len(F[j - 1]) + Len(s[j])
          /\ \A x \in 1 .. Len(F[j - 1]) : F[j][x] = F[j - 1][x]
      BY <1>a, <2>2, Zenon DEF Placed, Joined
    <2>4. /\ Len(F[i]) <= Len(F[j - 1])
          /\ \A x \in 1 .. Len(F[i]) : F[j - 1][x] = F[i][x]
      BY <2>1, <2>2
    <2>5. Len(F[i]) <= Len(F[j])
      BY <1>0, <1>b, <2>3, <2>4, Zenon
    <2>6. ASSUME NEW x \in 1 .. Len(F[i]) PROVE F[j][x] = F[i][x]
      <3>1. x \in 1 .. Len(F[j - 1])
        BY <1>0, <2>3, <2>4
      <3>. QED  BY <2>3, <2>4, <3>1
    <2>. QED  BY <2>5, <2>6 DEF j
  <1>3. \A d \in Nat : d \in T
    <2>. HIDE DEF T
    <2>. QED  BY <1>1, <1>2, ByNat
  <1>4. Len(s) - i \in Nat /\ i + (Len(s) - i) = Len(s)
    OBVIOUS
  <1>5. Len(s) - i \in T
    BY <1>3, <1>4
  <1>. QED  BY <1>4, <1>5 DEF Begins

-----------------------------------------------------------------------------
(* Objects.                                                                 *)

(* What a payload is made of.                                               *)
Octets == Types \cup Nat

(* The length byte says how long the value is.                              *)
LengthFits(o) == ValueLen(o) = Len(o.value)

(* A sequence of members of a subset.                                       *)
LEMMA SeqMonotone ==
    ASSUME NEW S, NEW T, S \subseteq T, NEW q \in Seq(S)
    PROVE  q \in Seq(T)
  OBVIOUS

(* Three bytes in front.                                                    *)
LEMMA ThreeBytes ==
    ASSUME NEW U, NEW r \in U, NEW s \in U, NEW t \in U
    PROVE  /\ <<r, s, t>> \in Seq(U) /\ Len(<<r, s, t>>) = 3
           /\ <<r, s, t>>[1] = r /\ <<r, s, t>>[2] = s /\ <<r, s, t>>[3] = t
  OBVIOUS

(* One object on the wire.                                                  *)
LEMMA EncodeFacts ==
    ASSUME NEW o \in Object, LengthFits(o)
    PROVE  /\ Encode(o) \in Seq(Octets)
           /\ Len(o.value) \in Nat /\ Len(Encode(o)) = 3 + Len(o.value)
           /\ Encode(o)[1] = o.type /\ Encode(o)[2] = o.tag /\ Encode(o)[3] = Len(o.value)
           /\ \A x \in 1 .. Len(o.value) : Encode(o)[3 + x] = o.value[x]
  <1>. DEFINE a == <<o.type, o.tag, Len(o.value)>>
              b == o.value
  <1>1. Encode(o) = a \o b
    BY DEF Encode, LengthFits
  <1>2. o.value \in Seq(0 .. 255) /\ o.tag \in 0 .. 255 /\ o.type \in Types
    BY DEF Object
  <1>3. Len(o.value) \in Nat
    BY <1>2
  <1>4. Nat \subseteq Octets /\ Types \subseteq Octets
    BY Zenon DEF Octets
  <1>5. o.type \in Octets
    BY <1>2, <1>4, Zenon
  <1>6. o.tag \in Octets
    <2>1. 0 .. 255 \subseteq Nat
      OBVIOUS
    <2>. QED  BY <1>2, <1>4, <2>1, Zenon
  <1>7. Len(o.value) \in Octets
    BY <1>3, <1>4, Zenon
  <1>8. a \in Seq(Octets) /\ Len(a) = 3 /\ a[1] = o.type /\ a[2] = o.tag /\ a[3] = Len(o.value)
    BY <1>5, <1>6, <1>7, ThreeBytes, Zenon
  <1>9. b \in Seq(Octets)
    <2>1. 0 .. 255 \subseteq Nat
      OBVIOUS
    <2>2. 0 .. 255 \subseteq Octets
      BY <1>4, <2>1, Zenon
    <2>. QED  BY <1>2, <2>2, SeqMonotone, Zenon
  <1>. HIDE DEF a, b
  <1>10. Joined(a \o b, a, b)
    BY <1>8, <1>9, TwoPieces, Zenon
  <1>11. a \o b \in Seq(Octets)
    BY <1>8, <1>9, ConcatProperties, Zenon
  <1>12. 1 \in 1 .. 3 /\ 2 \in 1 .. 3 /\ 3 \in 1 .. 3
    OBVIOUS
  <1>13. b = o.value
    BY DEF b
  <1>. QED  BY <1>1, <1>3, <1>8, <1>10, <1>11, <1>12, <1>13, Zenon DEF Joined

(* The objects lie one behind the other, the k-th after off[k - 1] bytes.   *)
LiesAt(p, at, o) ==
    /\ at + 3 + Len(o.value) <= Len(p)
    /\ p[at + 1] = o.type /\ p[at + 2] = o.tag /\ p[at + 3] = Len(o.value)
    /\ \A x \in 1 .. Len(o.value) : p[at + 3 + x] = o.value[x]

Lies(p, off, objs) ==
    /\ off \in [0 .. Len(objs) -> Nat]
    /\ off[0] = 0 /\ off[Len(objs)] = Len(p)
    /\ \A k \in 1 .. Len(objs) :
          off[k] = off[k - 1] + 3 + Len(objs[k].value) /\ LiesAt(p, off[k - 1], objs[k])

(* An object encoded into the end of c lies there, and stays when more      *)
(* comes behind c.                                                          *)
LEMMA LiesThere ==
    ASSUME NEW o \in Object, LengthFits(o), NEW c, NEW a, NEW p,
           Joined(c, a, Encode(o)), Len(c) <= Len(p), Len(p) \in Nat,
           \A x \in 1 .. Len(c) : p[x] = c[x]
    PROVE  Len(c) = Len(a) + 3 + Len(o.value) /\ LiesAt(p, Len(a), o)
  <1>. DEFINE e == Encode(o)
              v == o.value
  <1>1. /\ Len(v) \in Nat /\ Len(e) = 3 + Len(v)
        /\ e[1] = o.type /\ e[2] = o.tag /\ e[3] = Len(v)
        /\ \A x \in 1 .. Len(v) : e[3 + x] = v[x]
    BY EncodeFacts
  <1>2. Joined(c, a, e)
    OBVIOUS
  <1>. HIDE DEF e, v
  <1>3. /\ Len(a) \in Nat /\ Len(c) = Len(a) + Len(e)
        /\ \A x \in 1 .. Len(e) : c[Len(a) + x] = e[x]
    BY <1>2, Zenon DEF Joined
  <1>4. Len(c) = Len(a) + 3 + Len(v)
    BY <1>1, <1>3
  <1>5. ASSUME NEW x \in 1 .. 3 + Len(v)
        PROVE  p[Len(a) + x] = e[x]
    <2>1. x \in 1 .. Len(e) /\ Len(a) + x \in 1 .. Len(c)
      BY <1>1, <1>3
    <2>. QED  BY <1>3, <2>1
  <1>6. p[Len(a) + 1] = o.type /\ p[Len(a) + 2] = o.tag /\ p[Len(a) + 3] = Len(v)
    <2>1. 1 \in 1 .. 3 + Len(v) /\ 2 \in 1 .. 3 + Len(v) /\ 3 \in 1 .. 3 + Len(v)
      BY <1>1
    <2>. QED  BY <1>1, <1>5, <2>1
  <1>7. ASSUME NEW x \in 1 .. Len(v)
        PROVE  p[Len(a) + 3 + x] = v[x]
    <2>1. 3 + x \in 1 .. 3 + Len(v) /\ Len(a) + (3 + x) = Len(a) + 3 + x
      BY <1>1, <1>3
    <2>. QED  BY <1>1, <1>5, <2>1
  <1>. QED  BY <1>4, <1>6, <1>7 DEF LiesAt, v

(* The objects of a packet do.                                              *)
LEMMA PacketLies ==
    ASSUME NEW objs \in Seq(Object), \A k \in DOMAIN objs : LengthFits(objs[k])
    PROVE  \E off : Lies(Packet(objs), off, objs)
  <1>. DEFINE n == Len(objs)
              s == [k \in DOMAIN objs |-> Encode(objs[k])]
  <1>1. n \in Nat /\ DOMAIN objs = 1 .. n
    OBVIOUS
  <1>2. \A k \in 1 .. n : objs[k] \in Object /\ LengthFits(objs[k]) /\ s[k] = Encode(objs[k])
    BY <1>1
  <1>3. s \in Seq(Seq(Octets)) /\ Len(s) = n
    <2>1. \A k \in 1 .. n : Encode(objs[k]) \in Seq(Octets)
      BY <1>2, EncodeFacts
    <2>2. s = [k \in 1 .. n |-> Encode(objs[k])]
      BY <1>1
    <2>. QED  BY <1>1, <2>1, <2>2
  <1>4. Packet(objs) = FlattenSeq(s)
    BY DEF Packet
  <1>. HIDE DEF s, n
  <1>5. PICK F \in [0 .. n -> Seq(Octets)] : Concats(F, s, n)
    BY <1>3, AllPieces DEF Concatenable
  <1>6. Placed(F, s)
    BY <1>3, <1>5, PieceFacts, Zenon
  <1>7. Packet(objs) = F[n]
    BY <1>3, <1>4, <1>5, FlattenIsLast, Zenon
  <1>8. \A i \in 0 .. n : Begins(F[i], F[n])
    BY <1>3, <1>5, Behind, Zenon
  <1>9. \A i \in 0 .. n : Len(F[i]) \in Nat
    <2>1. \A i \in 0 .. n : F[i] \in Seq(Octets)
      OBVIOUS
    <2>. QED  BY <2>1
  <1>. DEFINE off == [i \in 0 .. n |-> Len(F[i])]
  <1>10. 0 \in 0 .. n /\ n \in 0 .. n
    BY <1>1
  <1>11. off[0] = 0 /\ off[n] = Len(Packet(objs))
    BY <1>5, <1>7, <1>10 DEF Concats
  <1>12. ASSUME NEW k \in 1 .. n
         PROVE  off[k] = off[k - 1] + 3 + Len(objs[k].value) /\ LiesAt(Packet(objs), off[k - 1], objs[k])
    <2>1. k \in 0 .. n /\ k - 1 \in 0 .. n
      BY <1>1
    <2>2. Joined(F[k], F[k - 1], Encode(objs[k]))
      BY <1>2, <1>3, <1>6 DEF Placed
    <2>3. objs[k] \in Object /\ LengthFits(objs[k])
      BY <1>2
    <2>4. /\ Len(F[k]) <= Len(F[n]) /\ Len(F[n]) \in Nat
          /\ \A x \in 1 .. Len(F[k]) : F[n][x] = F[k][x]
      BY <1>8, <1>9, <1>10, <2>1 DEF Begins
    <2>5. /\ Len(F[k]) = Len(F[k - 1]) + 3 + Len(objs[k].value)
          /\ LiesAt(F[n], Len(F[k - 1]), objs[k])
      BY <2>2, <2>3, <2>4, LiesThere, Zenon
    <2>6. off[k] = Len(F[k]) /\ off[k - 1] = Len(F[k - 1])
      BY <2>1
    <2>. QED  BY <1>7, <2>5, <2>6, Zenon
  <1>13. off \in [0 .. n -> Nat]
    BY <1>9
  <1>. HIDE DEF off
  <1>14. Lies(Packet(objs), off, objs)
    BY <1>11, <1>12, <1>13, Zenon DEF Lies, n
  <1>. QED  BY <1>14

-----------------------------------------------------------------------------
(* Taking a payload apart.                                                  *)

(* The reader goes from one object to the next and stays at the end.        *)
LEMMA StartsOf ==
    ASSUME NEW objs \in Seq(Object), NEW p, NEW off, Lies(p, off, objs), Len(p) \in Nat,
           NEW max \in Nat
    PROVE  \A k \in 1 .. max :
               Starts(p, max)[k] = IF k <= Len(objs) THEN off[k - 1] + 1 ELSE Len(p) + 1
  <1>. DEFINE n == Len(objs)
              f == [k \in 1 .. max |-> IF k <= n THEN off[k - 1] + 1 ELSE Len(p) + 1]
              Step(g) == [k \in 1 .. max |->
                  IF k = 1 THEN 1
                  ELSE IF g[k - 1] > Len(p) THEN g[k - 1] ELSE g[k - 1] + 3 + p[g[k - 1] + 2]]
              g == CHOOSE h : h = Step(h)
  <1>0. max \in Nat /\ n \in Nat
    OBVIOUS
  <1>1. off \in [0 .. n -> Nat] /\ off[0] = 0 /\ off[n] = Len(p)
    BY DEF Lies
  <1>2. ASSUME NEW k \in 1 .. n
        PROVE  /\ off[k - 1] \in Nat /\ off[k] \in Nat /\ Len(objs[k].value) \in Nat
               /\ off[k] = off[k - 1] + 3 + Len(objs[k].value) /\ off[k] <= Len(p)
               /\ p[off[k - 1] + 3] = Len(objs[k].value)
    <2>1. k \in 0 .. n /\ k - 1 \in 0 .. n
      BY <1>0
    <2>2. off[k - 1] \in Nat /\ off[k] \in Nat
      BY <1>1, <2>1
    <2>3. objs[k] \in Object
      OBVIOUS
    <2>4. Len(objs[k].value) \in Nat
      BY <2>3 DEF Object
    <2>5. off[k] = off[k - 1] + 3 + Len(objs[k].value) /\ LiesAt(p, off[k - 1], objs[k])
      BY DEF Lies
    <2>. QED  BY <2>2, <2>4, <2>5 DEF LiesAt
  <1>. HIDE DEF n
  <1>3. ASSUME NEW k \in 1 .. max PROVE f[k] = Step(f)[k]
    <2>1. CASE k = 1
      <3>1. n = 0 => Len(p) = 0
        BY <1>1
      <3>2. f[k] = 1
        BY <1>0, <1>1, <2>1, <3>1
      <3>. QED  BY <2>1, <3>2
    <2>2. CASE k # 1 /\ k - 1 <= n
      <3>0. k - 1 \in 1 .. n /\ k - 1 \in 1 .. max
        BY <1>0, <2>2
      <3>. DEFINE j == k - 1
                  v == Len(objs[j].value)
      <3>1. /\ off[j - 1] \in Nat /\ off[j] \in Nat /\ v \in Nat
            /\ off[j] = off[j - 1] + 3 + v /\ off[j] <= Len(p)
            /\ p[off[j - 1] + 3] = v
        BY <1>2, <3>0
      <3>2. f[j] = off[j - 1] + 1
        BY <2>2, <3>0
      <3>3. f[k] = off[j] + 1
        <4>1. CASE k <= n
          BY <4>1
        <4>2. CASE ~ (k <= n)
          <5>1. j = n
            BY <1>0, <2>2, <4>2
          <5>2. f[k] = Len(p) + 1
            BY <4>2
          <5>. QED  BY <1>1, <5>1, <5>2
        <4>. QED  BY <4>1, <4>2
      <3>. HIDE DEF f, v, j
      <3>4. ~ (f[j] > Len(p)) /\ f[j] + 2 = off[j - 1] + 3
        BY <3>1, <3>2
      <3>5. f[k] = f[j] + 3 + p[f[j] + 2]
        <4>1. p[f[j] + 2] = v
          BY <3>1, <3>4
        <4>2. f[k] = f[j] + 3 + v
          BY <3>1, <3>2, <3>3
        <4>. QED  BY <4>1, <4>2
      <3>6. Step(f)[k] = f[j] + 3 + p[f[j] + 2]
        BY <2>2, <3>4 DEF j
      <3>. QED  BY <3>5, <3>6
    <2>3. CASE k # 1 /\ ~ (k - 1 <= n)
      <3>1. k - 1 \in 1 .. max /\ ~ (k <= n)
        BY <1>0, <2>3
      <3>2. f[k - 1] = Len(p) + 1 /\ f[k] = Len(p) + 1
        BY <2>3, <3>1
      <3>3. Len(p) + 1 > Len(p)
        OBVIOUS
      <3>. QED  BY <2>3, <3>2, <3>3
    <2>. QED  BY <2>1, <2>2, <2>3
  <1>4. f = Step(f)
    BY <1>3
  <1>5. g = Step(g)
    <2>. HIDE DEF f, Step
    <2>. QED  BY <1>4
  <1>6. Starts(p, max) = g
    BY DEF Starts
  <1>. HIDE DEF g
  <1>. DEFINE T == {k \in Nat : k + 1 <= max => g[k + 1] = f[k + 1]}
  <1>7. 0 \in T
    <2>. SUFFICES ASSUME 1 \in 1 .. max PROVE g[1] = f[1]
      BY <1>0
    <2>. QED  BY <1>3, <1>5
  <1>8. ASSUME NEW k \in Nat, k \in T PROVE k + 1 \in T
    <2>. SUFFICES ASSUME k + 2 <= max PROVE g[k + 2] = f[k + 2]
      OBVIOUS
    <2>1. k + 2 \in 1 .. max /\ k + 2 # 1 /\ (k + 2) - 1 = k + 1
      BY <1>0
    <2>2. g[k + 1] = f[k + 1]
      BY <1>0, <1>8
    <2>. HIDE DEF f
    <2>3. g[k + 2] = Step(g)[k + 2] /\ f[k + 2] = Step(f)[k + 2]
      BY <1>3, <1>5, <2>1
    <2>4. Step(g)[k + 2] = Step(f)[k + 2]
      BY <2>1, <2>2
    <2>. QED  BY <2>3, <2>4
  <1>9. \A k \in Nat : k \in T
    <2>. HIDE DEF T
    <2>. QED  BY <1>7, <1>8, ByNat
  <1>10. ASSUME NEW k \in 1 .. max PROVE g[k] = f[k]
    <2>0. k - 1 \in Nat /\ (k - 1) + 1 = k /\ k <= max
      BY <1>0
    <2>1. k - 1 \in T
      BY <1>9, <2>0
    <2>. QED  BY <2>0, <2>1
  <1>. QED  BY <1>6, <1>10 DEF n

(* The smaller of two numbers.                                              *)
LEMMA MinOfTwo ==
    ASSUME NEW a \in Nat, NEW b \in Nat
    PROVE  Min({a, b}) = IF a <= b THEN a ELSE b
  <1>. DEFINE m == IF a <= b THEN a ELSE b
  <1>1. m \in {a, b} /\ \A y \in {a, b} : m <= y
    OBVIOUS
  <1>2. \A x \in {a, b} : (\A y \in {a, b} : x <= y) => x = m
    OBVIOUS
  <1>. HIDE DEF m
  <1>3. Min({a, b}) = m
    BY <1>1, <1>2 DEF Min
  <1>. QED  BY <1>3 DEF m

(* What lies behind the first b elements is cut out whole.                  *)
LEMMA CutOut ==
    ASSUME NEW S, NEW p, NEW b \in Nat, NEW n \in Nat, NEW v \in Seq(S), Len(v) = n,
           \A x \in 1 .. n : p[b + x] = v[x]
    PROVE  SubSeq(p, b + 1, b + n) = v
  <1>1. \A x \in 1 .. n : v[x] \in S
    OBVIOUS
  <1>. DEFINE lo == b + 1
              hi == b + n
  <1>2. lo \in Int /\ hi \in Int /\ hi - lo + 1 = n /\ (lo <= hi <=> n # 0)
    OBVIOUS
  <1>3. ASSUME NEW i \in lo .. hi PROVE p[i] \in S
    <2>1. i - b \in 1 .. n /\ b + (i - b) = i
      OBVIOUS
    <2>. QED  BY <1>1, <2>1
  <1>4. \A x \in 1 .. n : lo + x - 1 = b + x
    OBVIOUS
  <1>. HIDE DEF lo, hi
  <1>5. /\ SubSeq(p, lo, hi) \in Seq(S)
        /\ Len(SubSeq(p, lo, hi)) = IF lo <= hi THEN hi - lo + 1 ELSE 0
        /\ \A x \in 1 .. hi - lo + 1 : SubSeq(p, lo, hi)[x] = p[lo + x - 1]
    BY <1>2, <1>3, SubSeqProperties
  <1>. DEFINE w == SubSeq(p, lo, hi)
  <1>. HIDE DEF w
  <1>6. Len(w) = n
    BY <1>2, <1>5 DEF w
  <1>7. \A x \in 1 .. n : w[x] = v[x]
    BY <1>2, <1>4, <1>5 DEF w
  <1>8. w \in Seq(S)
    BY <1>5 DEF w
  <1>9. w = v
    BY <1>6, <1>7, <1>8, SeqEqual
  <1>. QED  BY <1>9 DEF w, lo, hi

(* An object is read where it lies.                                         *)
LEMMA ParseFacts ==
    ASSUME NEW o \in Object, NEW p, NEW at \in Nat, LiesAt(p, at, o)
    PROVE  Parse(p, at + 1) = o
  <1>. DEFINE n == Len(o.value)
  <1>1. o.value \in Seq(0 .. 255) /\ o = [type |-> o.type, tag |-> o.tag, value |-> o.value]
    BY DEF Object
  <1>2. n \in Nat
    BY <1>1
  <1>3. p[at + 1] = o.type /\ p[at + 2] = o.tag /\ p[at + 3] = n
    BY DEF LiesAt
  <1>4. \A x \in 1 .. n : p[(at + 3) + x] = o.value[x]
    BY DEF LiesAt
  <1>5. SubSeq(p, (at + 3) + 1, (at + 3) + n) = o.value
    <2>. DEFINE b == at + 3
                v == o.value
    <2>1. b \in Nat /\ v \in Seq(0 .. 255) /\ Len(v) = n /\ \A x \in 1 .. n : p[b + x] = v[x]
      BY <1>1, <1>4
    <2>. HIDE DEF b, v, n
    <2>2. SubSeq(p, b + 1, b + n) = v
      BY <1>2, <2>1, CutOut
    <2>. QED  BY <2>2 DEF b, v
  <1>. HIDE DEF n
  <1>6. /\ (at + 1) + 1 = at + 2 /\ (at + 1) + 2 = at + 3
        /\ (at + 1) + 3 = (at + 3) + 1
    OBVIOUS
  <1>7. SubSeq(p, (at + 1) + 3, (at + 1) + 2 + p[(at + 1) + 2]) = o.value
    BY <1>3, <1>5, <1>6
  <1>8. Parse(p, at + 1) = [type |-> p[at + 1], tag |-> p[at + 2], value |-> o.value]
    BY <1>6, <1>7 DEF Parse
  <1>. QED  BY <1>1, <1>3, <1>8

(* What SipfObjClientObjDown makes of a packet of objects whose lengths fit *)
(* their bytes are these objects, as many as its list has room for: for any *)
(* number of objects with values of any length.                             *)
THEOREM SplitPacket ==
    ASSUME NEW objs \in Seq(Object), \A k \in DOMAIN objs : LengthFits(objs[k]), NEW max \in Nat
    PROVE  Split(Packet(objs), max) = SubSeq(objs, 1, Min({max, Len(objs)}))
  <1>. DEFINE n == Len(objs)
              p == Packet(objs)
              m == Min({max, n})
              start == Starts(p, max)
  <1>0. max \in Nat /\ n \in Nat
    OBVIOUS
  <1>1. PICK off : Lies(p, off, objs)
    BY PacketLies
  <1>2. off \in [0 .. n -> Nat] /\ off[n] = Len(p)
    BY <1>1 DEF Lies
  <1>3. Len(p) \in Nat
    BY <1>0, <1>2
  <1>4. \A k \in 1 .. max : start[k] = IF k <= n THEN off[k - 1] + 1 ELSE Len(p) + 1
    BY <1>1, <1>3, StartsOf
  <1>5. ASSUME NEW k \in 1 .. n
        PROVE  off[k - 1] \in Nat /\ off[k - 1] < Len(p) /\ LiesAt(p, off[k - 1], objs[k])
    <2>1. k - 1 \in 0 .. n
      BY <1>0
    <2>2. off[k - 1] \in Nat
      BY <1>2, <2>1
    <2>3. objs[k] \in Object /\ LiesAt(p, off[k - 1], objs[k])
      BY <1>1 DEF Lies
    <2>4. Len(objs[k].value) \in Nat
      BY <2>3 DEF Object
    <2>5. off[k - 1] + 3 + Len(objs[k].value) <= Len(p)
      BY <2>3 DEF LiesAt
    <2>6. off[k - 1] < Len(p)
      BY <1>3, <2>2, <2>4, <2>5
    <2>. QED  BY <2>2, <2>3, <2>6
  <1>6. m = IF max <= n THEN max ELSE n
    BY <1>0, MinOfTwo
  <1>7. m \in Nat /\ m <= n /\ m <= max /\ \A k \in 1 .. max : k <= n <=> k <= m
    <2>. HIDE DEF m, n
    <2>. QED  BY <1>0, <1>6
  <1>. HIDE DEF n, p, m, start
  <1>8. \A k \in 1 .. max : start[k] <= Len(p) <=> k \in 1 .. m
    <2>. TAKE k \in 1 .. max
    <2>1. CASE k <= n
      <3>1. off[k - 1] \in Nat /\ off[k - 1] < Len(p) /\ start[k] = off[k - 1] + 1
        BY <1>0, <1>4, <1>5, <2>1
      <3>. QED  BY <1>0, <1>3, <1>7, <2>1, <3>1
    <2>2. CASE ~ (k <= n)
      <3>1. start[k] = Len(p) + 1
        BY <1>4, <2>2
      <3>. QED  BY <1>0, <1>3, <1>7, <2>2, <3>1
    <2>. QED  BY <2>1, <2>2
  <1>9. {k \in 1 .. max : start[k] <= Len(p)} = 1 .. m
    BY <1>0, <1>7, <1>8
  <1>10. Cardinality(1 .. m) = m
    BY <1>7, FS_Interval
  <1>11. Split(p, max) = [k \in 1 .. m |-> Parse(p, start[k])]
    BY <1>9, <1>10 DEF Split, start
  <1>12. ASSUME NEW k \in 1 .. m PROVE Parse(p, start[k]) = objs[k]
    <2>1. k \in 1 .. n /\ k \in 1 .. max
      BY <1>0, <1>7
    <2>2. start[k] = off[k - 1] + 1
      BY <1>4, <2>1
    <2>3. objs[k] \in Object
      BY <2>1 DEF n
    <2>4. off[k - 1] \in Nat /\ LiesAt(p, off[k - 1], objs[k])
      BY <1>5, <2>1
    <2>. QED  BY <2>2, <2>3, <2>4, ParseFacts
  <1>13. Split(p, max) = [k \in 1 .. m |-> objs[k]]
    BY <1>11, <1>12
  <1>14. SubSeq(objs, 1, m) = [k \in 1 .. m |-> objs[k]]
    <2>1. \A k \in 1 .. m : objs[k] \in Object
      BY <1>0, <1>7 DEF n
    <2>2. /\ SubSeq(objs, 1, m) \in Seq(Object)
          /\ Len(SubSeq(objs, 1, m)) = IF 1 <= m THEN m - 1 + 1 ELSE 0
          /\ \A k \in 1 .. m - 1 + 1 : SubSeq(objs, 1, m)[k] = objs[1 + k - 1]
      BY <1>7, <2>1, SubSeqProperties
    <2>. QED  BY <1>7, <2>2
  <1>. QED  BY <1>13, <1>14 DEF p, m, n

(* A packet has no fewer bytes than objects.                                *)
LEMMA PacketLonger ==
    ASSUME NEW objs \in Seq(Object), \A k \in DOMAIN objs : LengthFits(objs[k])
    PROVE  Len(Packet(objs)) \in Nat /\ Len(objs) <= Len(Packet(objs))
  <1>. DEFINE n == Len(objs)
              p == Packet(objs)
  <1>1. PICK off : Lies(p, off, objs)
    BY PacketLies
  <1>2. n \in Nat /\ off \in [0 .. n -> Nat] /\ off[0] = 0 /\ off[n] = Len(p)
    BY <1>1 DEF Lies
  <1>3. ASSUME NEW k \in 1 .. n PROVE off[k] >= off[k - 1] + 3
    <2>1. objs[k] \in Object
      OBVIOUS
    <2>2. Len(objs[k].value) \in Nat
      BY <2>1 DEF Object
    <2>3. off[k] = off[k - 1] + 3 + Len(objs[k].value)
      BY <1>1 DEF Lies
    <2>4. off[k - 1] \in Nat
      <3>1. k - 1 \in 0 .. n
        BY <1>2
      <3>. QED  BY <1>2, <3>1
    <2>. QED  BY <2>2, <2>3, <2>4
  <1>. HIDE DEF n, p
  <1>. DEFINE T == {k \in Nat : k <= n => k <= off[k]}
  <1>4. 0 \in T
    BY <1>2
  <1>5. ASSUME NEW k \in Nat, k \in T PROVE k + 1 \in T
    <2>. SUFFICES ASSUME k + 1 <= n PROVE k + 1 <= off[k + 1]
      OBVIOUS
    <2>1. k + 1 \in 1 .. n /\ (k + 1) - 1 = k /\ k \in 0 .. n /\ k + 1 \in 0 .. n /\ k <= n
      BY <1>2
    <2>2. k <= off[k] /\ off[k] \in Nat /\ off[k + 1] \in Nat
      BY <1>2, <1>5, <2>1
    <2>3. off[k + 1] >= off[k] + 3
      BY <1>3, <2>1
    <2>. QED  BY <2>2, <2>3
  <1>6. n \in T
    <2>1. \A k \in Nat : k \in T
      <3>. HIDE DEF T
      <3>. QED  BY <1>4, <1>5, ByNat
    <2>. QED  BY <1>2, <2>1
  <1>7. off[n] \in Nat
    BY <1>2
  <1>. QED  BY <1>2, <1>6, <1>7 DEF n, p

-----------------------------------------------------------------------------
(* URLs.                                                                    *)

(* v lies in c behind the first b elements.                                 *)
Within(c, b, v) == b + Len(v) <= Len(c) /\ \A x \in 1 .. Len(v) : c[b + x] = v[x]

(* What is put behind a sequence lies behind it, and moves nothing.         *)
LEMMA WithinJoined ==
    ASSUME NEW U, NEW a \in Seq(U), NEW b \in Seq(U)
    PROVE  /\ a \o b \in Seq(U) /\ Len(a \o b) = Len(a) + Len(b)
           /\ Within(a \o b, Len(a), b)
           /\ \A k \in Nat : \A v \in Seq(U) : Within(a, k, v) => Within(a \o b, k, v)
  <1>1. Joined(a \o b, a, b)
    BY TwoPieces
  <1>2. a \o b \in Seq(U)
    BY ConcatProperties
  <1>. DEFINE c == a \o b
  <1>3. /\ Len(a) \in Nat /\ Len(b) \in Nat /\ Len(c) = Len(a) + Len(b)
        /\ \A x \in 1 .. Len(a) : c[x] = a[x]
        /\ \A x \in 1 .. Len(b) : c[Len(a) + x] = b[x]
    BY <1>1, Zenon DEF Joined
  <1>. HIDE DEF c
  <1>4. Within(c, Len(a), b)
    BY <1>3 DEF Within
  <1>5. ASSUME NEW k \in Nat, NEW v \in Seq(U), Within(a, k, v)
        PROVE  Within(c, k, v)
    <2>1. Len(v) \in Nat /\ k + Len(v) <= Len(a)
      BY <1>5 DEF Within
    <2>2. ASSUME NEW x \in 1 .. Len(v) PROVE c[k + x] = v[x]
      <3>1. k + x \in 1 .. Len(a)
        BY <1>3, <2>1
      <3>2. a[k + x] = v[x]
        BY <1>5 DEF Within
      <3>. QED  BY <1>3, <3>1, <3>2
    <2>3. k + Len(v) <= Len(c)
      BY <1>3, <2>1
    <2>. QED  BY <2>2, <2>3 DEF Within
  <1>. QED  BY <1>2, <1>3, <1>4, <1>5 DEF c

(* The parts of a URL that is followed by the end of its line.              *)
IsLine(url, protocol, host, path) ==
    LET afterProtocol == Len(protocol)
        afterHost == afterProtocol + 3 + Len(host)
        afterPath == afterHost + 1 + Len(path)
    IN  /\ Within(url, 0, protocol)
        /\ url[afterProtocol + 1] = ":"
        /\ url[afterProtocol + 2] = "/" /\ url[afterProtocol + 3] = "/"
        /\ Within(url, afterProtocol + 3, host)
        /\ url[afterHost + 1] = "/"
        /\ Within(url, afterHost + 1, path)
        /\ url[afterPath + 1] = "newline" /\ afterPath + 1 <= Len(url)

(* A line the server sends is one, whatever an older one left behind it.    *)
LEMMA LineOfParts ==
    ASSUME NEW U, {":", "/", "newline"} \subseteq U,
           NEW protocol \in Seq(U), NEW host \in Seq(U), NEW path \in Seq(U), NEW rest \in Seq(U)
    PROVE  LET line == protocol \o <<":", "/", "/">> \o host \o <<"/">> \o path \o <<"newline">>
           IN  /\ line \in Seq(U) /\ line \o rest \in Seq(U)
               /\ Len(line) = Len(protocol) + 3 + Len(host) + 1 + Len(path) + 1
               /\ IsLine(line \o rest, protocol, host, path)
  <1>. DEFINE sep == <<":", "/", "/">>
              slash == <<"/">>
              eol == <<"newline">>
              u1 == protocol \o sep
              u2 == u1 \o host
              u3 == u2 \o slash
              u4 == u3 \o path
              u5 == u4 \o eol
              url == u5 \o rest
              On(a, b, c) == /\ c \in Seq(U) /\ Len(c) = Len(a) + Len(b)
                             /\ Within(c, Len(a), b)
                             /\ \A k \in Nat : \A v \in Seq(U) : Within(a, k, v) => Within(c, k, v)
  <1>1. sep \in Seq(U) /\ Len(sep) = 3 /\ sep[1] = ":" /\ sep[2] = "/" /\ sep[3] = "/"
    BY ThreeBytes
  <1>2. slash \in Seq(U) /\ Len(slash) = 1 /\ slash[1] = "/"
    OBVIOUS
  <1>3. eol \in Seq(U) /\ Len(eol) = 1 /\ eol[1] = "newline"
    OBVIOUS
  <1>4. ASSUME NEW a \in Seq(U), NEW b \in Seq(U) PROVE On(a, b, a \o b)
    BY WithinJoined
  <1>. HIDE DEF sep, slash, eol, On
  <1>5. On(protocol, sep, u1) /\ u1 \in Seq(U)
    BY <1>1, <1>4 DEF On
  <1>. HIDE DEF u1
  <1>6. On(u1, host, u2) /\ u2 \in Seq(U)
    BY <1>4, <1>5 DEF On
  <1>. HIDE DEF u2
  <1>7. On(u2, slash, u3) /\ u3 \in Seq(U)
    BY <1>2, <1>4, <1>6 DEF On
  <1>. HIDE DEF u3
  <1>8. On(u3, path, u4) /\ u4 \in Seq(U)
    BY <1>4, <1>7 DEF On
  <1>. HIDE DEF u4
  <1>9. On(u4, eol, u5) /\ u5 \in Seq(U)
    BY <1>3, <1>4, <1>8 DEF On
  <1>. HIDE DEF u5
  <1>10. On(u5, rest, url) /\ url \in Seq(U)
    BY <1>4, <1>9 DEF On
  <1>. HIDE DEF url
  <1>. DEFINE p == Len(protocol)
              h == Len(host)
              q == Len(path)
  <1>11. p \in Nat /\ h \in Nat /\ q \in Nat /\ Len(rest) \in Nat
    OBVIOUS
  <1>12. /\ Len(u1) = p + 3 /\ Len(u2) = p + 3 + h /\ Len(u3) = p + 3 + h + 1
         /\ Len(u4) = p + 3 + h + 1 + q /\ Len(u5) = p + 3 + h + 1 + q + 1
         /\ Len(url) = p + 3 + h + 1 + q + 1 + Len(rest)
    BY <1>1, <1>2, <1>3, <1>5, <1>6, <1>7, <1>8, <1>9, <1>10 DEF On
  <1>. HIDE DEF p, h, q
  <1>13. ASSUME NEW k \in Nat, NEW v \in Seq(U)
         PROVE  /\ Within(u1, k, v) => Within(url, k, v)
                /\ Within(u2, k, v) => Within(url, k, v)
                /\ Within(u3, k, v) => Within(url, k, v)
                /\ Within(u4, k, v) => Within(url, k, v)
                /\ Within(u5, k, v) => Within(url, k, v)
    BY <1>6, <1>7, <1>8, <1>9, <1>10, Zenon DEF On
  <1>14. Within(url, 0, protocol)
    <2>1. Within(protocol, 0, protocol)
      BY <1>11 DEF Within, p
    <2>2. Within(u1, 0, protocol)
      BY <1>5, <2>1 DEF On
    <2>. QED  BY <1>13, <2>2
  <1>15. Within(url, p, sep)
    BY <1>1, <1>5, <1>11, <1>13 DEF On, p
  <1>16. Within(url, p + 3, host)
    <2>1. Within(u2, p + 3, host) /\ p + 3 \in Nat
      BY <1>6, <1>11, <1>12 DEF On
    <2>. QED  BY <1>13, <2>1
  <1>17. Within(url, p + 3 + h, slash)
    <2>1. Within(u3, p + 3 + h, slash) /\ p + 3 + h \in Nat
      BY <1>7, <1>11, <1>12 DEF On
    <2>. QED  BY <1>2, <1>13, <2>1
  <1>18. Within(url, p + 3 + h + 1, path)
    <2>1. Within(u4, p + 3 + h + 1, path) /\ p + 3 + h + 1 \in Nat
      BY <1>8, <1>11, <1>12 DEF On
    <2>. QED  BY <1>13, <2>1
  <1>19. Within(url, p + 3 + h + 1 + q, eol)
    <2>1. Within(u5, p + 3 + h + 1 + q, eol) /\ p + 3 + h + 1 + q \in Nat
      BY <1>9, <1>11, <1>12 DEF On
    <2>. QED  BY <1>3, <1>13, <2>1
  <1>20. url[p + 1] = ":" /\ url[p + 2] = "/" /\ url[p + 3] = "/"
    <2>1. 1 \in 1 .. 3 /\ 2 \in 1 .. 3 /\ 3 \in 1 .. 3
      OBVIOUS
    <2>. QED  BY <1>1, <1>15, <2>1, Zenon DEF Within
  <1>21. url[p + 3 + h + 1] = "/" /\ url[p + 3 + h + 1 + q + 1] = "newline"
    <2>1. 1 \in 1 .. 1
      OBVIOUS
    <2>. QED  BY <1>2, <1>3, <1>17, <1>19, <2>1, Zenon DEF Within
  <1>22. p + 3 + h + 1 + q + 1 <= Len(url)
    BY <1>11, <1>12
  <1>23. IsLine(url, protocol, host, path)
    BY <1>14, <1>16, <1>18, <1>20, <1>21, <1>22, Zenon DEF IsLine, p, h, q
  <1>. QED
    BY <1>9, <1>10, <1>12, <1>23, Zenon DEF u1, u2, u3, u4, u5, url, sep, slash, eol, p, h, q

(* How many delimiters of such a line the pass has met after i characters,  *)
(* with p, h and q the lengths of the parts.                                *)
Passed(i, p, h, q) ==
    IF i <= p THEN 0 ELSE IF i = p + 1 THEN 1 ELSE IF i = p + 2 THEN 2
    ELSE IF i <= p + 3 + h THEN 3 ELSE IF i <= p + 3 + h + 1 + q THEN 4 ELSE 5

(* The parts hold none of the delimiters that end them.                     *)
Parts(U, protocol, host, path) ==
    /\ protocol \in Seq(U \ {":", "nul"}) /\ host \in Seq(U \ {"/", "nul"})
    /\ path \in Seq(U \ {"newline", "nul"})

(* One character of the line moves the pass on exactly at the delimiters.   *)
LEMMA OneCharacter ==
    ASSUME NEW U, NEW protocol, NEW host, NEW path, Parts(U, protocol, host, path),
           NEW url, IsLine(url, protocol, host, path),
           NEW i \in 1 .. Len(protocol) + 3 + Len(host) + 1 + Len(path) + 1
    PROVE  LET s == Passed(i - 1, Len(protocol), Len(host), Len(path))
               t == Passed(i, Len(protocol), Len(host), Len(path))
           IN  /\ s \in 0 .. 4
               /\ t = IF url[i] = Delimiters[s + 1] THEN s + 1 ELSE s
  <1>. DEFINE p == Len(protocol)
              h == Len(host)
              q == Len(path)
              s == Passed(i - 1, p, h, q)
              t == Passed(i, p, h, q)
  <1>1. p \in Nat /\ h \in Nat /\ q \in Nat
    BY DEF Parts
  <1>2. /\ \A x \in 1 .. p : url[x] # ":"
        /\ \A x \in 1 .. h : url[(p + 3) + x] # "/"
        /\ \A x \in 1 .. q : url[(p + 3 + h + 1) + x] # "newline"
    <2>1. /\ Within(url, 0, protocol) /\ Within(url, p + 3, host)
          /\ Within(url, p + 3 + h + 1, path)
      BY DEF IsLine
    <2>2. ASSUME NEW x \in 1 .. p PROVE url[x] # ":"
      <3>1. url[0 + x] = protocol[x] /\ 0 + x = x
        BY <2>1 DEF Within
      <3>2. protocol[x] \in U \ {":", "nul"}
        BY DEF Parts
      <3>. QED  BY <3>1, <3>2
    <2>3. ASSUME NEW x \in 1 .. h PROVE url[(p + 3) + x] # "/"
      <3>1. url[(p + 3) + x] = host[x]
        BY <2>1 DEF Within
      <3>2. host[x] \in U \ {"/", "nul"}
        BY DEF Parts
      <3>. QED  BY <3>1, <3>2
    <2>4. ASSUME NEW x \in 1 .. q PROVE url[(p + 3 + h + 1) + x] # "newline"
      <3>1. url[(p + 3 + h + 1) + x] = path[x]
        BY <2>1 DEF Within
      <3>2. path[x] \in U \ {"newline", "nul"}
        BY DEF Parts
      <3>. QED  BY <3>1, <3>2
    <2>. QED  BY <2>2, <2>3, <2>4
  <1>3. /\ url[p + 1] = ":" /\ url[p + 2] = "/" /\ url[p + 3] = "/"
        /\ url[p + 3 + h + 1] = "/" /\ url[p + 3 + h + 1 + q + 1] = "newline"
    BY DEF IsLine
  <1>4. /\ Delimiters[1] = ":" /\ Delimiters[2] = "/" /\ Delimiters[3] = "/"
        /\ Delimiters[4] = "/" /\ Delimiters[5] = "newline"
    BY DEF Delimiters
  <1>. DEFINE d == IF url[i] = Delimiters[s + 1] THEN s + 1 ELSE s
  <1>5. i \in 1 .. p + 3 + h + 1 + q + 1
    OBVIOUS
  <1>. HIDE DEF p, h, q
  <1>6. CASE i <= p
    <2>1. s = 0 /\ t = 0
      BY <1>1, <1>5, <1>6 DEF Passed
    <2>2. url[i] # ":"
      BY <1>2, <1>5, <1>6
    <2>. QED  BY <1>4, <2>1, <2>2 DEF p, h, q
  <1>7. CASE i \in {p + 1, p + 2, p + 3}
    <2>1. CASE i = p + 1
      <3>1. s = 0 /\ t = 1
        BY <1>1, <2>1 DEF Passed
      <3>. QED  BY <1>3, <1>4, <2>1, <3>1 DEF p, h, q
    <2>2. CASE i = p + 2
      <3>1. s = 1 /\ t = 2
        BY <1>1, <2>2 DEF Passed
      <3>. QED  BY <1>3, <1>4, <2>2, <3>1 DEF p, h, q
    <2>3. CASE i = p + 3
      <3>1. s = 2 /\ t = 3
        BY <1>1, <2>3 DEF Passed
      <3>. QED  BY <1>3, <1>4, <2>3, <3>1 DEF p, h, q
    <2>. QED  BY <1>7, <2>1, <2>2, <2>3
  <1>8. CASE i > p + 3 /\ i <= p + 3 + h
    <2>1. s = 3 /\ t = 3
      BY <1>1, <1>5, <1>8 DEF Passed
    <2>2. url[i] # "/"
      <3>1. i - (p + 3) \in 1 .. h /\ (p + 3) + (i - (p + 3)) = i
        BY <1>1, <1>5, <1>8
      <3>. QED  BY <1>2, <3>1
    <2>. QED  BY <1>4, <2>1, <2>2 DEF p, h, q
  <1>9. CASE i = p + 3 + h + 1
    <2>1. s = 3 /\ t = 4
      BY <1>1, <1>9 DEF Passed
    <2>. QED  BY <1>3, <1>4, <1>9, <2>1 DEF p, h, q
  <1>10. CASE i > p + 3 + h + 1 /\ i <= p + 3 + h + 1 + q
    <2>1. s = 4 /\ t = 4
      BY <1>1, <1>5, <1>10 DEF Passed
    <2>2. url[i] # "newline"
      <3>1. i - (p + 3 + h + 1) \in 1 .. q /\ (p + 3 + h + 1) + (i - (p + 3 + h + 1)) = i
        BY <1>1, <1>5, <1>10
      <3>. QED  BY <1>2, <3>1
    <2>. QED  BY <1>4, <2>1, <2>2 DEF p, h, q
  <1>11. CASE i = p + 3 + h + 1 + q + 1
    <2>1. s = 4 /\ t = 5
      BY <1>1, <1>11 DEF Passed
    <2>. QED  BY <1>3, <1>4, <1>11, <2>1 DEF p, h, q
  <1>12. \/ i <= p \/ i \in {p + 1, p + 2, p + 3} \/ (i > p + 3 /\ i <= p + 3 + h)
         \/ i = p + 3 + h + 1 \/ (i > p + 3 + h + 1 /\ i <= p + 3 + h + 1 + q)
         \/ i = p + 3 + h + 1 + q + 1
    BY <1>1, <1>5
  <1>. QED  BY <1>6, <1>7, <1>8, <1>9, <1>10, <1>11, <1>12

(* So that is what the pass counts.                                         *)
LEMMA MetOf ==
    ASSUME NEW U, NEW protocol, NEW host, NEW path, Parts(U, protocol, host, path),
           NEW url, IsLine(url, protocol, host, path), NEW n,
           n = Len(protocol) + 3 + Len(host) + 1 + Len(path) + 1
    PROVE  \A i \in 0 .. n : Met(url, n)[i] = Passed(i, Len(protocol), Len(host), Len(path))
  <1>. DEFINE P(i) == Passed(i, Len(protocol), Len(host), Len(path))
              f == [i \in 0 .. n |-> P(i)]
              Step(g) == [i \in 0 .. n |->
                  IF i = 0 THEN 0
                  ELSE IF g[i - 1] < Len(Delimiters) /\ url[i] = Delimiters[g[i - 1] + 1]
                       THEN g[i - 1] + 1 ELSE g[i - 1]]
              g == CHOOSE h : h = Step(h)
  <1>1. Len(protocol) \in Nat /\ Len(host) \in Nat /\ Len(path) \in Nat
    BY DEF Parts
  <1>2. n \in Nat
    BY <1>1
  <1>3. \A i \in 1 .. n : /\ P(i - 1) \in 0 .. 4
                          /\ P(i) = IF url[i] = Delimiters[P(i - 1) + 1] THEN P(i - 1) + 1 ELSE P(i - 1)
    BY OneCharacter
  <1>4. P(0) = 0
    BY <1>1 DEF Passed
  <1>. HIDE DEF P
  <1>5. Len(Delimiters) = 5
    BY DEF Delimiters
  <1>6. ASSUME NEW i \in 0 .. n PROVE f[i] = Step(f)[i]
    <2>1. CASE i = 0
      BY <1>2, <1>4, <2>1
    <2>2. CASE i # 0
      <3>1. i \in 1 .. n /\ i - 1 \in 0 .. n
        BY <1>2, <2>2
      <3>2. f[i - 1] = P(i - 1) /\ f[i] = P(i)
        BY <3>1
      <3>3. P(i - 1) < Len(Delimiters)
        BY <1>3, <1>5, <3>1
      <3>. HIDE DEF f
      <3>. QED  BY <1>3, <2>2, <3>1, <3>2, <3>3
    <2>. QED  BY <2>1, <2>2
  <1>7. f = Step(f)
    BY <1>6
  <1>8. g = Step(g)
    <2>. HIDE DEF f, Step
    <2>. QED  BY <1>7
  <1>9. Met(url, n) = g
    BY DEF Met
  <1>. HIDE DEF g
  <1>. DEFINE T == {i \in Nat : i <= n => g[i] = f[i]}
  <1>10. 0 \in T
    BY <1>2, <1>4, <1>8
  <1>11. ASSUME NEW i \in Nat, i \in T PROVE i + 1 \in T
    <2>. SUFFICES ASSUME i + 1 <= n PROVE g[i + 1] = f[i + 1]
      OBVIOUS
    <2>1. i + 1 \in 0 .. n /\ i + 1 # 0 /\ (i + 1) - 1 = i
      BY <1>2
    <2>2. g[i] = f[i]
      BY <1>2, <1>11
    <2>. HIDE DEF f
    <2>3. g[i + 1] = Step(g)[i + 1] /\ f[i + 1] = Step(f)[i + 1]
      BY <1>6, <1>8, <2>1
    <2>4. Step(g)[i + 1] = Step(f)[i + 1]
      BY <2>1, <2>2
    <2>. QED  BY <2>3, <2>4
  <1>12. \A i \in Nat : i \in T
    <2>. HIDE DEF T
    <2>. QED  BY <1>10, <1>11, ByNat
  <1>13. ASSUME NEW i \in 0 .. n PROVE g[i] = P(i)
    <2>1. i \in Nat /\ i <= n
      BY <1>2
    <2>2. i \in T
      BY <1>12, <2>1
    <2>. QED  BY <2>1, <2>2
  <1>. QED  BY <1>9, <1>13 DEF P

(* The least of a set of numbers.                                           *)
LEMMA MinIs ==
    ASSUME NEW S \in SUBSET Int, NEW m \in S, \A y \in S : m <= y
    PROVE  Min(S) = m
  <1>1. \A x \in S : (\A y \in S : x <= y) => x = m
    OBVIOUS
  <1>. QED  BY <1>1 DEF Min

(* v lies in c behind the first b elements, and a NUL behind v.             *)
Stands(c, b, v) ==
    /\ b + Len(v) + 1 <= Len(c) /\ c[b + Len(v) + 1] = "nul"
    /\ \A x \in 1 .. Len(v) : c[b + x] = v[x]

(* A string ends at the NUL behind it.                                      *)
LEMMA CStringOf ==
    ASSUME NEW U, NEW buf \in Seq(U), NEW b \in Nat, NEW v \in Seq(U \ {"nul"}),
           Stands(buf, b, v)
    PROVE  CString(buf, b + 1) = v
  <1>. DEFINE m == Len(v)
              N == Len(buf)
              S == {i \in b + 1 .. N : buf[i] = "nul"} \cup {N + 1}
  <1>0. b + m + 1 <= N /\ buf[b + m + 1] = "nul" /\ \A x \in 1 .. m : buf[b + x] = v[x]
    BY DEF Stands
  <1>1. m \in Nat /\ N \in Nat
    OBVIOUS
  <1>2. b + m + 1 \in S
    BY <1>0, <1>1
  <1>3. ASSUME NEW y \in S PROVE b + m + 1 <= y
    <2>. SUFFICES ASSUME y \in b + 1 .. N, buf[y] = "nul", y < b + m + 1 PROVE FALSE
      BY <1>0, <1>1
    <2>1. y - b \in 1 .. m /\ b + (y - b) = y
      BY <1>1
    <2>2. buf[y] = v[y - b]
      BY <1>0, <2>1
    <2>3. v[y - b] \in U \ {"nul"}
      BY <2>1
    <2>. QED  BY <2>2, <2>3
  <1>4. S \subseteq Int
    BY <1>1
  <1>. HIDE DEF S
  <1>5. Min(S) = b + m + 1
    BY <1>2, <1>3, <1>4, MinIs
  <1>6. CString(buf, b + 1) = SubSeq(buf, b + 1, Min(S) - 1)
    BY DEF CString, S
  <1>7. (b + m + 1) - 1 = b + m
    BY <1>1
  <1>8. SubSeq(buf, b + 1, b + m) = v
    <2>1. \A x \in 1 .. m : buf[b + x] = v[x]
      BY <1>0
    <2>2. v \in Seq(U \ {"nul"}) /\ Len(v) = m
      OBVIOUS
    <2>. HIDE DEF m
    <2>. QED  BY <1>1, <2>1, <2>2, CutOut
  <1>. QED  BY <1>5, <1>6, <1>7, <1>8

(* The buffer after the pass: a NUL at each delimiter, all else as it was.  *)
CutLine(c, url, n, p, h, q) ==
    /\ Len(c) = Len(url)
    /\ \A i \in 1 .. n :
          c[i] = IF Passed(i, p, h, q) # Passed(i - 1, p, h, q) THEN "nul" ELSE url[i]

(* That is what Cut leaves.                                                 *)
LEMMA CutOf ==
    ASSUME NEW U, "nul" \in U, NEW protocol, NEW host, NEW path, Parts(U, protocol, host, path),
           NEW url \in Seq(U), IsLine(url, protocol, host, path), NEW n,
           n = Len(protocol) + 3 + Len(host) + 1 + Len(path) + 1
    PROVE  /\ Cut(url, n) \in Seq(U)
           /\ CutLine(Cut(url, n), url, n, Len(protocol), Len(host), Len(path))
  <1>. DEFINE P(i) == Passed(i, Len(protocol), Len(host), Len(path))
              c == [i \in 1 .. Len(url) |->
                       IF i <= n /\ Met(url, n)[i] # Met(url, n)[i - 1] THEN "nul" ELSE url[i]]
  <1>1. n \in Nat /\ n <= Len(url) /\ Len(url) \in Nat
    BY DEF Parts, IsLine
  <1>2. \A i \in 0 .. n : Met(url, n)[i] = P(i)
    BY MetOf
  <1>3. Cut(url, n) = c
    <2>1. DOMAIN url = 1 .. Len(url)
      OBVIOUS
    <2>. QED  BY <2>1 DEF Cut
  <1>. HIDE DEF P
  <1>4. c \in Seq(U) /\ Len(c) = Len(url)
    BY <1>1
  <1>5. ASSUME NEW i \in 1 .. n PROVE c[i] = IF P(i) # P(i - 1) THEN "nul" ELSE url[i]
    <2>1. i \in 0 .. n /\ i - 1 \in 0 .. n /\ i \in 1 .. Len(url) /\ i <= n
      BY <1>1
    <2>2. Met(url, n)[i] = P(i) /\ Met(url, n)[i - 1] = P(i - 1)
      BY <1>2, <2>1
    <2>. QED  BY <2>1, <2>2
  <1>. QED  BY <1>3, <1>4, <1>5 DEF P, CutLine

(* The parser returns these three parts.                                    *)
ParsesTo(url, n, protocol, host, path) ==
    ParseURL(url, n) = {[protocol |-> protocol, host |-> host, path |-> path]}

(* What SipfClientHttpParseURL takes out of a line are the parts it was put *)
(* together from: for a protocol without a colon, a host without a slash    *)
(* and any path, whatever an earlier URL has left behind it in the buffer.  *)
THEOREM ParseLine ==
    ASSUME NEW U, "nul" \in U, NEW protocol, NEW host, NEW path, Parts(U, protocol, host, path),
           NEW url \in Seq(U), IsLine(url, protocol, host, path), NEW n,
           n = Len(protocol) + 3 + Len(host) + 1 + Len(path) + 1
    PROVE  ParsesTo(url, n, protocol, host, path)
  <1>. DEFINE p == Len(protocol)
              h == Len(host)
              q == Len(path)
              c == Cut(url, n)
              met == Met(url, n)
              At(s) == CHOOSE i \in 1 .. n : met[i] = s /\ met[i - 1] = s - 1
  <1>1. /\ p \in Nat /\ h \in Nat /\ q \in Nat /\ n = p + 3 + h + 1 + q + 1
        /\ protocol \in Seq(U \ {"nul"}) /\ host \in Seq(U \ {"nul"}) /\ path \in Seq(U \ {"nul"})
    BY DEF Parts
  <1>2. n \in Nat /\ n <= Len(url) /\ Len(url) \in Nat
    BY <1>1 DEF IsLine
  <1>3. \A i \in 0 .. n : met[i] = Passed(i, p, h, q)
    BY MetOf
  <1>4. /\ c \in Seq(U) /\ Len(c) = Len(url)
        /\ \A i \in 1 .. n : c[i] = IF Passed(i, p, h, q) # Passed(i - 1, p, h, q) THEN "nul" ELSE url[i]
    <2>1. c \in Seq(U) /\ CutLine(c, url, n, p, h, q)
      BY CutOf
    <2>. QED  BY <2>1, Zenon DEF CutLine
  <1>5. /\ \A x \in 1 .. p : url[0 + x] = protocol[x]
        /\ \A x \in 1 .. h : url[(p + 3) + x] = host[x]
        /\ \A x \in 1 .. q : url[(p + 3 + h + 1) + x] = path[x]
    BY Zenon DEF IsLine, Within
  <1>. HIDE DEF p, h, q, c, met
  <1>6. CString(c, 0 + 1) = protocol
    <2>1. ASSUME NEW x \in 1 .. p PROVE c[0 + x] = protocol[x]
      <3>1. 0 + x \in 1 .. n /\ Passed(0 + x, p, h, q) = 0 /\ Passed((0 + x) - 1, p, h, q) = 0
        BY <1>1 DEF Passed
      <3>. QED  BY <1>4, <1>5, <3>1
    <2>2. c[0 + p + 1] = "nul" /\ 0 + p + 1 <= Len(c)
      <3>1. /\ 0 + p + 1 \in 1 .. n /\ Passed(0 + p + 1, p, h, q) = 1
            /\ Passed((0 + p + 1) - 1, p, h, q) = 0
        BY <1>1 DEF Passed
      <3>. QED  BY <1>2, <1>4, <3>1
    <2>3. Stands(c, 0, protocol) /\ 0 \in Nat
      BY <2>1, <2>2, Zenon DEF Stands, p
    <2>. QED  BY <1>1, <1>4, <2>3, CStringOf, Zenon
  <1>7. CString(c, (p + 3) + 1) = host
    <2>1. ASSUME NEW x \in 1 .. h PROVE c[(p + 3) + x] = host[x]
      <3>1. /\ (p + 3) + x \in 1 .. n /\ Passed((p + 3) + x, p, h, q) = 3
            /\ Passed(((p + 3) + x) - 1, p, h, q) = 3
        BY <1>1 DEF Passed
      <3>. QED  BY <1>4, <1>5, <3>1
    <2>2. c[(p + 3) + h + 1] = "nul" /\ (p + 3) + h + 1 <= Len(c)
      <3>1. /\ (p + 3) + h + 1 \in 1 .. n /\ Passed((p + 3) + h + 1, p, h, q) = 4
            /\ Passed(((p + 3) + h + 1) - 1, p, h, q) = 3
        BY <1>1 DEF Passed
      <3>2. c[(p + 3) + h + 1] = "nul"
        BY <1>4, <3>1
      <3>3. (p + 3) + h + 1 <= Len(c)
        BY <1>2, <1>4, <3>1
      <3>. QED  BY <3>2, <3>3
    <2>3. p + 3 \in Nat
      BY <1>1
    <2>4. Stands(c, p + 3, host)
      BY <2>1, <2>2, Zenon DEF Stands, h
    <2>. QED  BY <1>1, <1>4, <2>3, <2>4, CStringOf, Zenon
  <1>8. CString(c, (p + 3 + h + 1) + 1) = path
    <2>1. ASSUME NEW x \in 1 .. q PROVE c[(p + 3 + h + 1) + x] = path[x]
      <3>1. /\ (p + 3 + h + 1) + x \in 1 .. n /\ Passed((p + 3 + h + 1) + x, p, h, q) = 4
            /\ Passed(((p + 3 + h + 1) + x) - 1, p, h, q) = 4
        BY <1>1 DEF Passed
      <3>. QED  BY <1>4, <1>5, <3>1
    <2>2. c[(p + 3 + h + 1) + q + 1] = "nul" /\ (p + 3 + h + 1) + q + 1 <= Len(c)
      <3>1. /\ (p + 3 + h + 1) + q + 1 \in 1 .. n /\ Passed((p + 3 + h + 1) + q + 1, p, h, q) = 5
            /\ Passed(((p + 3 + h + 1) + q + 1) - 1, p, h, q) = 4
        BY <1>1 DEF Passed
      <3>2. c[(p + 3 + h + 1) + q + 1] = "nul"
        BY <1>4, <3>1
      <3>3. (p + 3 + h + 1) + q + 1 <= Len(c)
        BY <1>2, <1>4, <3>1
      <3>. QED  BY <3>2, <3>3
    <2>3. p + 3 + h + 1 \in Nat
      BY <1>1
    <2>4. Stands(c, p + 3 + h + 1, path)
      BY <2>1, <2>2, Zenon DEF Stands, q
    <2>. QED  BY <1>1, <1>4, <2>3, <2>4, CStringOf, Zenon
  <1>9. At(3) = p + 3
    <2>1. \A i \in 1 .. n : met[i] = 3 /\ met[i - 1] = 3 - 1 <=> i = p + 3
      <3>. TAKE i \in 1 .. n
      <3>1. met[i] = Passed(i, p, h, q) /\ met[i - 1] = Passed(i - 1, p, h, q)
        BY <1>2, <1>3
      <3>. QED  BY <1>1, <3>1 DEF Passed
    <2>2. p + 3 \in 1 .. n
      BY <1>1
    <2>. QED  BY <2>1, <2>2
  <1>10. At(4) = p + 3 + h + 1
    <2>1. \A i \in 1 .. n : met[i] = 4 /\ met[i - 1] = 4 - 1 <=> i = p + 3 + h + 1
      <3>. TAKE i \in 1 .. n
      <3>1. met[i] = Passed(i, p, h, q) /\ met[i - 1] = Passed(i - 1, p, h, q)
        BY <1>2, <1>3
      <3>. QED  BY <1>1, <3>1 DEF Passed
    <2>2. p + 3 + h + 1 \in 1 .. n
      BY <1>1
    <2>. QED  BY <2>1, <2>2
  <1>11. ~ (met[n] < 4)
    <2>1. met[n] = Passed(n, p, h, q)
      BY <1>2, <1>3
    <2>. QED  BY <1>1, <2>1 DEF Passed
  <1>12. ParseURL(url, n) = {[protocol |-> CString(c, 1), host |-> CString(c, At(3) + 1),
                             path |-> CString(c, At(4) + 1)]}
    BY <1>11 DEF ParseURL, c, met
  <1>13. 0 + 1 = 1
    OBVIOUS
  <1>. HIDE DEF At
  <1>. QED  BY <1>6, <1>7, <1>8, <1>9, <1>10, <1>12, <1>13 DEF ParsesTo

=============================================================================
