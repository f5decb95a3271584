--------------------------- MODULE VarCodecProofs ---------------------------
(***************************************************************************)
(* What VarUint and VarInt promise, for each of the 2^64 words, wherever   *)
(* they stand in the data: reading gives back the word and stops after its *)
(* last octet, an encoding that has lost octets is refused, and the form   *)
(* written is the shortest there is.  With them are the lemmas about octet *)
(* strings, joined and standing in the data, that the proofs of the        *)
(* modules which use VarCodec share.                                       *)
(***************************************************************************)
EXTENDS VarCodec, SequencesExt, SequenceTheorems, TLAPS

\* The octets t stand in s at position p.
StandsAt(t, s, p) ==
    /\ p + Len(t) <= Len(s)
    /\ \A i \in 1..Len(t) : s[p + i] = t[i]

\* Some but not all of the octets t do, and s ends with them.
StandsCut(t, s, p) ==
    /\ p <= Len(s) /\ Len(s) < p + Len(t)
    /\ \A i \in 1..(Len(s) - p) : s[p + i] = t[i]

\* The first octet of t says how long t is.
Announced(t) ==
    /\ t \in Seq(Int)
    /\ Len(t) >= 1
    /\ Following(t[1]) = Len(t) - 1

-----------------------------------------------------------------------------
(* Reading an encoding, whatever it stands for.                            *)

LEMMA WholeIsRead ==
    ASSUME NEW s \in Seq(Int), NEW p \in Nat, NEW t, Announced(t), StandsAt(t, s, p)
    PROVE  /\ ReadVarUint(s, p) =
                  [threw |-> FALSE, pos |-> p + Len(t), value |-> VarUintWord(t)]
           /\ ReadVarInt(s, p) =
                  [threw |-> FALSE, pos |-> p + Len(t), value |-> VarIntWord(t)]
<1> DEFINE n == Following(s[p + 1])
<1>1. t \in Seq(Int) /\ Len(t) \in Nat /\ Len(t) >= 1 /\ Len(s) \in Nat
  BY DEF Announced
<1>2. n = Len(t) - 1
  BY <1>1 DEF Announced, StandsAt
<1>3. ~(p + 1 > Len(s)) /\ n # -1 /\ ~(p + 1 + n > Len(s)) /\ p + 1 + n = p + Len(t)
  BY <1>1, <1>2 DEF StandsAt
<1>4. Take(s, p, n + 1) = t
  <2>1. n + 1 = Len(t)
    BY <1>1, <1>2
  <2>2. t = [i \in 1..Len(t) |-> t[i]]
    BY <1>1, LenProperties
  <2> HIDE DEF n
  <2> QED BY <2>1, <2>2 DEF Take, StandsAt
<1> QED BY <1>3, <1>4 DEF ReadVarUint, ReadVarInt, ReadVar

LEMMA CutIsRefused ==
    ASSUME NEW s \in Seq(Int), NEW p \in Nat, NEW t, Announced(t), StandsCut(t, s, p)
    PROVE  ReadVarUint(s, p).threw /\ ReadVarInt(s, p).threw
<1>1. t \in Seq(Int) /\ Len(t) \in Nat /\ Len(s) \in Nat
  BY DEF Announced
<1>2. CASE p = Len(s)
  <2>1. p + 1 > Len(s)
    BY <1>1, <1>2
  <2> QED BY <2>1 DEF ReadVarUint, ReadVarInt, ReadVar
<1>3. CASE p < Len(s)
  <2>1. s[p + 1] = t[1]
    BY <1>1, <1>3 DEF StandsCut
  <2>2. p + 1 + Following(s[p + 1]) > Len(s)
    BY <1>1, <2>1 DEF StandsCut, Announced
  <2> QED BY <2>2 DEF ReadVarUint, ReadVarInt, ReadVar
<1> QED BY <1>1, <1>2, <1>3 DEF StandsCut

-----------------------------------------------------------------------------
(* One octet put before others.                                            *)

LEMMA Prepended ==
    ASSUME NEW x \in Int, NEW b \in Seq(Int), NEW t \in Seq(Int),
           Len(t) = 1 + Len(b), t[1] = x, \A i \in 1..Len(b) : t[1 + i] = b[i]
    PROVE  <<x>> \o b = t
<1> DEFINE a == <<x>>
           c == a \o b
<1>1. a \in Seq(Int) /\ Len(a) = 1 /\ a[1] = x /\ Len(b) \in Nat
  OBVIOUS
<1> HIDE DEF a
<1>2. c \in Seq(Int) /\ Len(c) = Len(a) + Len(b)
  BY <1>1, ConcatProperties
<1>3. \A i \in 1..(Len(a) + Len(b)) : c[i] = IF i <= Len(a) THEN a[i] ELSE b[i - Len(a)]
  BY <1>1, ConcatProperties
<1> HIDE DEF c
<1>4. \A i \in 1..Len(t) : c[i] = t[i]
  <2> TAKE i \in 1..Len(t)
  <2>1. CASE i = 1
    BY <1>1, <1>3, <2>1
  <2>2. CASE i # 1
    <3>1. i - 1 \in 1..Len(b) /\ 1 + (i - 1) = i /\ i \in 1..(Len(a) + Len(b)) /\ ~(i <= Len(a))
      BY <1>1, <2>2
    <3>2. t[i] = b[i - 1]
      BY <3>1
    <3> QED BY <1>1, <1>3, <3>1, <3>2
  <2> QED BY <2>1, <2>2
<1>5. Len(c) = Len(t)
  BY <1>1, <1>2
<1>6. c = t
  <2>1. c = [i \in 1..Len(c) |-> c[i]] /\ t = [i \in 1..Len(t) |-> t[i]]
    BY <1>2, LenProperties
  <2> QED BY <1>4, <1>5, <2>1
<1> QED BY <1>6 DEF a, c

LEMMA PrependedToNone ==
    ASSUME NEW x \in Int
    PROVE  <<x>> \o <<>> = <<x>>
<1> DEFINE t == <<x>>  b == <<>>
<1>1. t \in Seq(Int) /\ Len(t) = 1 /\ b \in Seq(Int) /\ Len(b) = 0 /\ t[1] = x
  OBVIOUS
<1> HIDE DEF t, b
<1>2. <<x>> \o b = t
  BY <1>1, Prepended
<1> QED BY <1>2 DEF t, b

LEMMA PrependedToOne ==
    ASSUME NEW x \in Int, NEW y \in Int
    PROVE  <<x>> \o <<y>> = <<x, y>>
<1> DEFINE t == <<x, y>>  b == <<y>>
<1>1. /\ t \in Seq(Int) /\ Len(t) = 2 /\ b \in Seq(Int) /\ Len(b) = 1
      /\ t[1] = x /\ t[2] = y /\ b[1] = y
  OBVIOUS
<1> HIDE DEF t, b
<1>2. Len(t) = 1 + Len(b) /\ \A i \in 1..Len(b) : t[1 + i] = b[i]
  BY <1>1
<1>3. <<x>> \o b = t
  BY <1>1, <1>2, Prepended
<1> QED BY <1>3 DEF t, b

LEMMA PrependedToTwo ==
    ASSUME NEW x \in Int, NEW y \in Int, NEW z \in Int
    PROVE  <<x>> \o <<y, z>> = <<x, y, z>>
<1> DEFINE t == <<x, y, z>>  b == <<y, z>>
<1>1. /\ t \in Seq(Int) /\ Len(t) = 3 /\ b \in Seq(Int) /\ Len(b) = 2
      /\ t[1] = x /\ t[2] = y /\ t[3] = z /\ b[1] = y /\ b[2] = z
  OBVIOUS
<1> HIDE DEF t, b
<1>2. Len(t) = 1 + Len(b) /\ \A i \in 1..Len(b) : t[1 + i] = b[i]
  BY <1>1
<1>3. <<x>> \o b = t
  BY <1>1, <1>2, Prepended
<1> QED BY <1>3 DEF t, b

LEMMA WordAsTuple ==
    ASSUME NEW w \in Word
    PROVE  /\ w = <<w[1], w[2], w[3], w[4], w[5], w[6], w[7], w[8]>>
           /\ w[1] \in 0..255 /\ w[2] \in 0..255 /\ w[3] \in 0..255 /\ w[4] \in 0..255
           /\ w[5] \in 0..255 /\ w[6] \in 0..255 /\ w[7] \in 0..255 /\ w[8] \in 0..255
BY DEF Word, Byte

LEMMA WordIsSequence ==
    ASSUME NEW w \in Word
    PROVE  w \in Seq(Int) /\ Len(w) = 8
<1> DEFINE t == <<w[1], w[2], w[3], w[4], w[5], w[6], w[7], w[8]>>
<1>1. t \in Seq(Int) /\ Len(t) = 8
  BY WordAsTuple
<1>2. w = t
  BY WordAsTuple
<1> HIDE DEF t
<1> QED BY <1>1, <1>2

LEMMA PrependedToTail ==
    ASSUME NEW x \in Int, NEW w \in Word
    PROVE  <<x>> \o <<w[5], w[6], w[7], w[8]>> = <<x, w[5], w[6], w[7], w[8]>>
<1> DEFINE t == <<x, w[5], w[6], w[7], w[8]>>
           b == <<w[5], w[6], w[7], w[8]>>
<1>1. /\ t \in Seq(Int) /\ Len(t) = 5 /\ b \in Seq(Int) /\ Len(b) = 4
      /\ t[1] = x /\ t[2] = b[1] /\ t[3] = b[2] /\ t[4] = b[3] /\ t[5] = b[4]
  BY WordAsTuple
<1> HIDE DEF t, b
<1>2. Len(t) = 1 + Len(b) /\ \A i \in 1..Len(b) : t[1 + i] = b[i]
  BY <1>1
<1>3. <<x>> \o b = t
  BY <1>1, <1>2, Prepended
<1> QED BY <1>3 DEF t, b

LEMMA PrependedToWord ==
    ASSUME NEW x \in Int, NEW w \in Word
    PROVE  <<x>> \o w = <<x, w[1], w[2], w[3], w[4], w[5], w[6], w[7], w[8]>>
<1> DEFINE t == <<x, w[1], w[2], w[3], w[4], w[5], w[6], w[7], w[8]>>
<1>1. t \in Seq(Int) /\ Len(t) = 9 /\ t[1] = x
  BY WordAsTuple
<1>2. w \in Seq(Int) /\ Len(w) = 8
  BY WordIsSequence
<1>3. \A i \in 1..8 : t[1 + i] = w[i]
  BY WordAsTuple
<1> HIDE DEF t
<1>4. Len(t) = 1 + Len(w) /\ \A i \in 1..Len(w) : t[1 + i] = w[i]
  BY <1>1, <1>2, <1>3
<1>5. <<x>> \o w = t
  BY <1>1, <1>2, <1>4, Prepended
<1> QED BY <1>5 DEF t

-----------------------------------------------------------------------------
(* The five forms: how each announces its length, and the words it is read *)
(* as.                                                                     *)

LEMMA ShortWord ==
    ASSUME NEW t, NEW q, NEW r, t[1] < 224,
           <<Payload(t[1])>> \o Tail(t) = q, <<Extended(t[1])>> \o Tail(t) = r
    PROVE  /\ VarUintWord(t) = Filled(q, 0)
           /\ VarIntWord(t) = Filled(r, IF Payload(t[1]) < SignBit(t[1]) THEN 0 ELSE 255)
BY Zenon DEF VarUintWord, VarIntWord

LEMMA LongWord ==
    ASSUME NEW t, ~(t[1] < 224)
    PROVE  /\ VarUintWord(t) = Filled(Tail(t), 0)
           /\ VarIntWord(t) = Filled(Tail(t), IF t[2] < 128 THEN 0 ELSE 255)
BY Zenon DEF VarUintWord, VarIntWord

LEMMA OneOctet ==
    ASSUME NEW w \in Word
    PROVE  LET x == w[8] % 128
               t == <<x>>
           IN  /\ Announced(t)
               /\ VarUintWord(t) = <<0, 0, 0, 0, 0, 0, 0, x>>
               /\ x < 64 => VarIntWord(t) = <<0, 0, 0, 0, 0, 0, 0, x>>
               /\ x >= 64 => VarIntWord(t) = <<255, 255, 255, 255, 255, 255, 255, x + 128>>
<1> DEFINE x == w[8] % 128
<1>0. x \in 0..127
  BY WordAsTuple
<1> HIDE DEF x
<1> DEFINE t == <<x>>
           b == <<>>
           e == IF x < 64 THEN x ELSE x + 128
           q == <<x>>
           r == <<e>>
<1>1. Len(t) = 1 /\ t[1] = x /\ t \in Seq(Int) /\ Tail(t) = b
  BY <1>0
<1>2. /\ x \in 0..223 /\ Following(x) = 0 /\ Payload(x) = x
      /\ SignBit(x) = 64 /\ Extended(x) = e
  BY <1>0 DEF Following, Payload, SignBit, Extended
<1>3. <<x>> \o b = q /\ <<e>> \o b = r
  <2>1. x \in Int /\ e \in Int
    BY <1>0
  <2> HIDE DEF e
  <2> QED BY <2>1, PrependedToNone, Zenon
<1>4. /\ Filled(q, 0) = <<0, 0, 0, 0, 0, 0, 0, x>>
      /\ x < 64 => Filled(r, 0) = <<0, 0, 0, 0, 0, 0, 0, x>>
      /\ x >= 64 => Filled(r, 255) = <<255, 255, 255, 255, 255, 255, 255, x + 128>>
  BY <1>0 DEF Filled
<1> HIDE DEF t, b, e, q, r
<1>5. Announced(t)
  BY <1>1, <1>2 DEF Announced
<1>6. VarUintWord(t) = Filled(q, 0) /\ VarIntWord(t) = Filled(r, IF x < 64 THEN 0 ELSE 255)
  <2>1. t[1] < 224
    BY <1>0, <1>1
  <2>2. <<Payload(t[1])>> \o Tail(t) = q /\ <<Extended(t[1])>> \o Tail(t) = r
    BY <1>1, <1>2, <1>3, Zenon
  <2>3. /\ VarUintWord(t) = Filled(q, 0)
        /\ VarIntWord(t) = Filled(r, IF Payload(t[1]) < SignBit(t[1]) THEN 0 ELSE 255)
    BY <2>1, <2>2, ShortWord, Zenon
  <2>4. Payload(t[1]) = x /\ SignBit(t[1]) = 64
    BY <1>1, <1>2
  <2> QED BY <2>3, <2>4
<1>7. /\ Announced(t)
      /\ VarUintWord(t) = <<0, 0, 0, 0, 0, 0, 0, x>>
      /\ x < 64 => VarIntWord(t) = <<0, 0, 0, 0, 0, 0, 0, x>>
      /\ x >= 64 => VarIntWord(t) = <<255, 255, 255, 255, 255, 255, 255, x + 128>>
  BY <1>0, <1>4, <1>5, <1>6
<1> QED BY <1>7, Zenon DEF t, x

LEMMA TwoOctets ==
    ASSUME NEW w \in Word
    PROVE  LET x == w[7] % 64  y == w[8]
               t == <<128 + x, y>>
           IN  /\ Announced(t)
               /\ VarUintWord(t) = <<0, 0, 0, 0, 0, 0, x, y>>
               /\ x < 32 => VarIntWord(t) = <<0, 0, 0, 0, 0, 0, x, y>>
               /\ x >= 32 => VarIntWord(t) = <<255, 255, 255, 255, 255, 255, x + 192, y>>
<1> DEFINE x == w[7] % 64  y == w[8]
<1>0. x \in 0..63 /\ y \in 0..255
  BY WordAsTuple
<1> HIDE DEF x, y
<1> DEFINE t == <<128 + x, y>>
           b == <<y>>
           e == IF x < 32 THEN x ELSE x + 192
           q == <<x, y>>
           r == <<e, y>>
<1>1. Len(t) = 2 /\ t[1] = 128 + x /\ t \in Seq(Int) /\ Tail(t) = b
  BY <1>0
<1>2. /\ 128 + x \in 0..223 /\ Following(128 + x) = 1 /\ Payload(128 + x) = x
      /\ SignBit(128 + x) = 32 /\ Extended(128 + x) = e
  BY <1>0 DEF Following, Payload, SignBit, Extended
<1>3. <<x>> \o b = q /\ <<e>> \o b = r
  <2>1. x \in Int /\ e \in Int /\ y \in Int
    BY <1>0
  <2> HIDE DEF e
  <2> QED BY <2>1, PrependedToOne, Zenon
<1>4. /\ Filled(q, 0) = <<0, 0, 0, 0, 0, 0, x, y>>
      /\ x < 32 => Filled(r, 0) = <<0, 0, 0, 0, 0, 0, x, y>>
      /\ x >= 32 => Filled(r, 255) = <<255, 255, 255, 255, 255, 255, x + 192, y>>
  BY <1>0 DEF Filled
<1> HIDE DEF t, b, e, q, r
<1>5. Announced(t)
  BY <1>1, <1>2 DEF Announced
<1>6. VarUintWord(t) = Filled(q, 0) /\ VarIntWord(t) = Filled(r, IF x < 32 THEN 0 ELSE 255)
  <2>1. t[1] < 224
    BY <1>0, <1>1
  <2>2. <<Payload(t[1])>> \o Tail(t) = q /\ <<Extended(t[1])>> \o Tail(t) = r
    BY <1>1, <1>2, <1>3, Zenon
  <2>3. /\ VarUintWord(t) = Filled(q, 0)
        /\ VarIntWord(t) = Filled(r, IF Payload(t[1]) < SignBit(t[1]) THEN 0 ELSE 255)
    BY <2>1, <2>2, ShortWord, Zenon
  <2>4. Payload(t[1]) = x /\ SignBit(t[1]) = 32
    BY <1>1, <1>2
  <2> QED BY <2>3, <2>4
<1>7. /\ Announced(t)
      /\ VarUintWord(t) = <<0, 0, 0, 0, 0, 0, x, y>>
      /\ x < 32 => VarIntWord(t) = <<0, 0, 0, 0, 0, 0, x, y>>
      /\ x >= 32 => VarIntWord(t) = <<255, 255, 255, 255, 255, 255, x + 192, y>>
  BY <1>0, <1>4, <1>5, <1>6
<1> QED BY <1>7, Zenon DEF t, x, y

LEMMA ThreeOctets ==
    ASSUME NEW w \in Word
    PROVE  LET x == w[6] % 32  y == w[7]  z == w[8]
               t == <<192 + x, y, z>>
           IN  /\ Announced(t)
               /\ VarUintWord(t) = <<0, 0, 0, 0, 0, x, y, z>>
               /\ x < 16 => VarIntWord(t) = <<0, 0, 0, 0, 0, x, y, z>>
               /\ x >= 16 => VarIntWord(t) = <<255, 255, 255, 255, 255, x + 224, y, z>>
<1> DEFINE x == w[6] % 32  y == w[7]  z == w[8]
<1>0. x \in 0..31 /\ y \in 0..255 /\ z \in 0..255
  BY WordAsTuple
<1> HIDE DEF x, y, z
<1> DEFINE t == <<192 + x, y, z>>
           b == <<y, z>>
           e == IF x < 16 THEN x ELSE x + 224
           q == <<x, y, z>>
           r == <<e, y, z>>
<1>1. Len(t) = 3 /\ t[1] = 192 + x /\ t \in Seq(Int) /\ Tail(t) = b
  BY <1>0
<1>2. /\ 192 + x \in 0..223 /\ Following(192 + x) = 2 /\ Payload(192 + x) = x
      /\ SignBit(192 + x) = 16 /\ Extended(192 + x) = e
  BY <1>0 DEF Following, Payload, SignBit, Extended
<1>3. <<x>> \o b = q /\ <<e>> \o b = r
  <2>1. x \in Int /\ e \in Int /\ y \in Int /\ z \in Int
    BY <1>0
  <2> HIDE DEF e
  <2> QED BY <2>1, PrependedToTwo, Zenon
<1>4. /\ Filled(q, 0) = <<0, 0, 0, 0, 0, x, y, z>>
      /\ x < 16 => Filled(r, 0) = <<0, 0, 0, 0, 0, x, y, z>>
      /\ x >= 16 => Filled(r, 255) = <<255, 255, 255, 255, 255, x + 224, y, z>>
  BY <1>0 DEF Filled
<1> HIDE DEF t, b, e, q, r
<1>5. Announced(t)
  BY <1>1, <1>2 DEF Announced
<1>6. VarUintWord(t) = Filled(q, 0) /\ VarIntWord(t) = Filled(r, IF x < 16 THEN 0 ELSE 255)
  <2>1. t[1] < 224
    BY <1>0, <1>1
  <2>2. <<Payload(t[1])>> \o Tail(t) = q /\ <<Extended(t[1])>> \o Tail(t) = r
    BY <1>1, <1>2, <1>3, Zenon
  <2>3. /\ VarUintWord(t) = Filled(q, 0)
        /\ VarIntWord(t) = Filled(r, IF Payload(t[1]) < SignBit(t[1]) THEN 0 ELSE 255)
    BY <2>1, <2>2, ShortWord, Zenon
  <2>4. Payload(t[1]) = x /\ SignBit(t[1]) = 16
    BY <1>1, <1>2
  <2> QED BY <2>3, <2>4
<1>7. /\ Announced(t)
      /\ VarUintWord(t) = <<0, 0, 0, 0, 0, x, y, z>>
      /\ x < 16 => VarIntWord(t) = <<0, 0, 0, 0, 0, x, y, z>>
      /\ x >= 16 => VarIntWord(t) = <<255, 255, 255, 255, 255, x + 224, y, z>>
  BY <1>0, <1>4, <1>5, <1>6
<1> QED BY <1>7, Zenon DEF t, x, y, z

LEMMA FiveOctets ==
    ASSUME NEW w \in Word
    PROVE  LET t == <<225, w[5], w[6], w[7], w[8]>>
           IN  /\ Announced(t)
               /\ VarUintWord(t) = <<0, 0, 0, 0, w[5], w[6], w[7], w[8]>>
               /\ w[5] < 128 => VarIntWord(t) = <<0, 0, 0, 0, w[5], w[6], w[7], w[8]>>
               /\ w[5] >= 128 =>
                     VarIntWord(t) = <<255, 255, 255, 255, w[5], w[6], w[7], w[8]>>
<1> DEFINE t == <<225, w[5], w[6], w[7], w[8]>>
           b == <<w[5], w[6], w[7], w[8]>>
<1>1. Len(t) = 5 /\ t[1] = 225 /\ t[2] = w[5] /\ t \in Seq(Int) /\ Tail(t) = b
  BY WordAsTuple
<1>2. Following(225) = 4
  BY DEF Following
<1>3. \A x \in Int : Filled(b, x) = <<x, x, x, x, w[5], w[6], w[7], w[8]>>
  BY DEF Filled
<1> HIDE DEF t, b
<1>4. Announced(t)
  BY <1>1, <1>2 DEF Announced
<1>5. VarUintWord(t) = Filled(b, 0) /\ VarIntWord(t) = Filled(b, IF w[5] < 128 THEN 0 ELSE 255)
  <2>1. ~(t[1] < 224)
    BY <1>1
  <2>2. /\ VarUintWord(t) = Filled(Tail(t), 0)
        /\ VarIntWord(t) = Filled(Tail(t), IF t[2] < 128 THEN 0 ELSE 255)
    BY <2>1, LongWord, Zenon
  <2>3. (IF t[2] < 128 THEN 0 ELSE 255) = (IF w[5] < 128 THEN 0 ELSE 255)
    BY <1>1
  <2> QED BY <1>1, <2>2, <2>3, Zenon
<1>6. w[5] \in Int
  BY WordAsTuple
<1> QED BY <1>3, <1>4, <1>5, <1>6 DEF t

LEMMA NineOctets ==
    ASSUME NEW w \in Word
    PROVE  LET t == <<226>> \o w
           IN  Announced(t) /\ VarUintWord(t) = w /\ VarIntWord(t) = w
<1> DEFINE t == <<226, w[1], w[2], w[3], w[4], w[5], w[6], w[7], w[8]>>
<1>1. /\ Len(t) = 9 /\ t[1] = 226 /\ t[2] = w[1] /\ t \in Seq(Int)
      /\ Tail(t) = <<w[1], w[2], w[3], w[4], w[5], w[6], w[7], w[8]>>
  BY WordAsTuple
<1>2. Tail(t) = w
  BY <1>1, WordAsTuple
<1>3. Following(226) = 8
  BY DEF Following
<1>4. \A x : Filled(w, x) = w
  <2> HIDE DEF t
  <2>1. Len(w) = 8 /\ \A i \in 1..8 : ~(i <= 8 - 8) /\ i - (8 - 8) = i
    BY WordIsSequence
  <2>2. w = [i \in 1..8 |-> w[i]]
    BY DEF Word
  <2> QED BY <2>1, <2>2 DEF Filled
<1>5. <<226>> \o w = t
  BY PrependedToWord
<1> HIDE DEF t
<1>6. Announced(t)
  BY <1>1, <1>3 DEF Announced
<1>7. VarUintWord(t) = w /\ VarIntWord(t) = w
  <2>1. ~(t[1] < 224)
    BY <1>1
  <2> QED BY <1>2, <1>4, <2>1, LongWord, Zenon
<1> QED BY <1>5, <1>6, <1>7
-----------------------------------------------------------------------------
(* What is written for a word.                                             *)

LEMMA LeadsOctets ==
    ASSUME NEW w \in Word, NEW x
    PROVE  /\ Leads(w, 4, x) <=> w[1] = x /\ w[2] = x /\ w[3] = x /\ w[4] = x
           /\ Leads(w, 5, x) <=> Leads(w, 4, x) /\ w[5] = x
           /\ Leads(w, 6, x) <=> Leads(w, 5, x) /\ w[6] = x
           /\ Leads(w, 7, x) <=> Leads(w, 6, x) /\ w[7] = x
<1>1. /\ \A i \in 1..4 : i = 1 \/ i = 2 \/ i = 3 \/ i = 4
      /\ \A i \in 1..5 : i \in 1..4 \/ i = 5
      /\ \A i \in 1..6 : i \in 1..5 \/ i = 6
      /\ \A i \in 1..7 : i \in 1..6 \/ i = 7
      /\ 1..4 \subseteq 1..5 /\ 1..5 \subseteq 1..6 /\ 1..6 \subseteq 1..7
      /\ {1, 2, 3, 4} \subseteq 1..4 /\ 5 \in 1..5 /\ 6 \in 1..6 /\ 7 \in 1..7
  OBVIOUS
<1> QED BY <1>1 DEF Leads

\* What the pieces of each form are on the wire.
LEMMA JoinedForms ==
    ASSUME NEW w \in Word
    PROVE  /\ \A x : Joined(<<<<x>>>>) = <<x>>
           /\ \A x, y : Joined(<<<<x, y>>>>) = <<x, y>>
           /\ Joined(Three(w)) = <<192 + (w[6] % 32), w[7], w[8]>>
           /\ Joined(WithE1(w)) = <<225, w[5], w[6], w[7], w[8]>>
           /\ Joined(WithE2(w)) = <<226>> \o w
<1>1. \A a, b : Joined(<<a, b>>) = a \o b
  BY DEF Joined
<1>2. \A a : Joined(<<a>>) = a
  BY DEF Joined
<1>3. 192 + (w[6] % 32) \in Int /\ 225 \in Int
  BY WordAsTuple
<1>4. w[5] \in Int /\ w[6] \in Int /\ w[7] \in Int /\ w[8] \in Int
  BY WordAsTuple
<1>5. Tail8(w, 4) = <<w[5], w[6], w[7], w[8]>>
  BY DEF Tail8
<1>6. Joined(Three(w)) = <<192 + (w[6] % 32)>> \o <<w[7], w[8]>>
  BY <1>1, Zenon DEF Three
<1>7. Joined(WithE1(w)) = <<225>> \o <<w[5], w[6], w[7], w[8]>>
  BY <1>1, <1>5, Zenon DEF WithE1
<1>8. Joined(WithE2(w)) = <<226>> \o w
  BY <1>1, Zenon DEF WithE2
<1>9. Joined(Three(w)) = <<192 + (w[6] % 32), w[7], w[8]>>
  BY <1>3, <1>4, <1>6, PrependedToTwo, Zenon
<1>10. Joined(WithE1(w)) = <<225, w[5], w[6], w[7], w[8]>>
  <2>1. <<225>> \o <<w[5], w[6], w[7], w[8]>> = <<225, w[5], w[6], w[7], w[8]>>
    BY <1>3, PrependedToTail
  <2> QED BY <1>7, <2>1, Zenon
<1> QED BY <1>2, <1>8, <1>9, <1>10, Zenon

LEMMA UintIsReadBack ==
    ASSUME NEW w \in Word
    PROVE  /\ Announced(Joined(VarUintPieces(w)))
           /\ VarUintWord(Joined(VarUintPieces(w))) = w
<1> DEFINE t == Joined(VarUintPieces(w))
           one == Leads(w, 7, 0) /\ w[8] < 128
           two == Leads(w, 6, 0) /\ w[7] < 64
           three == Leads(w, 5, 0) /\ w[6] < 32
           four == Leads(w, 4, 0)
<1>1. CASE one
  <2>1. t = <<w[8]>>
    BY <1>1, JoinedForms, Zenon DEF VarUintPieces
  <2>2. w[8] % 128 = w[8] /\ w = <<0, 0, 0, 0, 0, 0, 0, w[8]>>
    BY <1>1, WordAsTuple, LeadsOctets
  <2>3. /\ Announced(<<w[8] % 128>>)
        /\ VarUintWord(<<w[8] % 128>>) = <<0, 0, 0, 0, 0, 0, 0, w[8] % 128>>
    BY OneOctet, Zenon
  <2> QED BY <2>1, <2>2, <2>3
<1>2. CASE ~one /\ two
  <2>1. t = <<128 + w[7], w[8]>>
    BY <1>2, JoinedForms, Zenon DEF VarUintPieces
  <2>2. w[7] % 64 = w[7] /\ w = <<0, 0, 0, 0, 0, 0, w[7], w[8]>>
    BY <1>2, WordAsTuple, LeadsOctets
  <2>3. /\ Announced(<<128 + (w[7] % 64), w[8]>>)
        /\ VarUintWord(<<128 + (w[7] % 64), w[8]>>) = <<0, 0, 0, 0, 0, 0, w[7] % 64, w[8]>>
    BY TwoOctets, Zenon
  <2> QED BY <2>1, <2>2, <2>3
<1>3. CASE ~one /\ ~two /\ three
  <2>1. t = <<192 + (w[6] % 32), w[7], w[8]>>
    BY <1>3, JoinedForms, Zenon DEF VarUintPieces
  <2>2. w[6] % 32 = w[6] /\ w = <<0, 0, 0, 0, 0, w[6], w[7], w[8]>>
    BY <1>3, WordAsTuple, LeadsOctets
  <2>3. /\ Announced(<<192 + (w[6] % 32), w[7], w[8]>>)
        /\ VarUintWord(<<192 + (w[6] % 32), w[7], w[8]>>)
               = <<0, 0, 0, 0, 0, w[6] % 32, w[7], w[8]>>
    BY ThreeOctets, Zenon
  <2> QED BY <2>1, <2>2, <2>3
<1>4. CASE ~one /\ ~two /\ ~three /\ four
  <2>1. t = <<225, w[5], w[6], w[7], w[8]>>
    BY <1>4, JoinedForms, Zenon DEF VarUintPieces
  <2>2. w = <<0, 0, 0, 0, w[5], w[6], w[7], w[8]>>
    BY <1>4, WordAsTuple, LeadsOctets
  <2>3. /\ Announced(<<225, w[5], w[6], w[7], w[8]>>)
        /\ VarUintWord(<<225, w[5], w[6], w[7], w[8]>>)
               = <<0, 0, 0, 0, w[5], w[6], w[7], w[8]>>
    BY FiveOctets
  <2> QED BY <2>1, <2>2, <2>3
<1>5. CASE ~one /\ ~two /\ ~three /\ ~four
  <2>1. t = <<226>> \o w
    BY <1>5, JoinedForms, Zenon DEF VarUintPieces
  <2> QED BY <2>1, NineOctets, Zenon
<1> QED BY <1>1, <1>2, <1>3, <1>4, <1>5, Zenon

LEMMA IntIsReadBack ==
    ASSUME NEW w \in Word
    PROVE  /\ Announced(Joined(VarIntPieces(w)))
           /\ VarIntWord(Joined(VarIntPieces(w))) = w
<1> DEFINE t == Joined(VarIntPieces(w))
           one == Extends(w, 7, 64)
           two == Extends(w, 6, 32)
           three == Extends(w, 5, 16)
           four == Extends(w, 4, 128)
<1>0. 7 + 1 = 8 /\ 6 + 1 = 7 /\ 5 + 1 = 6 /\ 4 + 1 = 5
  OBVIOUS
<1>1. CASE one
  <2> DEFINE x == w[8] % 128
             u == <<x>>
  <2>1. t = u
    BY <1>1, JoinedForms, Zenon DEF VarIntPieces
  <2>2. \/ x < 64 /\ w = <<0, 0, 0, 0, 0, 0, 0, x>>
        \/ x >= 64 /\ w = <<255, 255, 255, 255, 255, 255, 255, x + 128>>
    BY <1>0, <1>1, WordAsTuple, LeadsOctets DEF Extends
  <2>3. /\ Announced(u)
        /\ x < 64 => VarIntWord(u) = <<0, 0, 0, 0, 0, 0, 0, x>>
        /\ x >= 64 => VarIntWord(u) = <<255, 255, 255, 255, 255, 255, 255, x + 128>>
    BY OneOctet, Zenon
  <2> HIDE DEF u
  <2> QED BY <2>1, <2>2, <2>3
<1>2. CASE ~one /\ two
  <2> DEFINE x == w[7] % 64
             u == <<128 + x, w[8]>>
  <2>1. t = u
    BY <1>2, JoinedForms, Zenon DEF VarIntPieces
  <2>2. \/ x < 32 /\ w = <<0, 0, 0, 0, 0, 0, x, w[8]>>
        \/ x >= 32 /\ w = <<255, 255, 255, 255, 255, 255, x + 192, w[8]>>
    BY <1>0, <1>2, WordAsTuple, LeadsOctets DEF Extends
  <2>3. /\ Announced(u)
        /\ x < 32 => VarIntWord(u) = <<0, 0, 0, 0, 0, 0, x, w[8]>>
        /\ x >= 32 => VarIntWord(u) = <<255, 255, 255, 255, 255, 255, x + 192, w[8]>>
    BY TwoOctets, Zenon
  <2> HIDE DEF u
  <2> QED BY <2>1, <2>2, <2>3
<1>3. CASE ~one /\ ~two /\ three
  <2> DEFINE x == w[6] % 32
             u == <<192 + x, w[7], w[8]>>
  <2>1. t = u
    BY <1>3, JoinedForms, Zenon DEF VarIntPieces
  <2>2. \/ x < 16 /\ w = <<0, 0, 0, 0, 0, x, w[7], w[8]>>
        \/ x >= 16 /\ w = <<255, 255, 255, 255, 255, x + 224, w[7], w[8]>>
    BY <1>0, <1>3, WordAsTuple, LeadsOctets DEF Extends
  <2>3. /\ Announced(u)
        /\ x < 16 => VarIntWord(u) = <<0, 0, 0, 0, 0, x, w[7], w[8]>>
        /\ x >= 16 => VarIntWord(u) = <<255, 255, 255, 255, 255, x + 224, w[7], w[8]>>
    BY ThreeOctets, Zenon
  <2> HIDE DEF u
  <2> QED BY <2>1, <2>2, <2>3
<1>4. CASE ~one /\ ~two /\ ~three /\ four
  <2> DEFINE x == w[5]
             u == <<225, w[5], w[6], w[7], w[8]>>
  <2>1. t = u
    BY <1>4, JoinedForms, Zenon DEF VarIntPieces
  <2>2. \/ x < 128 /\ w = <<0, 0, 0, 0, w[5], w[6], w[7], w[8]>>
        \/ x >= 128 /\ w = <<255, 255, 255, 255, w[5], w[6], w[7], w[8]>>
    BY <1>0, <1>4, WordAsTuple, LeadsOctets DEF Extends
  <2>3. /\ Announced(u)
        /\ x < 128 => VarIntWord(u) = <<0, 0, 0, 0, w[5], w[6], w[7], w[8]>>
        /\ x >= 128 => VarIntWord(u) = <<255, 255, 255, 255, w[5], w[6], w[7], w[8]>>
    BY FiveOctets, Zenon
  <2> HIDE DEF u
  <2> QED BY <2>1, <2>2, <2>3
<1>5. CASE ~one /\ ~two /\ ~three /\ ~four
  <2>1. t = <<226>> \o w
    BY <1>5, JoinedForms, Zenon DEF VarIntPieces
  <2> QED BY <2>1, NineOctets, Zenon
<1> QED BY <1>1, <1>2, <1>3, <1>4, <1>5, Zenon

-----------------------------------------------------------------------------
(* Reading any octets at all.                                              *)

\* Whatever octets announce themselves, a word is made of them.
LEMMA FilledIsWord ==
    ASSUME NEW t \in Seq(Byte), Len(t) <= 8
    PROVE  Filled(t, 0) \in Word
<1> DEFINE n == Len(t)
<1>1. n \in Nat /\ n <= 8
  BY LenProperties
<1> HIDE DEF n
<1>2. ASSUME NEW i \in 1..8
      PROVE  (IF i <= 8 - n THEN 0 ELSE t[i - (8 - n)]) \in Byte
  <2>1. CASE i <= 8 - n
    BY <2>1 DEF Byte
  <2>2. CASE ~(i <= 8 - n)
    <3>1. i - (8 - n) \in 1..n
      BY <1>1, <2>2
    <3> QED BY <2>2, <3>1, ElementOfSeq DEF n
  <2> QED BY <2>1, <2>2
<1> QED BY <1>2 DEF Filled, Word, n

LEMMA UintIsWord ==
    ASSUME NEW t \in Seq(Byte), Len(t) \in Nat, Len(t) # 0, Following(t[1]) = Len(t) - 1
    PROVE  VarUintWord(t) \in Word
<1> DEFINE n == Len(t)  x == t[1]  rest == Tail(t)
<1>1. x \in Int /\ x >= 0 /\ x < 256
  <2>1. 1 \in 1..Len(t)
    OBVIOUS
  <2>2. x \in Byte
    BY <2>1, ElementOfSeq
  <2> HIDE DEF x
  <2> QED BY <2>2 DEF Byte
<1>5. Following(x) = n - 1 /\ n \in Nat
  OBVIOUS
<1>2. rest \in Seq(Byte) /\ Len(rest) = n - 1
  BY HeadTailProperties, EmptySeq
<1> HIDE DEF n, x, rest
<1>3. CASE x < 224
  <2>1. n - 1 <= 2 /\ n \in Nat
    BY <1>1, <1>3, <1>5 DEF Following
  <2>2. Payload(x) \in Byte
    BY <1>1, <1>3 DEF Payload, Byte
  <2> DEFINE q == <<Payload(x)>>  all == q \o rest
  <2>3. q \in Seq(Byte) /\ Len(q) = 1
    BY <2>2
  <2>4. all \in Seq(Byte) /\ Len(all) = Len(q) + Len(rest)
    BY <1>2, <2>3, ConcatProperties, Zenon
  <2> HIDE DEF q, all
  <2>5. Len(all) <= 8
    BY <1>2, <2>1, <2>3, <2>4
  <2>6. VarUintWord(t) = Filled(all, 0)
    BY <1>3, Zenon DEF VarUintWord, x, all, q, rest
  <2> QED BY <2>4, <2>5, <2>6, FilledIsWord, Zenon
<1>4. CASE ~(x < 224)
  <2>1. n - 1 <= 8 /\ n \in Nat
    BY <1>1, <1>4, <1>5 DEF Following
  <2>2. Len(rest) <= 8
    BY <1>2, <2>1
  <2>3. VarUintWord(t) = Filled(rest, 0)
    BY <1>4, Zenon DEF VarUintWord, x, rest
  <2> QED BY <1>2, <2>2, <2>3, FilledIsWord, Zenon
<1> QED BY <1>3, <1>4

LEMMA NumberIsNatural ==
    ASSUME NEW w \in Word
    PROVE  NumberOf(w) \in Nat
<1> DEFINE n == Low24(w)
<1>1. n \in Nat
  <2>1. w[6] \in Nat /\ w[7] \in Nat /\ w[8] \in Nat
    BY DEF Word, Byte
  <2> QED BY <2>1 DEF Low24
<1>2. NumberOf(w) \in {n, SizeModulus - Huge + n, Huge}
  BY DEF NumberOf
<1> HIDE DEF n
<1>3. SizeModulus - Huge + n \in Nat /\ Huge \in Nat
  BY <1>1 DEF Huge, SizeModulus
<1> QED BY <1>1, <1>2, <1>3

\* Where a read of an integer may leave the position, whatever the octets are.
LEMMA VarBounds ==
    ASSUME NEW s \in Seq(Byte), NEW p \in Nat, p <= Len(s),
           NEW r, r = ReadVarUint(s, p) \/ r = ReadVarInt(s, p)
    PROVE  /\ r.threw \in BOOLEAN /\ r.pos \in Nat /\ p <= r.pos /\ r.pos <= Len(s)
           /\ p = Len(s) => r.threw /\ r.pos = p
           /\ ~r.threw \/ p < Len(s) => p < r.pos
           /\ r = ReadVarUint(s, p) /\ ~r.threw => NumberOf(r.value) \in Nat
<1> DEFINE x == s[p + 1]  n == Following(x)  l == Len(s)  t == Take(s, p, n + 1)
<1>1. l \in Nat
  BY LenProperties
<1>2. ReadVarUint(s, p) =
        IF p + 1 > l THEN [threw |-> TRUE, pos |-> p, value |-> <<>>]
        ELSE IF n = -1 \/ p + 1 + n > l THEN [threw |-> TRUE, pos |-> p + 1, value |-> <<>>]
        ELSE [threw |-> FALSE, pos |-> p + 1 + n, value |-> VarUintWord(t)]
  BY Zenon DEF ReadVarUint, ReadVar
<1>3. ReadVarInt(s, p) =
        IF p + 1 > l THEN [threw |-> TRUE, pos |-> p, value |-> <<>>]
        ELSE IF n = -1 \/ p + 1 + n > l THEN [threw |-> TRUE, pos |-> p + 1, value |-> <<>>]
        ELSE [threw |-> FALSE, pos |-> p + 1 + n, value |-> VarIntWord(t)]
  BY Zenon DEF ReadVarInt, ReadVar
<1>4. n \in Int /\ n >= -1
  BY DEF Following
<1>5. ASSUME ~(p + 1 > l), n # -1, ~(p + 1 + n > l)
      PROVE  NumberOf(VarUintWord(t)) \in Nat
  <2>1. n \in Nat
    BY <1>4, <1>5
  <2> HIDE DEF n
  <2>2. \A i \in 1..(n + 1) : s[p + i] \in Byte
    <3> SUFFICES ASSUME NEW i \in 1..(n + 1) PROVE s[p + i] \in Byte
      OBVIOUS
    <3>1. p + i \in 1..l
      BY <1>1, <1>5, <2>1
    <3> QED BY <3>1, ElementOfSeq
  <2>3. t \in Seq(Byte) /\ Len(t) = n + 1 /\ t[1] = x
    BY <2>1, <2>2 DEF Take
  <2>4. Len(t) \in Nat /\ Len(t) # 0 /\ n = Len(t) - 1
    BY <2>1, <2>3
  <2>5. Following(t[1]) = Len(t) - 1
    BY <2>3, <2>4, Zenon DEF n
  <2> HIDE DEF t
  <2> QED BY <2>3, <2>4, <2>5, UintIsWord, NumberIsNatural
<1> HIDE DEF x, n, l, t
<1>6. CASE p + 1 > l
  <2>1. r = [threw |-> TRUE, pos |-> p, value |-> <<>>]
    BY <1>2, <1>3, <1>6
  <2>2. p = l /\ ~(p < l)
    BY <1>1, <1>6 DEF l
  <2> QED BY <1>1, <2>1, <2>2 DEF l
<1>7. CASE ~(p + 1 > l) /\ (n = -1 \/ p + 1 + n > l)
  <2>1. r = [threw |-> TRUE, pos |-> p + 1, value |-> <<>>]
    BY <1>2, <1>3, <1>7
  <2>2. p + 1 <= l /\ p # l
    BY <1>1, <1>7 DEF l
  <2> QED BY <1>1, <2>1, <2>2 DEF l
<1>8. CASE ~(p + 1 > l) /\ ~(n = -1 \/ p + 1 + n > l)
  <2>1. r.threw = FALSE /\ r.pos = p + 1 + n
    BY <1>2, <1>3, <1>8
  <2>2. p + 1 + n \in Nat /\ p <= p + 1 + n /\ p + 1 + n <= l /\ p # l /\ p < p + 1 + n
    BY <1>1, <1>4, <1>8
  <2>3. r = ReadVarUint(s, p) => r.value = VarUintWord(t)
    BY <1>2, <1>8
  <2> QED BY <1>5, <1>8, <2>1, <2>2, <2>3 DEF l
<1> QED BY <1>6, <1>7, <1>8

-----------------------------------------------------------------------------
(* Octet strings: at most three of them, joined.                           *)

Strings == Seq(Byte) \ {<<>>}

\* FlattenSeq is a recursive function, which is unfolded once for each piece.
LEMMA FlattenSome ==
    ASSUME NEW s \in Seq(Strings), Len(s) # 0, Len(s) <= 3
    PROVE  FlattenSeq(s) =
             IF Len(s) = 1 THEN s[1]
             ELSE IF Len(s) = 2 THEN s[1] \o s[2]
             ELSE (s[1] \o s[2]) \o s[3]
<1> DEFINE n == Len(s)
           Cat(a, b) == a \o b
           F(f) == [i \in 1..n |-> IF i = 1 THEN s[i] ELSE Cat(f[i - 1], s[i])]
           flatten == CHOOSE f : f = F(f)
           g == [i \in 1..n |-> IF i = 1 THEN s[1] ELSE IF i = 2 THEN Cat(s[1], s[2])
                                ELSE Cat(Cat(s[1], s[2]), s[3])]
<1>1. n \in Nat /\ n # 0 /\ n <= 3
  BY LenProperties
<1>2. FlattenSeq(s) = flatten[n]
  BY DEF FlattenSeq
<1> HIDE DEF n, Cat
<1>3. \A i \in 1..n : F(g)[i] = g[i]
  <2> SUFFICES ASSUME NEW i \in 1..n PROVE F(g)[i] = g[i]
    OBVIOUS
  <2>1. CASE i = 1
    BY <2>1
  <2>2. CASE i = 2
    BY <1>1, <2>2
  <2>3. CASE i = 3
    BY <1>1, <2>3
  <2> QED BY <1>1, <2>1, <2>2, <2>3
<1>4. g = F(g)
  BY <1>3, Zenon
<1> HIDE DEF g
<1>5. flatten = F(flatten)
  <2> HIDE DEF F
  <2> QED BY <1>4, Zenon
<1> HIDE DEF flatten
<1>6. flatten[1] = s[1]
  BY <1>1, <1>5
<1>7. n >= 2 => flatten[2] = Cat(s[1], s[2])
  BY <1>1, <1>5, <1>6
<1>8. n >= 3 => flatten[3] = Cat(Cat(s[1], s[2]), s[3])
  BY <1>1, <1>5, <1>7
<1>9. FlattenSeq(s) = IF n = 1 THEN s[1] ELSE IF n = 2 THEN Cat(s[1], s[2])
                      ELSE Cat(Cat(s[1], s[2]), s[3])
  BY <1>1, <1>2, <1>6, <1>7, <1>8
<1> QED BY <1>9, Zenon DEF n, Cat

LEMMA FlattenNone == FlattenSeq(<<>>) = <<>>
  BY DEF FlattenSeq

\* The pieces that come first are a beginning of the whole, shorter than it if
\* there are others.
LEMMA FlattenPrefix ==
    ASSUME NEW s \in Seq(Strings), Len(s) # 0, Len(s) <= 3, NEW n \in 0..Len(s)
    PROVE  LET whole == FlattenSeq(s)
               some  == FlattenSeq(SubSeq(s, 1, n))
           IN  /\ whole \in Seq(Byte) /\ some \in Seq(Byte)
               /\ Len(some) <= Len(whole)
               /\ \A i \in 1..Len(some) : some[i] = whole[i]
               /\ n > 0 => Len(some) > 0
               /\ n < Len(s) => Len(some) < Len(whole)
<1> DEFINE whole == FlattenSeq(s)
           part == SubSeq(s, 1, n)
           some == FlattenSeq(part)
           m == Len(s)
           a == s[1]  b == s[2]  c == s[3]
           Cat(x, y) == x \o y
           two == Cat(a, b)
           three == Cat(two, c)
           Proper(x) == x \in Seq(Byte) /\ Len(x) \in Nat /\ Len(x) # 0
           Begins(x, y) == /\ Proper(y) /\ Len(x) < Len(y)
                           /\ \A i \in 1..Len(x) : y[i] = x[i]
<1>1. m \in Nat /\ m # 0 /\ m <= 3 /\ n \in Nat /\ n <= m
  BY LenProperties
<1>2. /\ part \in Seq(Strings) /\ Len(part) = n
      /\ \A i \in 1..n : part[i] = s[i]
  <2>1. \A i \in 1..n : s[i] \in Strings
    BY ElementOfSeq
  <2> QED BY <2>1, SubSeqProperties
<1>3. \A x \in Strings : Proper(x)
  BY EmptySeq DEF Strings
<1>4. Proper(a) /\ (m >= 2 => Proper(b)) /\ (m >= 3 => Proper(c))
  <2>1. a \in Strings /\ (m >= 2 => b \in Strings) /\ (m >= 3 => c \in Strings)
    BY <1>1, ElementOfSeq
  <2> HIDE DEF a, b, c, m, Proper
  <2> QED BY <1>3, <2>1
<1>5. ASSUME NEW x, NEW y, Proper(x), Proper(y)
      PROVE  Begins(x, Cat(x, y))
  <2>1. Len(x) \in Nat /\ Len(y) \in Nat /\ Len(y) # 0
    BY <1>5
  <2>2. \A i \in 1..Len(x) : i \in 1..(Len(x) + Len(y)) /\ i <= Len(x)
    BY <2>1
  <2>3. /\ Cat(x, y) \in Seq(Byte) /\ Len(Cat(x, y)) = Len(x) + Len(y)
        /\ \A i \in 1..(Len(x) + Len(y)) :
             Cat(x, y)[i] = IF i <= Len(x) THEN x[i] ELSE y[i - Len(x)]
    BY <1>5, ConcatProperties, Zenon
  <2> HIDE DEF Cat
  <2> QED BY <2>1, <2>2, <2>3
<1>6. whole = IF m = 1 THEN a ELSE IF m = 2 THEN two ELSE three
  BY FlattenSome, Zenon
<1>7. n # 0 => some = IF n = 1 THEN a ELSE IF n = 2 THEN two ELSE three
  <2> HAVE n # 0
  <2>1. Len(part) # 0 /\ Len(part) <= 3
    BY <1>1, <1>2
  <2>2. some = IF Len(part) = 1 THEN part[1]
               ELSE IF Len(part) = 2 THEN Cat(part[1], part[2])
               ELSE Cat(Cat(part[1], part[2]), part[3])
    BY <1>2, <2>1, FlattenSome, Zenon
  <2>3. part[1] = a /\ (n >= 2 => part[2] = b) /\ (n >= 3 => part[3] = c)
    BY <1>1, <1>2
  <2> HIDE DEF part, some, Cat, a, b, c, m
  <2>4. CASE n = 1
    BY <1>2, <2>2, <2>3, <2>4
  <2>5. CASE n = 2
    BY <1>2, <2>2, <2>3, <2>5
  <2>6. CASE n = 3
    BY <1>2, <2>2, <2>3, <2>6
  <2> QED BY <1>1, <2>4, <2>5, <2>6
<1>8. n = 0 => some = <<>>
  <2> HAVE n = 0
  <2>1. part = <<>>
    BY <1>1, SubSeqEmpty
  <2> QED BY <2>1, FlattenNone, Zenon
<1> HIDE DEF whole, part, some, m, a, b, c, Cat, Proper, Begins
<1>9. (m >= 2 => Begins(a, two)) /\ (m >= 3 => Begins(two, three))
  <2>1. m >= 2 => Begins(a, two)
    BY <1>4, <1>5
  <2>2. m >= 3 => m >= 2
    BY <1>1
  <2>3. m >= 3 => Proper(two)
    BY <2>1, <2>2 DEF Begins
  <2> HIDE DEF two
  <2>4. m >= 3 => Begins(two, three)
    BY <1>4, <1>5, <2>3
  <2> QED BY <2>1, <2>4
<1> HIDE DEF two, three
<1>10. whole \in Seq(Byte) /\ Len(whole) \in Nat
  BY <1>1, <1>4, <1>6, <1>9 DEF Begins, Proper
<1>11. n = m => some = whole
  BY <1>1, <1>6, <1>7
<1>12. n # 0 => Len(some) \in Nat /\ Len(some) # 0 /\ some \in Seq(Byte)
  BY <1>1, <1>4, <1>7, <1>9 DEF Begins, Proper
<1>13. n # 0 /\ n < m => /\ Len(some) < Len(whole)
                         /\ \A i \in 1..Len(some) : some[i] = whole[i]
  <2> SUFFICES ASSUME n # 0, n < m
               PROVE  /\ Len(some) < Len(whole)
                      /\ \A i \in 1..Len(some) : some[i] = whole[i]
    OBVIOUS
  <2>1. CASE n = 1 /\ m = 2
    BY <1>6, <1>7, <1>9, <2>1 DEF Begins
  <2>2. CASE n = 2 /\ m = 3
    BY <1>6, <1>7, <1>9, <2>2 DEF Begins
  <2>3. CASE n = 1 /\ m = 3
    <3>1. some = a /\ whole = three /\ Begins(a, two) /\ Begins(two, three)
      BY <1>6, <1>7, <1>9, <2>3
    <3>2. Len(a) \in Nat
      BY <1>4 DEF Proper
    <3> QED BY <3>1, <3>2 DEF Begins, Proper
  <2> QED BY <1>1, <2>1, <2>2, <2>3
<1>14. n = 0 => /\ some \in Seq(Byte) /\ Len(some) = 0 /\ Len(some) < Len(whole)
                /\ \A i \in 1..Len(some) : some[i] = whole[i]
  <2>1. Len(whole) # 0
    BY <1>1, <1>4, <1>6, <1>9 DEF Begins, Proper
  <2> QED BY <1>8, <1>10, <2>1, EmptySeq
<1>15. /\ some \in Seq(Byte) /\ Len(some) <= Len(whole)
       /\ \A i \in 1..Len(some) : some[i] = whole[i]
       /\ n > 0 => Len(some) > 0
       /\ n < m => Len(some) < Len(whole)
  BY <1>1, <1>10, <1>11, <1>12, <1>13, <1>14
<1> QED BY <1>10, <1>15 DEF whole, some, part, m

-----------------------------------------------------------------------------
(* The pieces of an integer, and of a string after its length.             *)

LEMMA WordString ==
    ASSUME NEW w \in Word
    PROVE  w \in Strings /\ Tail8(w, 4) \in Strings
<1>1. w = <<w[1], w[2], w[3], w[4], w[5], w[6], w[7], w[8]>>
  BY WordAsTuple
<1>2. \A i \in 1..8 : w[i] \in Byte
  BY DEF Word
<1>3. <<w[1], w[2], w[3], w[4], w[5], w[6], w[7], w[8]>> \in Strings
  BY <1>2 DEF Strings
<1>4. Tail8(w, 4) = <<w[5], w[6], w[7], w[8]>>
  BY DEF Tail8
<1>5. <<w[5], w[6], w[7], w[8]>> \in Strings
  BY <1>2 DEF Strings
<1> QED BY <1>1, <1>3, <1>4, <1>5, Zenon

\* An integer of variable length is one octet string or two.
IsInteger(pieces) ==
    \/ \E a \in Strings : pieces = <<a>>
    \/ \E a, b \in Strings : pieces = <<a, b>>

LEMMA OctetString ==
    /\ \A x \in Byte : <<x>> \in Strings
    /\ \A x, y \in Byte : <<x, y>> \in Strings
  BY DEF Strings

LEMMA LongForms ==
    ASSUME NEW w \in Word
    PROVE  IsInteger(Three(w)) /\ IsInteger(WithE1(w)) /\ IsInteger(WithE2(w))
<1>1. 192 + (w[6] % 32) \in Byte /\ w[7] \in Byte /\ w[8] \in Byte
  BY WordAsTuple DEF Byte
<1>2. 225 \in Byte /\ 226 \in Byte
  BY DEF Byte
<1>3. IsInteger(Three(w))
  <2>1. <<192 + (w[6] % 32)>> \in Strings /\ <<w[7], w[8]>> \in Strings
    BY <1>1, OctetString, Zenon
  <2> QED BY <2>1, Zenon DEF IsInteger, Three
<1>4. <<225>> \in Strings /\ <<226>> \in Strings
  BY <1>2, OctetString, Zenon
<1>5. IsInteger(WithE1(w)) /\ IsInteger(WithE2(w))
  BY <1>4, WordString, Zenon DEF IsInteger, WithE1, WithE2
<1> QED BY <1>3, <1>5

LEMMA IntegerPieces ==
    ASSUME NEW w \in Word
    PROVE  IsInteger(VarUintPieces(w)) /\ IsInteger(VarIntPieces(w))
<1>1. \A x \in Byte : IsInteger(<<<<x>>>>)
  BY OctetString, Zenon DEF IsInteger
<1>2. \A x, y \in Byte : IsInteger(<<<<x, y>>>>)
  BY OctetString, Zenon DEF IsInteger
<1>3. /\ w[8] \in Byte /\ w[8] % 128 \in Byte
      /\ 128 + (w[7] % 64) \in Byte /\ (w[7] < 64 => 128 + w[7] \in Byte)
  BY WordAsTuple DEF Byte
<1>4. IsInteger(VarUintPieces(w))
  <2> DEFINE one == <<<<w[8]>>>>  two == <<<<128 + w[7], w[8]>>>>
  <2>1. IsInteger(one) /\ (w[7] < 64 => IsInteger(two))
    BY <1>1, <1>2, <1>3, Zenon
  <2>2. \/ VarUintPieces(w) = one
        \/ w[7] < 64 /\ VarUintPieces(w) = two
        \/ VarUintPieces(w) = Three(w)
        \/ VarUintPieces(w) = WithE1(w)
        \/ VarUintPieces(w) = WithE2(w)
    BY Zenon DEF VarUintPieces
  <2> QED BY <2>1, <2>2, LongForms, Zenon
<1>5. IsInteger(VarIntPieces(w))
  <2> DEFINE one == <<<<w[8] % 128>>>>  two == <<<<128 + (w[7] % 64), w[8]>>>>
  <2>1. IsInteger(one) /\ IsInteger(two)
    BY <1>1, <1>2, <1>3, Zenon
  <2>2. \/ VarIntPieces(w) = one
        \/ VarIntPieces(w) = two
        \/ VarIntPieces(w) = Three(w)
        \/ VarIntPieces(w) = WithE1(w)
        \/ VarIntPieces(w) = WithE2(w)
    BY Zenon DEF VarIntPieces
  <2> QED BY <2>1, <2>2, LongForms, Zenon
<1> QED BY <1>4, <1>5

\* An integer's pieces, and what follows them for a string.
LEMMA IntegerShape ==
    ASSUME NEW pieces, IsInteger(pieces)
    PROVE  /\ pieces \in Seq(Strings) /\ Len(pieces) # 0 /\ Len(pieces) <= 2
           /\ FlattenSeq(pieces) = Joined(pieces) /\ Joined(pieces) \in Seq(Byte)
<1>1. CASE \E a \in Strings : pieces = <<a>>
  <2>1. PICK a \in Strings : pieces = <<a>>
    BY <1>1
  <2>2. pieces \in Seq(Strings) /\ Len(pieces) = 1 /\ pieces[1] = a
    BY <2>1
  <2>3. FlattenSeq(pieces) = a /\ Joined(pieces) = a
    <3>1. Len(pieces) # 0 /\ Len(pieces) <= 3
      BY <2>2
    <3> QED BY <2>2, <3>1, FlattenSome, Zenon DEF Joined
  <2> QED BY <2>2, <2>3 DEF Strings
<1>2. CASE \E a, b \in Strings : pieces = <<a, b>>
  <2>1. PICK a \in Strings, b \in Strings : pieces = <<a, b>>
    BY <1>2
  <2>2. pieces \in Seq(Strings) /\ Len(pieces) = 2 /\ pieces[1] = a /\ pieces[2] = b
    BY <2>1
  <2>3. Len(pieces) # 0 /\ Len(pieces) # 1 /\ Len(pieces) <= 3 /\ Len(pieces) <= 2
    BY <2>2
  <2>4. FlattenSeq(pieces) = a \o b /\ Joined(pieces) = a \o b
    BY <2>2, <2>3, FlattenSome, Zenon DEF Joined
  <2>5. a \o b \in Seq(Byte)
    BY ConcatProperties DEF Strings
  <2> QED BY <2>2, <2>3, <2>4, <2>5, Zenon
<1> QED BY <1>1, <1>2 DEF IsInteger

LEMMA StringShape ==
    ASSUME NEW x \in Seq(Byte), NEW field, IsInteger(field),
           NEW rest, rest = IF x = <<>> THEN <<>> ELSE <<x>>
    PROVE  LET pieces == field \o rest
           IN  /\ pieces \in Seq(Strings) /\ Len(pieces) # 0 /\ Len(pieces) <= 3
               /\ FlattenSeq(pieces) = Joined(field) \o x
<1> DEFINE pieces == field \o rest
<1>1. /\ field \in Seq(Strings) /\ Len(field) # 0 /\ Len(field) <= 2
      /\ FlattenSeq(field) = Joined(field) /\ Joined(field) \in Seq(Byte)
  BY IntegerShape
<1>2. CASE x = <<>>
  <2>1. pieces = field
    BY <1>1, <1>2, ConcatEmptySeq, Zenon
  <2>2. Joined(field) \o x = Joined(field)
    BY <1>1, <1>2, ConcatEmptySeq, Zenon
  <2>3. Len(field) <= 3
    BY <1>1, LenProperties
  <2> QED BY <1>1, <2>1, <2>2, <2>3, Zenon
<1>3. CASE x # <<>>
  <2>1. x \in Strings /\ rest = <<x>>
    BY <1>3, Zenon DEF Strings
  <2>2. rest \in Seq(Strings) /\ Len(rest) = 1 /\ rest[1] = x
    BY <2>1
  <2>3. /\ pieces \in Seq(Strings)
        /\ Len(pieces) = Len(field) + Len(rest)
        /\ \A i \in 1..(Len(field) + Len(rest)) :
             pieces[i] = IF i <= Len(field) THEN field[i] ELSE rest[i - Len(field)]
    BY <1>1, <2>2, ConcatProperties, Zenon
  <2> HIDE DEF pieces
  <2>4. CASE Len(field) = 1
    <3>1. Len(pieces) = 2 /\ pieces[1] = field[1] /\ pieces[2] = x
      BY <2>2, <2>3, <2>4
    <3>2. Len(pieces) # 0 /\ Len(pieces) # 1 /\ Len(pieces) <= 3
      BY <3>1
    <3>3. FlattenSeq(pieces) = field[1] \o x
      BY <2>3, <3>1, <3>2, FlattenSome, Zenon
    <3>4. Joined(field) = field[1]
      BY <2>4, Zenon DEF Joined
    <3> QED BY <2>3, <3>2, <3>3, <3>4, Zenon DEF pieces
  <2>5. CASE Len(field) = 2
    <3>1. Len(pieces) = 3 /\ pieces[1] = field[1] /\ pieces[2] = field[2] /\ pieces[3] = x
      BY <2>2, <2>3, <2>5
    <3>2. Len(pieces) # 0 /\ Len(pieces) # 1 /\ Len(pieces) # 2 /\ Len(pieces) <= 3
      BY <3>1
    <3>3. FlattenSeq(pieces) = (field[1] \o field[2]) \o x
      BY <2>3, <3>1, <3>2, FlattenSome, Zenon
    <3>4. Joined(field) = field[1] \o field[2]
      <4>1. Len(field) # 1
        BY <2>5
      <4> QED BY <4>1, Zenon DEF Joined
    <3> QED BY <2>3, <3>2, <3>3, <3>4, Zenon DEF pieces
  <2>6. Len(field) = 1 \/ Len(field) = 2
    <3>1. Len(field) \in Nat /\ Len(field) # 0 /\ Len(field) <= 2
      BY <1>1, LenProperties
    <3> DEFINE k == Len(field)
    <3> HIDE DEF k
    <3>2. k \in Nat /\ k # 0 /\ k <= 2 => k = 1 \/ k = 2
      OBVIOUS
    <3> QED BY <3>1, <3>2, Zenon DEF k
  <2> QED BY <2>4, <2>5, <2>6, Zenon DEF pieces
<1> QED BY <1>2, <1>3

\* A length that a string may have is a word, and the same number again.
LEMMA SmallNumbers ==
    ASSUME NEW n \in Nat, n < Huge
    PROVE  WordOf(n) \in Word /\ NumberOf(WordOf(n)) = n
<1> DEFINE a == n \div 65536  b == (n \div 256) % 256  c == n % 256
           w == <<0, 0, 0, 0, 0, a, b, c>>
<1>1. a \in Byte /\ b \in Byte /\ c \in Byte
  BY DEF Byte, Huge
<1>2. 65536 * a + 256 * b + c = n
  BY DEF Huge
<1>3. WordOf(n) = w
  BY DEF WordOf
<1> HIDE DEF a, b, c
<1>4. w \in Word
  <2>1. 0 \in Byte
    BY DEF Byte
  <2> QED BY <1>1, <2>1 DEF Word
<1>5. Leads(w, 5, 0)
  BY DEF Leads
<1>6. w[6] = a /\ w[7] = b /\ w[8] = c
  OBVIOUS
<1> HIDE DEF w
<1>7. NumberOf(w) = 65536 * a + 256 * b + c
  BY <1>5, <1>6 DEF NumberOf, Low24
<1> QED BY <1>2, <1>3, <1>4, <1>7

-----------------------------------------------------------------------------
(* What stands at a position.                                              *)

\* The octets of bytes are integers.
LEMMA BytesAreInts ==
    ASSUME NEW s \in Seq(Byte)
    PROVE  s \in Seq(Int)
<1>1. Byte \subseteq Int
  BY DEF Byte
<1> QED BY <1>1, SeqMonotonic

\* What stands at a position stands in two parts.
LEMMA StandsInParts ==
    ASSUME NEW a \in Seq(Byte), NEW b \in Seq(Byte), NEW t, t = a \o b,
           NEW s \in Seq(Byte), NEW p \in Nat
    PROVE  /\ StandsAt(t, s, p) => /\ StandsAt(a, s, p)
                                   /\ StandsAt(b, s, p + Len(a))
           /\ StandsCut(t, s, p) => \/ StandsCut(a, s, p)
                                    \/ /\ StandsAt(a, s, p)
                                       /\ Len(s) < p + Len(a) + Len(b)
<1> DEFINE m == Len(a)  n == Len(b)  l == Len(s)
<1>1. m \in Nat /\ n \in Nat /\ l \in Nat
  BY LenProperties
<1>2. /\ Len(t) = m + n
      /\ \A i \in 1..(m + n) : t[i] = IF i <= m THEN a[i] ELSE b[i - m]
  BY ConcatProperties, Zenon
<1> HIDE DEF m, n, l
<1>3. ASSUME StandsAt(t, s, p)
      PROVE  StandsAt(a, s, p) /\ StandsAt(b, s, p + m)
  <2>1. p + (m + n) <= l /\ \A i \in 1..(m + n) : s[p + i] = t[i]
    BY <1>2, <1>3, Zenon DEF StandsAt, l
  <2>2. \A i \in 1..m : s[p + i] = a[i]
    <3> SUFFICES ASSUME NEW i \in 1..m PROVE s[p + i] = a[i]
      OBVIOUS
    <3>1. i \in 1..(m + n) /\ i <= m
      BY <1>1
    <3> QED BY <1>2, <2>1, <3>1
  <2>3. \A i \in 1..n : s[(p + m) + i] = b[i]
    <3> SUFFICES ASSUME NEW i \in 1..n PROVE s[(p + m) + i] = b[i]
      OBVIOUS
    <3>1. m + i \in 1..(m + n) /\ ~(m + i <= m) /\ (m + i) - m = i /\ (p + m) + i = p + (m + i)
      BY <1>1
    <3> QED BY <1>2, <2>1, <3>1
  <2>4. p + m <= l /\ (p + m) + n <= l
    BY <1>1, <2>1
  <2> QED BY <2>2, <2>3, <2>4 DEF StandsAt, m, n, l
<1>4. ASSUME StandsCut(t, s, p)
      PROVE  StandsCut(a, s, p) \/ (StandsAt(a, s, p) /\ l < p + m + n)
  <2>1. p <= l /\ l < p + (m + n) /\ \A i \in 1..(l - p) : s[p + i] = t[i]
    BY <1>2, <1>4, Zenon DEF StandsCut, l
  <2>2. CASE l < p + m
    <3>1. \A i \in 1..(l - p) : s[p + i] = a[i]
      <4> SUFFICES ASSUME NEW i \in 1..(l - p) PROVE s[p + i] = a[i]
        OBVIOUS
      <4>1. i \in 1..(m + n) /\ i <= m /\ i \in 1..(l - p)
        BY <1>1, <2>1, <2>2
      <4> QED BY <1>2, <2>1, <4>1
    <3> QED BY <2>1, <2>2, <3>1 DEF StandsCut, m, l
  <2>3. CASE ~(l < p + m)
    <3>1. \A i \in 1..m : s[p + i] = a[i]
      <4> SUFFICES ASSUME NEW i \in 1..m PROVE s[p + i] = a[i]
        OBVIOUS
      <4>1. i \in 1..(m + n) /\ i <= m /\ i \in 1..(l - p)
        BY <1>1, <2>1, <2>3
      <4> QED BY <1>2, <2>1, <4>1
    <3>2. p + m <= l /\ l < p + m + n
      BY <1>1, <2>1, <2>3
    <3> QED BY <3>1, <3>2 DEF StandsAt, m, l
  <2> QED BY <2>2, <2>3
<1> QED BY <1>3, <1>4 DEF m, n, l

LEMMA TakeStanding ==
    ASSUME NEW t \in Seq(Byte), NEW s, NEW p, StandsAt(t, s, p)
    PROVE  Take(s, p, Len(t)) = t
<1>1. t = [i \in 1..Len(t) |-> t[i]]
  BY LenProperties
<1> QED BY <1>1 DEF Take, StandsAt

\* What stands in the data still stands there when octets are added.
LEMMA StandsLonger ==
    ASSUME NEW s \in Seq(Byte), NEW t \in Seq(Byte), NEW e \in Seq(Byte), NEW p \in Nat
    PROVE  /\ StandsAt(e, s, p) => StandsAt(e, s \o t, p)
           /\ t = e => StandsAt(e, s \o t, Len(s))
           /\ Len(t) < Len(e) /\ (\A i \in 1..Len(t) : t[i] = e[i]) => StandsCut(e, s \o t, Len(s))
<1> DEFINE m == Len(s)  n == Len(t)  k == Len(e)  u == s \o t
<1>1. m \in Nat /\ n \in Nat /\ k \in Nat
  BY LenProperties
<1>2. /\ Len(u) = m + n
      /\ \A i \in 1..(m + n) : u[i] = IF i <= m THEN s[i] ELSE t[i - m]
  BY ConcatProperties, Zenon
<1> HIDE DEF m, n, k, u
<1>3. \A i \in 1..n : u[m + i] = t[i]
  <2> SUFFICES ASSUME NEW i \in 1..n PROVE u[m + i] = t[i]
    OBVIOUS
  <2>1. m + i \in 1..(m + n) /\ ~(m + i <= m) /\ (m + i) - m = i
    BY <1>1
  <2> QED BY <1>2, <2>1
<1>4. ASSUME StandsAt(e, s, p) PROVE StandsAt(e, u, p)
  <2>1. p + k <= m /\ \A i \in 1..k : s[p + i] = e[i]
    BY <1>4 DEF StandsAt, k, m
  <2>2. \A i \in 1..k : u[p + i] = e[i]
    <3> SUFFICES ASSUME NEW i \in 1..k PROVE u[p + i] = e[i]
      OBVIOUS
    <3>1. p + i \in 1..(m + n) /\ p + i <= m
      BY <1>1, <2>1
    <3> QED BY <1>2, <2>1, <3>1
  <2>3. p + k <= Len(u)
    BY <1>1, <1>2, <2>1
  <2> QED BY <2>2, <2>3 DEF StandsAt, k
<1>5. ASSUME t = e PROVE StandsAt(e, u, m)
  <2>1. k = n /\ m + k <= Len(u)
    BY <1>1, <1>2, <1>5 DEF k, n
  <2> QED BY <1>3, <1>5, <2>1 DEF StandsAt, k
<1>6. ASSUME n < k, \A i \in 1..n : t[i] = e[i] PROVE StandsCut(e, u, m)
  <2>1. m <= Len(u) /\ Len(u) < m + k /\ Len(u) - m = n
    BY <1>1, <1>2, <1>6
  <2>2. \A i \in 1..(Len(u) - m) : u[m + i] = e[i]
    BY <1>3, <1>6, <2>1
  <2> QED BY <2>1, <2>2 DEF StandsCut, k
<1> QED BY <1>4, <1>5, <1>6 DEF m, n, k, u

\* And what ends where octets are cut off, or before.
LEMMA StandsShorter ==
    ASSUME NEW s \in Seq(Byte), NEW n \in Nat, n <= Len(s), NEW e \in Seq(Byte), NEW p \in Nat,
           StandsAt(e, s, p)
    PROVE  LET u == SubSeq(s, 1, n)
           IN  /\ u \in Seq(Byte) /\ Len(u) = n
               /\ p + Len(e) <= n => StandsAt(e, u, p)
               /\ p <= n /\ n < p + Len(e) => StandsCut(e, u, p)
<1> DEFINE m == Len(s)  k == Len(e)  u == SubSeq(s, 1, n)
<1>1. m \in Nat /\ k \in Nat /\ n <= m
  BY LenProperties
<1>2. u \in Seq(Byte) /\ Len(u) = n /\ \A i \in 1..n : u[i] = s[i]
  <2>1. \A i \in 1..n : s[i] \in Byte
    BY <1>1, ElementOfSeq
  <2> QED BY <2>1, SubSeqProperties
<1>3. p + k <= m /\ \A i \in 1..k : s[p + i] = e[i]
  BY DEF StandsAt
<1> HIDE DEF m, k, u
<1>4. ASSUME p + k <= n PROVE StandsAt(e, u, p)
  <2>1. \A i \in 1..k : u[p + i] = e[i]
    <3> SUFFICES ASSUME NEW i \in 1..k PROVE u[p + i] = e[i]
      OBVIOUS
    <3>1. p + i \in 1..n
      BY <1>1, <1>4
    <3> QED BY <1>2, <1>3, <3>1
  <2> QED BY <1>2, <1>4, <2>1 DEF StandsAt, k
<1>5. ASSUME p <= n, n < p + k PROVE StandsCut(e, u, p)
  <2>1. \A i \in 1..(n - p) : u[p + i] = e[i]
    <3> SUFFICES ASSUME NEW i \in 1..(n - p) PROVE u[p + i] = e[i]
      OBVIOUS
    <3>1. p + i \in 1..n /\ i \in 1..k
      BY <1>1, <1>5
    <3> QED BY <1>2, <1>3, <3>1
  <2> QED BY <1>2, <1>5, <2>1 DEF StandsCut, k
<1> QED BY <1>2, <1>4, <1>5 DEF k, u

-----------------------------------------------------------------------------
(* The promises.                                                           *)

\* Serializer::Write of a VarUint and Deserializer::Read of one: wherever its
\* encoding stands in the data, every 64-bit value is read back as it was, and
\* the position is left after its last octet.
THEOREM VarUintRoundTrip ==
    \A w \in Word, s \in Seq(Int), p \in Nat :
        LET t == Joined(VarUintPieces(w))
        IN  StandsAt(t, s, p) =>
                ReadVarUint(s, p) = [threw |-> FALSE, pos |-> p + Len(t), value |-> w]
<1>1. SUFFICES ASSUME NEW w \in Word, NEW s \in Seq(Int), NEW p \in Nat,
                      StandsAt(Joined(VarUintPieces(w)), s, p)
               PROVE  ReadVarUint(s, p) =
                          [threw |-> FALSE, pos |-> p + Len(Joined(VarUintPieces(w))),
                           value |-> w]
  BY Zenon
<1>2. /\ Announced(Joined(VarUintPieces(w)))
      /\ VarUintWord(Joined(VarUintPieces(w))) = w
  BY UintIsReadBack
<1> QED BY <1>1, <1>2, WholeIsRead, Zenon

\* The same of a VarInt, for positive and negative values.
THEOREM VarIntRoundTrip ==
    \A w \in Word, s \in Seq(Int), p \in Nat :
        LET t == Joined(VarIntPieces(w))
        IN  StandsAt(t, s, p) =>
                ReadVarInt(s, p) = [threw |-> FALSE, pos |-> p + Len(t), value |-> w]
<1>1. SUFFICES ASSUME NEW w \in Word, NEW s \in Seq(Int), NEW p \in Nat,
                      StandsAt(Joined(VarIntPieces(w)), s, p)
               PROVE  ReadVarInt(s, p) =
                          [threw |-> FALSE, pos |-> p + Len(Joined(VarIntPieces(w))),
                           value |-> w]
  BY Zenon
<1>2. /\ Announced(Joined(VarIntPieces(w)))
      /\ VarIntWord(Joined(VarIntPieces(w))) = w
  BY IntIsReadBack
<1> QED BY <1>1, <1>2, WholeIsRead, Zenon

\* An encoding whose last octets were not delivered is never read as some
\* other value: both reads throw.
THEOREM CutVarIsRefused ==
    \A w \in Word, s \in Seq(Int), p \in Nat :
        /\ StandsCut(Joined(VarUintPieces(w)), s, p) => ReadVarUint(s, p).threw
        /\ StandsCut(Joined(VarIntPieces(w)), s, p) => ReadVarInt(s, p).threw
BY UintIsReadBack, IntIsReadBack, CutIsRefused, Zenon
-----------------------------------------------------------------------------
(* The form written is the shortest there is.                              *)

\* The octets each form takes, by the words that it is taken for.
LEMMA UintOctets ==
    ASSUME NEW w \in Word
    PROVE  LET n == Len(Joined(VarUintPieces(w)))
           IN  /\ n \in Nat /\ n <= 9
               /\ Leads(w, 4, 0) => n <= 5
               /\ Leads(w, 5, 0) /\ w[6] < 32 => n <= 3
               /\ Leads(w, 6, 0) /\ w[7] < 64 => n <= 2
               /\ Leads(w, 7, 0) /\ w[8] < 128 => n = 1
<1> DEFINE t == Joined(VarUintPieces(w))
           one == Leads(w, 7, 0) /\ w[8] < 128
           two == Leads(w, 6, 0) /\ w[7] < 64
           three == Leads(w, 5, 0) /\ w[6] < 32
           four == Leads(w, 4, 0)
<1>1. CASE one
  <2>1. t = <<w[8]>>
    BY <1>1, JoinedForms, Zenon DEF VarUintPieces
  <2>2. Len(t) = 1
    BY <2>1
  <2> QED BY <1>1, <2>2
<1>2. CASE ~one /\ two
  <2>1. t = <<128 + w[7], w[8]>>
    BY <1>2, JoinedForms, Zenon DEF VarUintPieces
  <2>2. Len(t) = 2
    BY <2>1
  <2> QED BY <1>2, <2>2
<1>3. CASE ~one /\ ~two /\ three
  <2>1. t = <<192 + (w[6] % 32), w[7], w[8]>>
    BY <1>3, JoinedForms, Zenon DEF VarUintPieces
  <2>2. Len(t) = 3
    BY <2>1
  <2> QED BY <1>3, <2>2
<1>4. CASE ~one /\ ~two /\ ~three /\ four
  <2>1. t = <<225, w[5], w[6], w[7], w[8]>>
    BY <1>4, JoinedForms, Zenon DEF VarUintPieces
  <2>2. Len(t) = 5
    BY <2>1
  <2> QED BY <1>4, <2>2
<1>5. CASE ~one /\ ~two /\ ~three /\ ~four
  <2>1. t = <<226>> \o w
    BY <1>5, JoinedForms, Zenon DEF VarUintPieces
  <2>2. Len(t) = 9
    <3>1. t = <<226, w[1], w[2], w[3], w[4], w[5], w[6], w[7], w[8]>>
      BY <2>1, PrependedToWord, 226 \in Int, Zenon
    <3> QED BY <3>1
  <2> QED BY <1>5, <2>2
<1> QED BY <1>1, <1>2, <1>3, <1>4, <1>5, Zenon

LEMMA IntOctets ==
    ASSUME NEW w \in Word
    PROVE  LET n == Len(Joined(VarIntPieces(w)))
           IN  /\ n \in Nat /\ n <= 9
               /\ Extends(w, 4, 128) => n <= 5
               /\ Extends(w, 5, 16) => n <= 3
               /\ Extends(w, 6, 32) => n <= 2
               /\ Extends(w, 7, 64) => n = 1
<1> DEFINE t == Joined(VarIntPieces(w))
           one == Extends(w, 7, 64)
           two == Extends(w, 6, 32)
           three == Extends(w, 5, 16)
           four == Extends(w, 4, 128)
<1>1. CASE one
  <2>1. t = <<w[8] % 128>>
    BY <1>1, JoinedForms, Zenon DEF VarIntPieces
  <2>2. Len(t) = 1
    BY <2>1
  <2> QED BY <1>1, <2>2
<1>2. CASE ~one /\ two
  <2>1. t = <<128 + (w[7] % 64), w[8]>>
    BY <1>2, JoinedForms, Zenon DEF VarIntPieces
  <2>2. Len(t) = 2
    BY <2>1
  <2> QED BY <1>2, <2>2
<1>3. CASE ~one /\ ~two /\ three
  <2>1. t = <<192 + (w[6] % 32), w[7], w[8]>>
    BY <1>3, JoinedForms, Zenon DEF VarIntPieces
  <2>2. Len(t) = 3
    BY <2>1
  <2> QED BY <1>3, <2>2
<1>4. CASE ~one /\ ~two /\ ~three /\ four
  <2>1. t = <<225, w[5], w[6], w[7], w[8]>>
    BY <1>4, JoinedForms, Zenon DEF VarIntPieces
  <2>2. Len(t) = 5
    BY <2>1
  <2> QED BY <1>4, <2>2
<1>5. CASE ~one /\ ~two /\ ~three /\ ~four
  <2>1. t = <<226>> \o w
    BY <1>5, JoinedForms, Zenon DEF VarIntPieces
  <2>2. Len(t) = 9
    <3>1. t = <<226, w[1], w[2], w[3], w[4], w[5], w[6], w[7], w[8]>>
      BY <2>1, PrependedToWord, 226 \in Int, Zenon
    <3> QED BY <3>1
  <2> QED BY <1>5, <2>2
<1> QED BY <1>1, <1>2, <1>3, <1>4, <1>5, Zenon

\* Octets that are read announce themselves, and are 1, 2, 3, 5 or 9.
LEMMA ReadTaken ==
    ASSUME NEW s \in Seq(Byte), NEW p \in Nat,
           ~ReadVarUint(s, p).threw \/ ~ReadVarInt(s, p).threw
    PROVE  LET t == Take(s, p, Following(s[p + 1]) + 1)
           IN  /\ t \in Seq(Byte) /\ Announced(t) /\ StandsAt(t, s, p)
               /\ Len(t) \in {1, 2, 3, 5, 9}
               /\ t[1] \in 0..255
               /\ Len(t) = 1 <=> t[1] < 128
               /\ Len(t) = 2 <=> t[1] >= 128 /\ t[1] < 192
               /\ Len(t) = 3 <=> t[1] >= 192 /\ t[1] < 224
               /\ Len(t) = 5 <=> t[1] = 225
               /\ Len(t) = 9 <=> t[1] = 226
<1> DEFINE x == s[p + 1]  n == Following(x)  t == Take(s, p, n + 1)
<1>1. Len(s) \in Nat
  BY LenProperties
<1>2. ~(p + 1 > Len(s)) /\ n # -1 /\ ~(p + 1 + n > Len(s))
  BY DEF ReadVarUint, ReadVarInt, ReadVar
<1>3. x \in 0..255
  <2>1. p + 1 \in 1..Len(s)
    BY <1>1, <1>2
  <2> QED BY <2>1, ElementOfSeq DEF Byte
<1> HIDE DEF x
<1>4. /\ n \in {0, 1, 2, 4, 8}
      /\ n = 0 <=> x < 128
      /\ n = 1 <=> x >= 128 /\ x < 192
      /\ n = 2 <=> x >= 192 /\ x < 224
      /\ n = 4 <=> x = 225
      /\ n = 8 <=> x = 226
  BY <1>2, <1>3 DEF Following
<1>5. Following(x) = n
  OBVIOUS
<1> HIDE DEF n
<1>6. \A i \in 1..(n + 1) : p + i \in 1..Len(s)
  BY <1>1, <1>2, <1>4
<1>7. t \in Seq(Byte) /\ Len(t) = n + 1 /\ \A i \in 1..(n + 1) : t[i] = s[p + i]
  <2>1. \A i \in 1..(n + 1) : s[p + i] \in Byte
    BY <1>6, ElementOfSeq
  <2>2. n + 1 \in Nat
    BY <1>4
  <2> QED BY <2>1, <2>2 DEF Take
<1> HIDE DEF t
<1>8. t[1] = x
  BY <1>4, <1>7 DEF x
<1>9. t \in Seq(Int)
  BY <1>7, BytesAreInts
<1>10. Announced(t)
  BY <1>4, <1>5, <1>7, <1>8, <1>9 DEF Announced
<1>11. StandsAt(t, s, p)
  BY <1>1, <1>2, <1>4, <1>7 DEF StandsAt
<1>12. t = Take(s, p, Following(s[p + 1]) + 1)
  BY DEF t, n, x
<1> HIDE DEF t
<1>13. /\ Len(t) \in {1, 2, 3, 5, 9}
       /\ t[1] \in 0..255
       /\ Len(t) = 1 <=> t[1] < 128
       /\ Len(t) = 2 <=> t[1] >= 128 /\ t[1] < 192
       /\ Len(t) = 3 <=> t[1] >= 192 /\ t[1] < 224
       /\ Len(t) = 5 <=> t[1] = 225
       /\ Len(t) = 9 <=> t[1] = 226
  BY <1>3, <1>4, <1>7, <1>8
<1>14. /\ t \in Seq(Byte) /\ Announced(t) /\ StandsAt(t, s, p)
       /\ Len(t) \in {1, 2, 3, 5, 9}
       /\ t[1] \in 0..255
       /\ Len(t) = 1 <=> t[1] < 128
       /\ Len(t) = 2 <=> t[1] >= 128 /\ t[1] < 192
       /\ Len(t) = 3 <=> t[1] >= 192 /\ t[1] < 224
       /\ Len(t) = 5 <=> t[1] = 225
       /\ Len(t) = 9 <=> t[1] = 226
  BY <1>7, <1>10, <1>11, <1>13
<1> QED BY <1>14, Zenon DEF t, n, x

\* Eight octets are a word.
LEMMA OctetsAreWord ==
    ASSUME NEW w \in Seq(Byte), Len(w) = 8
    PROVE  w \in Word
  BY LenProperties DEF Word

\* A sequence of some length lists its elements.
LEMMA ListedOctets ==
    ASSUME NEW t \in Seq(Byte)
    PROVE  /\ Len(t) = 1 => t = <<t[1]>>
           /\ Len(t) = 2 => t = <<t[1], t[2]>>
           /\ Len(t) = 3 => t = <<t[1], t[2], t[3]>>
           /\ Len(t) = 5 => t = <<t[1], t[2], t[3], t[4], t[5]>>
<1>1. ASSUME NEW f, f \in Seq(Int), Len(f) = Len(t), \A i \in 1..Len(t) : f[i] = t[i]
      PROVE  t = f
  <2>1. t \in Seq(Int)
    BY BytesAreInts
  <2> QED BY <1>1, <2>1, SeqEqual
<1>2. \A i \in 1..Len(t) : t[i] \in Int
  <2>1. t \in Seq(Int)
    BY BytesAreInts
  <2> QED BY <2>1, ElementOfSeq
<1>3. CASE Len(t) = 1
  <2> DEFINE f == <<t[1]>>
  <2>1. f \in Seq(Int) /\ Len(f) = 1 /\ f[1] = t[1]
    BY <1>2, <1>3
  <2> HIDE DEF f
  <2>2. t = f
    BY <1>1, <1>3, <2>1
  <2> QED BY <1>3, <2>2 DEF f
<1>4. CASE Len(t) = 2
  <2> DEFINE f == <<t[1], t[2]>>
  <2>1. f \in Seq(Int) /\ Len(f) = 2 /\ f[1] = t[1] /\ f[2] = t[2]
    BY <1>2, <1>4
  <2> HIDE DEF f
  <2>2. t = f
    BY <1>1, <1>4, <2>1
  <2> QED BY <1>4, <2>2 DEF f
<1>5. CASE Len(t) = 3
  <2> DEFINE f == <<t[1], t[2], t[3]>>
  <2>1. f \in Seq(Int) /\ Len(f) = 3 /\ f[1] = t[1] /\ f[2] = t[2] /\ f[3] = t[3]
    BY <1>2, <1>5
  <2> HIDE DEF f
  <2>2. t = f
    BY <1>1, <1>5, <2>1
  <2> QED BY <1>5, <2>2 DEF f
<1>6. CASE Len(t) = 5
  <2> DEFINE f == <<t[1], t[2], t[3], t[4], t[5]>>
  <2>1. /\ f \in Seq(Int) /\ Len(f) = 5 /\ f[1] = t[1] /\ f[2] = t[2] /\ f[3] = t[3]
        /\ f[4] = t[4] /\ f[5] = t[5]
    BY <1>2, <1>6
  <2> HIDE DEF f
  <2>2. \A i \in 1..Len(t) : i = 1 \/ i = 2 \/ i = 3 \/ i = 4 \/ i = 5
    BY <1>6
  <2>3. \A i \in 1..Len(t) : f[i] = t[i]
    BY <2>1, <2>2
  <2>4. t = f
    BY <1>1, <1>6, <2>1, <2>3
  <2> QED BY <1>6, <2>4 DEF f
<1> QED BY <1>3, <1>4, <1>5, <1>6

\* A word that is the sign extension of its last octets, or begins with zeros.
LEMMA TupleExtends ==
    ASSUME NEW w \in Word
    PROVE  /\ w[1] = 0 /\ w[2] = 0 /\ w[3] = 0 /\ w[4] = 0 =>
                /\ Leads(w, 4, 0) /\ (w[5] < 128 => Extends(w, 4, 128))
                /\ w[5] = 0 =>
                     /\ Leads(w, 5, 0) /\ (w[6] < 16 => Extends(w, 5, 16))
                     /\ w[6] = 0 =>
                          /\ Leads(w, 6, 0) /\ (w[7] < 32 => Extends(w, 6, 32))
                          /\ w[7] = 0 => Leads(w, 7, 0) /\ (w[8] < 64 => Extends(w, 7, 64))
           /\ w[1] = 255 /\ w[2] = 255 /\ w[3] = 255 /\ w[4] = 255 =>
                /\ w[5] >= 128 => Extends(w, 4, 128)
                /\ w[5] = 255 =>
                     /\ w[6] >= 240 => Extends(w, 5, 16)
                     /\ w[6] = 255 =>
                          /\ w[7] >= 224 => Extends(w, 6, 32)
                          /\ w[7] = 255 => (w[8] >= 192 => Extends(w, 7, 64))
<1>1. 7 + 1 = 8 /\ 6 + 1 = 7 /\ 5 + 1 = 6 /\ 4 + 1 = 5
  OBVIOUS
<1>2. 256 - 64 = 192 /\ 256 - 32 = 224 /\ 256 - 16 = 240 /\ 256 - 128 = 128
  OBVIOUS
<1>3. /\ Leads(w, 4, 0) <=> w[1] = 0 /\ w[2] = 0 /\ w[3] = 0 /\ w[4] = 0
      /\ Leads(w, 5, 0) <=> Leads(w, 4, 0) /\ w[5] = 0
      /\ Leads(w, 6, 0) <=> Leads(w, 5, 0) /\ w[6] = 0
      /\ Leads(w, 7, 0) <=> Leads(w, 6, 0) /\ w[7] = 0
      /\ Leads(w, 4, 255) <=> w[1] = 255 /\ w[2] = 255 /\ w[3] = 255 /\ w[4] = 255
      /\ Leads(w, 5, 255) <=> Leads(w, 4, 255) /\ w[5] = 255
      /\ Leads(w, 6, 255) <=> Leads(w, 5, 255) /\ w[6] = 255
      /\ Leads(w, 7, 255) <=> Leads(w, 6, 255) /\ w[7] = 255
  BY LeadsOctets
<1>4. /\ Extends(w, 4, 128) <=> \/ Leads(w, 4, 0) /\ w[5] < 128
                                \/ Leads(w, 4, 255) /\ w[5] >= 128
      /\ Extends(w, 5, 16) <=> \/ Leads(w, 5, 0) /\ w[6] < 16
                               \/ Leads(w, 5, 255) /\ w[6] >= 240
      /\ Extends(w, 6, 32) <=> \/ Leads(w, 6, 0) /\ w[7] < 32
                               \/ Leads(w, 6, 255) /\ w[7] >= 224
      /\ Extends(w, 7, 64) <=> \/ Leads(w, 7, 0) /\ w[8] < 64
                               \/ Leads(w, 7, 255) /\ w[8] >= 192
  BY <1>1, <1>2 DEF Extends
<1> QED BY <1>3, <1>4

\* The range of a first octet without its leading bits.
LEMMA ShortRange ==
    ASSUME NEW y
    PROVE  /\ y \in 128..191 => y - 128 \in 0..63 /\ 128 + (y - 128) = y
           /\ y \in 192..223 => y - 192 \in 0..31 /\ 192 + (y - 192) = y
  OBVIOUS

\* The words that the octets of each form are read as.
LEMMA OneWord ==
    ASSUME NEW t \in Seq(Byte), Len(t) = 1, t[1] \in 0..127
    PROVE  LET u == VarUintWord(t)  v == VarIntWord(t)
           IN  u \in Word /\ v \in Word /\ Leads(u, 7, 0) /\ u[8] < 128 /\ Extends(v, 7, 64)
<1> DEFINE x == t[1]
<1>1. t = <<x>>
  BY ListedOctets
<1>2. x \in 0..127
  OBVIOUS
<1> HIDE DEF x
<1> DEFINE w == <<0, 0, 0, 0, 0, 0, 0, x>>  u == VarUintWord(t)  v == VarIntWord(t)
<1>3. w \in Word /\ w[8] = x /\ x % 128 = x
  <2>1. w \in Seq(Byte) /\ Len(w) = 8 /\ w[8] = x /\ x % 128 = x
    BY <1>2 DEF Byte
  <2> HIDE DEF w
  <2> QED BY <2>1, OctetsAreWord
<1>4. /\ u = <<0, 0, 0, 0, 0, 0, 0, x>>
      /\ x < 64 => v = <<0, 0, 0, 0, 0, 0, 0, x>>
      /\ x >= 64 => v = <<255, 255, 255, 255, 255, 255, 255, x + 128>>
  <2> HIDE DEF w
  <2> DEFINE X == w[8] % 128  f == <<X>>
  <2>1. /\ VarUintWord(f) = <<0, 0, 0, 0, 0, 0, 0, X>>
        /\ X < 64 => VarIntWord(f) = <<0, 0, 0, 0, 0, 0, 0, X>>
        /\ X >= 64 => VarIntWord(f) = <<255, 255, 255, 255, 255, 255, 255, X + 128>>
    BY <1>3, OneOctet, Zenon
  <2>2. X = x /\ f = t
    BY <1>1, <1>2, <1>3
  <2> HIDE DEF X, f
  <2> QED BY <2>1, <2>2
<1> HIDE DEF u, v
<1>5. /\ u \in Word /\ u[1] = 0 /\ u[2] = 0 /\ u[3] = 0 /\ u[4] = 0
      /\ u[5] = 0 /\ u[6] = 0 /\ u[7] = 0 /\ u[8] = x
  <2>1. u \in Seq(Byte) /\ Len(u) = 8
    BY <1>2, <1>4 DEF Byte
  <2> QED BY <1>4, <2>1, OctetsAreWord
<1>6. v \in Word /\ Extends(v, 7, 64)
  <2>1. CASE x < 64
    <3>1. v = u
      BY <1>4, <2>1
    <3> QED BY <1>2, <1>5, <2>1, <3>1, TupleExtends
  <2>2. CASE x >= 64
    <3>1. /\ v \in Word /\ v[1] = 255 /\ v[2] = 255 /\ v[3] = 255 /\ v[4] = 255
          /\ v[5] = 255 /\ v[6] = 255 /\ v[7] = 255 /\ v[8] = x + 128
      <4> DEFINE top == x + 128
      <4>1. top \in Byte /\ 255 \in Byte
        BY <1>2, <2>2 DEF Byte
      <4> HIDE DEF top
      <4>2. v = <<255, 255, 255, 255, 255, 255, 255, top>>
        BY <1>4, <2>2 DEF top
      <4>3. v \in Seq(Byte) /\ Len(v) = 8
        BY <4>1, <4>2
      <4>4. v \in Word
        BY <4>3, OctetsAreWord
      <4> QED BY <4>2, <4>4 DEF top
    <3> QED BY <1>2, <2>2, <3>1, TupleExtends
  <2> QED BY <1>2, <2>1, <2>2
<1>7. Leads(u, 7, 0) /\ u[8] < 128
  BY <1>2, <1>5, TupleExtends
<1> QED BY <1>5, <1>6, <1>7 DEF u, v

LEMMA TwoWord ==
    ASSUME NEW t \in Seq(Byte), Len(t) = 2, t[1] \in 128..191, t[2] \in 0..255
    PROVE  LET u == VarUintWord(t)  v == VarIntWord(t)
           IN  u \in Word /\ v \in Word /\ Leads(u, 6, 0) /\ u[7] < 64 /\ Extends(v, 6, 32)
<1> DEFINE x == t[1] - 128  y == t[2]
<1>1. x \in 0..63 /\ y \in 0..255 /\ 128 + x = t[1]
  BY ShortRange
<1>2. t = <<128 + x, y>>
  <2>1. t = <<t[1], t[2]>>
    BY ListedOctets
  <2> HIDE DEF x
  <2> QED BY <1>1, <2>1
<1> HIDE DEF x, y
<1> DEFINE w == <<0, 0, 0, 0, 0, 0, x, y>>  u == VarUintWord(t)  v == VarIntWord(t)
<1>3. w \in Word /\ w[7] = x /\ w[8] = y /\ x % 64 = x
  <2>1. w \in Seq(Byte) /\ Len(w) = 8 /\ w[7] = x /\ w[8] = y /\ x % 64 = x
    BY <1>1 DEF Byte
  <2> HIDE DEF w
  <2> QED BY <2>1, OctetsAreWord
<1>4. /\ u = <<0, 0, 0, 0, 0, 0, x, y>>
      /\ x < 32 => v = <<0, 0, 0, 0, 0, 0, x, y>>
      /\ x >= 32 => v = <<255, 255, 255, 255, 255, 255, x + 192, y>>
  <2> HIDE DEF w
  <2> DEFINE X == w[7] % 64  Y == w[8]  f == <<128 + X, Y>>
  <2>1. /\ VarUintWord(f) = <<0, 0, 0, 0, 0, 0, X, Y>>
        /\ X < 32 => VarIntWord(f) = <<0, 0, 0, 0, 0, 0, X, Y>>
        /\ X >= 32 => VarIntWord(f) = <<255, 255, 255, 255, 255, 255, X + 192, Y>>
    BY <1>3, TwoOctets, Zenon
  <2>2. X = x /\ Y = y /\ f = t
    BY <1>1, <1>2, <1>3
  <2> HIDE DEF X, Y, f
  <2> QED BY <2>1, <2>2
<1> HIDE DEF u, v
<1>5. /\ u \in Word /\ u[1] = 0 /\ u[2] = 0 /\ u[3] = 0 /\ u[4] = 0
      /\ u[5] = 0 /\ u[6] = 0 /\ u[7] = x
  <2>1. u \in Seq(Byte) /\ Len(u) = 8
    BY <1>1, <1>4 DEF Byte
  <2> QED BY <1>4, <2>1, OctetsAreWord
<1>6. v \in Word /\ Extends(v, 6, 32)
  <2>1. CASE x < 32
    <3>1. v = u
      BY <1>4, <2>1
    <3> QED BY <1>1, <1>5, <2>1, <3>1, TupleExtends
  <2>2. CASE x >= 32
    <3>1. /\ v \in Word /\ v[1] = 255 /\ v[2] = 255 /\ v[3] = 255 /\ v[4] = 255
          /\ v[5] = 255 /\ v[6] = 255 /\ v[7] = x + 192
      <4> DEFINE top == x + 192
      <4>1. top \in Byte /\ 255 \in Byte /\ y \in Byte
        BY <1>1, <2>2 DEF Byte
      <4> HIDE DEF top
      <4>2. v = <<255, 255, 255, 255, 255, 255, top, y>>
        BY <1>4, <2>2 DEF top
      <4>3. v \in Seq(Byte) /\ Len(v) = 8
        BY <4>1, <4>2
      <4>4. v \in Word
        BY <4>3, OctetsAreWord
      <4> QED BY <4>2, <4>4 DEF top
    <3> QED BY <1>1, <2>2, <3>1, TupleExtends
  <2> QED BY <1>1, <2>1, <2>2
<1>7. Leads(u, 6, 0) /\ u[7] < 64
  BY <1>1, <1>5, TupleExtends
<1> QED BY <1>5, <1>6, <1>7 DEF u, v

LEMMA ThreeWord ==
    ASSUME NEW t \in Seq(Byte), Len(t) = 3,
           t[1] \in 192..223, t[2] \in 0..255, t[3] \in 0..255
    PROVE  LET u == VarUintWord(t)  v == VarIntWord(t)
           IN  u \in Word /\ v \in Word /\ Leads(u, 5, 0) /\ u[6] < 32 /\ Extends(v, 5, 16)
<1> DEFINE x == t[1] - 192  y == t[2]  z == t[3]
<1>1. x \in 0..31 /\ y \in 0..255 /\ z \in 0..255 /\ 192 + x = t[1]
  BY ShortRange
<1>2. t = <<192 + x, y, z>>
  <2>1. t = <<t[1], t[2], t[3]>>
    BY ListedOctets
  <2> HIDE DEF x
  <2> QED BY <1>1, <2>1
<1> HIDE DEF x, y, z
<1> DEFINE w == <<0, 0, 0, 0, 0, x, y, z>>  u == VarUintWord(t)  v == VarIntWord(t)
<1>3. w \in Word /\ w[6] = x /\ w[7] = y /\ w[8] = z /\ x % 32 = x
  <2>1. x % 32 = x
    <3> HIDE DEF w, u, v
    <3> QED BY <1>1
  <2>2. x \in Byte /\ y \in Byte /\ z \in Byte /\ 0 \in Byte
    <3> HIDE DEF w, u, v
    <3> QED BY <1>1 DEF Byte
  <2>3. w \in Seq(Byte) /\ Len(w) = 8 /\ w[6] = x /\ w[7] = y /\ w[8] = z
    BY <2>2
  <2> HIDE DEF w
  <2> QED BY <2>1, <2>3, OctetsAreWord
<1>4. /\ u = <<0, 0, 0, 0, 0, x, y, z>>
      /\ x < 16 => v = <<0, 0, 0, 0, 0, x, y, z>>
      /\ x >= 16 => v = <<255, 255, 255, 255, 255, x + 224, y, z>>
  <2> HIDE DEF w
  <2> DEFINE X == w[6] % 32  Y == w[7]  Z == w[8]  f == <<192 + X, Y, Z>>
  <2>1. /\ VarUintWord(f) = <<0, 0, 0, 0, 0, X, Y, Z>>
        /\ X < 16 => VarIntWord(f) = <<0, 0, 0, 0, 0, X, Y, Z>>
        /\ X >= 16 => VarIntWord(f) = <<255, 255, 255, 255, 255, X + 224, Y, Z>>
    BY <1>3, ThreeOctets, Zenon
  <2>2. X = x /\ Y = y /\ Z = z /\ f = t
    BY <1>1, <1>2, <1>3
  <2> HIDE DEF X, Y, Z, f
  <2> QED BY <2>1, <2>2
<1> HIDE DEF u, v
<1>5. /\ u \in Word /\ u[1] = 0 /\ u[2] = 0 /\ u[3] = 0 /\ u[4] = 0
      /\ u[5] = 0 /\ u[6] = x
  <2>1. u \in Seq(Byte) /\ Len(u) = 8
    BY <1>1, <1>4 DEF Byte
  <2> QED BY <1>4, <2>1, OctetsAreWord
<1>6. v \in Word /\ Extends(v, 5, 16)
  <2>1. CASE x < 16
    <3>1. v = u
      BY <1>4, <2>1
    <3> QED BY <1>1, <1>5, <2>1, <3>1, TupleExtends
  <2>2. CASE x >= 16
    <3>1. /\ v \in Word /\ v[1] = 255 /\ v[2] = 255 /\ v[3] = 255 /\ v[4] = 255
          /\ v[5] = 255 /\ v[6] = x + 224
      <4> DEFINE top == x + 224
      <4>1. top \in Byte /\ 255 \in Byte /\ y \in Byte /\ z \in Byte
        BY <1>1, <2>2 DEF Byte
      <4> HIDE DEF top
      <4>2. v = <<255, 255, 255, 255, 255, top, y, z>>
        BY <1>4, <2>2 DEF top
      <4>3. v \in Seq(Byte) /\ Len(v) = 8
        BY <4>1, <4>2
      <4>4. v \in Word
        BY <4>3, OctetsAreWord
      <4> QED BY <4>2, <4>4 DEF top
    <3> QED BY <1>1, <2>2, <3>1, TupleExtends
  <2> QED BY <1>1, <2>1, <2>2
<1>7. Leads(u, 5, 0) /\ u[6] < 32
  BY <1>1, <1>5, TupleExtends
<1> QED BY <1>5, <1>6, <1>7 DEF u, v

LEMMA FiveWord ==
    ASSUME NEW t \in Seq(Byte), Len(t) = 5, t[1] = 225,
           t[2] \in 0..255, t[3] \in 0..255, t[4] \in 0..255, t[5] \in 0..255
    PROVE  LET u == VarUintWord(t)  v == VarIntWord(t)
           IN  u \in Word /\ v \in Word /\ Leads(u, 4, 0) /\ Extends(v, 4, 128)
<1> DEFINE a == t[2]  b == t[3]  c == t[4]  d == t[5]
<1>1. t = <<225, a, b, c, d>>
  BY ListedOctets
<1>2. a \in 0..255 /\ b \in 0..255 /\ c \in 0..255 /\ d \in 0..255
  OBVIOUS
<1> HIDE DEF a, b, c, d
<1> DEFINE w == <<0, 0, 0, 0, a, b, c, d>>  u == VarUintWord(t)  v == VarIntWord(t)
<1>3. w \in Word /\ w[5] = a /\ w[6] = b /\ w[7] = c /\ w[8] = d
  <2>1. w \in Seq(Byte) /\ Len(w) = 8 /\ w[5] = a /\ w[6] = b /\ w[7] = c /\ w[8] = d
    BY <1>2 DEF Byte
  <2> HIDE DEF w
  <2> QED BY <2>1, OctetsAreWord
<1>4. /\ u = <<0, 0, 0, 0, a, b, c, d>>
      /\ a < 128 => v = <<0, 0, 0, 0, a, b, c, d>>
      /\ a >= 128 => v = <<255, 255, 255, 255, a, b, c, d>>
  <2> HIDE DEF w
  <2> DEFINE f == <<225, w[5], w[6], w[7], w[8]>>
  <2>1. /\ VarUintWord(f) = <<0, 0, 0, 0, w[5], w[6], w[7], w[8]>>
        /\ w[5] < 128 => VarIntWord(f) = <<0, 0, 0, 0, w[5], w[6], w[7], w[8]>>
        /\ w[5] >= 128 => VarIntWord(f) = <<255, 255, 255, 255, w[5], w[6], w[7], w[8]>>
    BY <1>3, FiveOctets, Zenon
  <2>2. f = t
    BY <1>3, <1>1
  <2> HIDE DEF f
  <2> QED BY <1>3, <2>1, <2>2
<1> HIDE DEF u, v
<1>5. u \in Word /\ u[1] = 0 /\ u[2] = 0 /\ u[3] = 0 /\ u[4] = 0 /\ u[5] = a
  <2>1. u \in Seq(Byte) /\ Len(u) = 8
    BY <1>2, <1>4 DEF Byte
  <2> QED BY <1>4, <2>1, OctetsAreWord
<1>6. v \in Word /\ Extends(v, 4, 128)
  <2>1. CASE a < 128
    <3>1. v = u
      BY <1>4, <2>1
    <3> QED BY <1>2, <1>5, <2>1, <3>1, TupleExtends
  <2>2. CASE a >= 128
    <3>1. /\ v \in Word /\ v[1] = 255 /\ v[2] = 255 /\ v[3] = 255 /\ v[4] = 255
          /\ v[5] = a
      <4>1. a \in Byte /\ b \in Byte /\ c \in Byte /\ d \in Byte /\ 255 \in Byte
        BY <1>2, <2>2 DEF Byte
      <4>2. v = <<255, 255, 255, 255, a, b, c, d>>
        BY <1>4, <2>2
      <4>3. v \in Seq(Byte) /\ Len(v) = 8
        BY <4>1, <4>2
      <4>4. v \in Word
        BY <4>3, OctetsAreWord
      <4> QED BY <4>2, <4>4
    <3> QED BY <1>2, <2>2, <3>1, TupleExtends
  <2> QED BY <1>2, <2>1, <2>2
<1>7. Leads(u, 4, 0)
  BY <1>2, <1>5, TupleExtends
<1> QED BY <1>5, <1>6, <1>7 DEF u, v

LEMMA NineWord ==
    ASSUME NEW t \in Seq(Byte), Len(t) = 9, t[1] = 226
    PROVE  VarUintWord(t) \in Word /\ VarIntWord(t) \in Word
<1> DEFINE w == Tail(t)
<1>1. t # <<>>
  BY EmptySeq
<1>2. w \in Seq(Byte) /\ Len(w) = 8 /\ \A i \in 1..8 : w[i] = t[i + 1]
  <2>1. w \in Seq(Byte) /\ Len(w) = Len(t) - 1 /\ \A i \in 1..Len(w) : w[i] = t[i + 1]
    BY <1>1, HeadTailProperties
  <2> HIDE DEF w
  <2> QED BY <2>1
<1> HIDE DEF w
<1>3. w \in Word
  BY <1>2, LenProperties DEF Word
<1>4. <<226>> \o w = t
  <2>1. w \in Seq(Int) /\ t \in Seq(Int)
    BY <1>2, BytesAreInts
  <2>2. \A i \in 1..Len(w) : t[1 + i] = w[i]
    BY <1>2
  <2>3. 226 \in Int /\ Len(t) = 1 + Len(w)
    BY <1>2
  <2> QED BY <2>1, <2>2, <2>3, Prepended
<1> QED BY <1>3, <1>4, NineOctets, Zenon

LEMMA FirstOctet ==
    ASSUME NEW y \in 0..255, NEW n \in {1, 2, 3, 5, 9},
           n = 1 <=> y < 128,
           n = 2 <=> y >= 128 /\ y < 192,
           n = 3 <=> y >= 192 /\ y < 224
    PROVE  /\ n = 1 => y \in 0..127
           /\ n = 2 => y \in 128..191
           /\ n = 3 => y \in 192..223
  OBVIOUS

\* The words that octets of each length are read as.
LEMMA WordsOfForms ==
    ASSUME NEW t \in Seq(Byte), Len(t) \in {1, 2, 3, 5, 9}, t[1] \in 0..255,
           Len(t) = 1 <=> t[1] < 128,
           Len(t) = 2 <=> t[1] >= 128 /\ t[1] < 192,
           Len(t) = 3 <=> t[1] >= 192 /\ t[1] < 224,
           Len(t) = 5 <=> t[1] = 225,
           Len(t) = 9 <=> t[1] = 226
    PROVE  LET u == VarUintWord(t)  v == VarIntWord(t)
           IN  /\ u \in Word /\ v \in Word
               /\ Len(t) = 1 => Leads(u, 7, 0) /\ u[8] < 128 /\ Extends(v, 7, 64)
               /\ Len(t) = 2 => Leads(u, 6, 0) /\ u[7] < 64 /\ Extends(v, 6, 32)
               /\ Len(t) = 3 => Leads(u, 5, 0) /\ u[6] < 32 /\ Extends(v, 5, 16)
               /\ Len(t) = 5 => Leads(u, 4, 0) /\ Extends(v, 4, 128)
<1> DEFINE u == VarUintWord(t)  v == VarIntWord(t)
<1>1. \A i \in 1..Len(t) : t[i] \in 0..255
  BY ElementOfSeq DEF Byte
<1>2. /\ Len(t) = 1 => t[1] \in 0..127
      /\ Len(t) = 2 => t[1] \in 128..191
      /\ Len(t) = 3 => t[1] \in 192..223
  <2> DEFINE y == t[1]  n == Len(t)
  <2>1. /\ y \in 0..255 /\ n \in {1, 2, 3, 5, 9}
        /\ n = 1 <=> y < 128
        /\ n = 2 <=> y >= 128 /\ y < 192
        /\ n = 3 <=> y >= 192 /\ y < 224
    OBVIOUS
  <2> HIDE DEF y, n
  <2>2. /\ n = 1 => y \in 0..127
        /\ n = 2 => y \in 128..191
        /\ n = 3 => y \in 192..223
    BY <2>1, FirstOctet
  <2> QED BY <2>2 DEF y, n
<1>3. CASE Len(t) = 1
  <2>1. t[1] \in 0..127
    BY <1>2, <1>3
  <2>2. u \in Word /\ v \in Word /\ Leads(u, 7, 0) /\ u[8] < 128 /\ Extends(v, 7, 64)
    BY <1>3, <2>1, OneWord, Zenon
  <2>3. Len(t) # 2 /\ Len(t) # 3 /\ Len(t) # 5
    BY <1>3
  <2> HIDE DEF u, v
  <2> QED BY <2>2, <2>3 DEF u, v
<1>4. CASE Len(t) = 2
  <2>1. t[1] \in 128..191 /\ t[2] \in 0..255
    BY <1>1, <1>2, <1>4
  <2>2. u \in Word /\ v \in Word /\ Leads(u, 6, 0) /\ u[7] < 64 /\ Extends(v, 6, 32)
    BY <1>4, <2>1, TwoWord, Zenon
  <2>3. Len(t) # 1 /\ Len(t) # 3 /\ Len(t) # 5
    BY <1>4
  <2> HIDE DEF u, v
  <2> QED BY <2>2, <2>3 DEF u, v
<1>5. CASE Len(t) = 3
  <2>1. t[1] \in 192..223 /\ t[2] \in 0..255 /\ t[3] \in 0..255
    BY <1>1, <1>2, <1>5
  <2>2. u \in Word /\ v \in Word /\ Leads(u, 5, 0) /\ u[6] < 32 /\ Extends(v, 5, 16)
    BY <1>5, <2>1, ThreeWord, Zenon
  <2>3. Len(t) # 1 /\ Len(t) # 2 /\ Len(t) # 5
    BY <1>5
  <2> HIDE DEF u, v
  <2> QED BY <2>2, <2>3 DEF u, v
<1>6. CASE Len(t) = 5
  <2>1. t[1] = 225 /\ t[2] \in 0..255 /\ t[3] \in 0..255 /\ t[4] \in 0..255 /\ t[5] \in 0..255
    BY <1>1, <1>6
  <2>2. u \in Word /\ v \in Word /\ Leads(u, 4, 0) /\ Extends(v, 4, 128)
    BY <1>6, <2>1, FiveWord, Zenon
  <2>3. Len(t) # 1 /\ Len(t) # 2 /\ Len(t) # 3
    BY <1>6
  <2> HIDE DEF u, v
  <2> QED BY <2>2, <2>3 DEF u, v
<1>7. CASE Len(t) = 9
  <2>1. u \in Word /\ v \in Word
    BY <1>7, NineWord
  <2>2. Len(t) # 1 /\ Len(t) # 2 /\ Len(t) # 3 /\ Len(t) # 5
    BY <1>7
  <2> HIDE DEF u, v
  <2> QED BY <2>1, <2>2 DEF u, v
<1> HIDE DEF u, v
<1>8. Len(t) = 1 \/ Len(t) = 2 \/ Len(t) = 3 \/ Len(t) = 5 \/ Len(t) = 9
  OBVIOUS
<1> QED BY <1>3, <1>4, <1>5, <1>6, <1>7, <1>8, Zenon DEF u, v

\* For all octets that can be read as a VarUint, or as a VarInt: what is read
\* is a word of 64 bits, and the Serializer writes it with no more octets.  The
\* order in which it tries the five forms takes the shortest that there is.
THEOREM ShortestFormIsWritten ==
    ASSUME NEW s \in Seq(Byte), NEW p \in Nat
    PROVE  /\ LET r == ReadVarUint(s, p)
              IN  ~r.threw => /\ r.value \in Word
                              /\ Len(Joined(VarUintPieces(r.value))) <= r.pos - p
           /\ LET r == ReadVarInt(s, p)
              IN  ~r.threw => /\ r.value \in Word
                              /\ Len(Joined(VarIntPieces(r.value))) <= r.pos - p
<1> SUFFICES ASSUME ~ReadVarUint(s, p).threw \/ ~ReadVarInt(s, p).threw
             PROVE  /\ ReadVarUint(s, p).value \in Word
                    /\ Len(Joined(VarUintPieces(ReadVarUint(s, p).value)))
                         <= ReadVarUint(s, p).pos - p
                    /\ ReadVarInt(s, p).value \in Word
                    /\ Len(Joined(VarIntPieces(ReadVarInt(s, p).value)))
                         <= ReadVarInt(s, p).pos - p
  BY Zenon
<1> DEFINE t == Take(s, p, Following(s[p + 1]) + 1)
           u == VarUintWord(t)
           v == VarIntWord(t)
<1>1. /\ t \in Seq(Byte) /\ Announced(t) /\ StandsAt(t, s, p)
      /\ Len(t) \in {1, 2, 3, 5, 9}
      /\ t[1] \in 0..255
      /\ Len(t) = 1 <=> t[1] < 128
      /\ Len(t) = 2 <=> t[1] >= 128 /\ t[1] < 192
      /\ Len(t) = 3 <=> t[1] >= 192 /\ t[1] < 224
      /\ Len(t) = 5 <=> t[1] = 225
      /\ Len(t) = 9 <=> t[1] = 226
  BY ReadTaken, Zenon
<1> HIDE DEF t
<1>2. /\ u \in Word /\ v \in Word
      /\ Len(t) = 1 => Leads(u, 7, 0) /\ u[8] < 128 /\ Extends(v, 7, 64)
      /\ Len(t) = 2 => Leads(u, 6, 0) /\ u[7] < 64 /\ Extends(v, 6, 32)
      /\ Len(t) = 3 => Leads(u, 5, 0) /\ u[6] < 32 /\ Extends(v, 5, 16)
      /\ Len(t) = 5 => Leads(u, 4, 0) /\ Extends(v, 4, 128)
  BY <1>1, WordsOfForms, Zenon
<1>3. s \in Seq(Int)
  BY BytesAreInts
<1>4. /\ ReadVarUint(s, p) = [threw |-> FALSE, pos |-> p + Len(t), value |-> u]
      /\ ReadVarInt(s, p) = [threw |-> FALSE, pos |-> p + Len(t), value |-> v]
  BY <1>1, <1>3, WholeIsRead DEF u, v
<1> HIDE DEF u, v
<1>5. Len(Joined(VarUintPieces(u))) <= Len(t) /\ Len(Joined(VarIntPieces(v))) <= Len(t)
  <2> DEFINE m == Len(Joined(VarUintPieces(u)))  n == Len(Joined(VarIntPieces(v)))
  <2>1. /\ m \in Nat /\ m <= 9
        /\ Leads(u, 4, 0) => m <= 5
        /\ Leads(u, 5, 0) /\ u[6] < 32 => m <= 3
        /\ Leads(u, 6, 0) /\ u[7] < 64 => m <= 2
        /\ Leads(u, 7, 0) /\ u[8] < 128 => m = 1
    BY <1>2, UintOctets, Zenon
  <2>2. /\ n \in Nat /\ n <= 9
        /\ Extends(v, 4, 128) => n <= 5
        /\ Extends(v, 5, 16) => n <= 3
        /\ Extends(v, 6, 32) => n <= 2
        /\ Extends(v, 7, 64) => n = 1
    BY <1>2, IntOctets, Zenon
  <2> HIDE DEF m, n
  <2>3. Len(t) = 1 => m <= Len(t) /\ n <= Len(t)
    BY <1>2, <2>1, <2>2
  <2>4. Len(t) = 2 => m <= Len(t) /\ n <= Len(t)
    BY <1>2, <2>1, <2>2
  <2>5. Len(t) = 3 => m <= Len(t) /\ n <= Len(t)
    BY <1>2, <2>1, <2>2
  <2>6. Len(t) = 5 => m <= Len(t) /\ n <= Len(t)
    BY <1>2, <2>1, <2>2
  <2>7. Len(t) = 9 => m <= Len(t) /\ n <= Len(t)
    BY <2>1, <2>2
  <2>8. Len(t) \in {1, 2, 3, 5, 9}
    BY <1>1
  <2> QED BY <2>3, <2>4, <2>5, <2>6, <2>7, <2>8 DEF m, n
<1>6. Len(t) \in Nat /\ (p + Len(t)) - p = Len(t)
  BY <1>1
<1>7. /\ ReadVarUint(s, p).value = u /\ ReadVarUint(s, p).pos - p = Len(t)
      /\ ReadVarInt(s, p).value = v /\ ReadVarInt(s, p).pos - p = Len(t)
  BY <1>4, <1>6
<1> QED BY <1>2, <1>5, <1>7
=============================================================================
