------------------------ MODULE SerializationProofs ------------------------
(***************************************************************************)
(* Whatever a client writes into buffers of whatever size, and however     *)
(* many octets are lost, the reader gets back what was written, in order,  *)
(* and nothing else.                                                       *)
(***************************************************************************)
EXTENDS Serialization, VarCodecProofs

-----------------------------------------------------------------------------
(* The pieces of a value.                                                  *)

\* The octets of a value on the wire.
Encoding(v) == FlattenSeq(Pieces(v))

\* A client's inputs, by type.
LEMMA InputTypes ==
    ASSUME NEW v \in Inputs
    PROVE  \/ v.type \in {"VarUint", "VarInt"} /\ v.value \in Word
           \/ v.type = "Plain" /\ v.value \in Strings
           \/ v.type = "String" /\ v.value \in Seq(Byte) /\ Len(v.value) < Huge
  BY InputAssumption DEF Strings

LEMMA StringField ==
    ASSUME NEW x \in Seq(Byte), Len(x) < Huge
    PROVE  /\ WordOf(Len(x)) \in Word /\ NumberOf(WordOf(Len(x))) = Len(x)
           /\ IsInteger(VarUintPieces(WordOf(Len(x))))
           /\ FlattenSeq(StringPieces(x)) = Joined(VarUintPieces(WordOf(Len(x)))) \o x
           /\ StringPieces(x) \in Seq(Strings)
           /\ Len(StringPieces(x)) # 0 /\ Len(StringPieces(x)) <= 3
<1>1. Len(x) \in Nat
  BY LenProperties
<1>2. WordOf(Len(x)) \in Word /\ NumberOf(WordOf(Len(x))) = Len(x)
  BY <1>1, SmallNumbers
<1> DEFINE field == VarUintPieces(WordOf(Len(x)))
           rest == IF x = <<>> THEN <<>> ELSE <<x>>
<1>3. IsInteger(field)
  BY <1>2, IntegerPieces
<1>4. StringPieces(x) = field \o rest
  BY Zenon DEF StringPieces
<1> HIDE DEF field
<1>5. LET pieces == field \o rest
      IN  /\ pieces \in Seq(Strings) /\ Len(pieces) # 0 /\ Len(pieces) <= 3
          /\ FlattenSeq(pieces) = Joined(field) \o x
  BY <1>3, StringShape, Zenon
<1> QED BY <1>2, <1>3, <1>4, <1>5, Zenon DEF field

\* Every value is one to three octet strings, none of them empty.
LEMMA PiecesShape ==
    ASSUME NEW v \in Inputs
    PROVE  Pieces(v) \in Seq(Strings) /\ Len(Pieces(v)) # 0 /\ Len(Pieces(v)) <= 3
<1>1. CASE v.type \in {"VarUint", "VarInt"} /\ v.value \in Word
  <2>1. \/ v.type = "VarUint" /\ Pieces(v) = VarUintPieces(v.value)
        \/ v.type = "VarInt" /\ Pieces(v) = VarIntPieces(v.value)
    BY <1>1 DEF Pieces
  <2>2. IsInteger(Pieces(v))
    BY <1>1, <2>1, IntegerPieces, Zenon
  <2>3. Pieces(v) \in Seq(Strings) /\ Len(Pieces(v)) # 0 /\ Len(Pieces(v)) <= 2
    BY <2>2, IntegerShape
  <2> QED BY <2>3, LenProperties
<1>2. CASE v.type = "Plain" /\ v.value \in Strings
  <2>1. Pieces(v) = <<v.value>>
    BY <1>2 DEF Pieces, PlainPieces
  <2> QED BY <1>2, <2>1
<1>3. CASE v.type = "String" /\ v.value \in Seq(Byte) /\ Len(v.value) < Huge
  <2>1. Pieces(v) = StringPieces(v.value)
    BY <1>3 DEF Pieces
  <2> QED BY <1>3, <2>1, StringField, Zenon
<1> QED BY <1>1, <1>2, <1>3, InputTypes

LEMMA EncodingType ==
    ASSUME NEW v \in Inputs
    PROVE  Encoding(v) \in Seq(Byte) /\ Len(Encoding(v)) \in Nat /\ Len(Encoding(v)) # 0
<1> DEFINE s == Pieces(v)  n == Len(s)
<1>1. s \in Seq(Strings) /\ n # 0 /\ n <= 3
  BY PiecesShape
<1>2. n \in Nat /\ n \in 0..n
  BY <1>1, LenProperties
<1>3. /\ FlattenSeq(s) \in Seq(Byte)
      /\ n > 0 => Len(FlattenSeq(SubSeq(s, 1, n))) > 0
  BY <1>1, <1>2, FlattenPrefix, Zenon
<1>4. SubSeq(s, 1, n) = s
  BY <1>1, SubSeqFull
<1>5. Len(FlattenSeq(s)) > 0
  <2>1. n > 0
    BY <1>1, <1>2
  <2> QED BY <1>3, <1>4, <2>1, Zenon
<1>6. Len(FlattenSeq(s)) \in Nat
  BY <1>3, LenProperties
<1>7. Len(FlattenSeq(s)) # 0
  BY <1>5, <1>6
<1> QED BY <1>3, <1>6, <1>7, Zenon DEF Encoding

-----------------------------------------------------------------------------
(* Reading one value.                                                      *)

\* What a read of the value v at the position returns.
ReadOf(v, held) == ReadAs(v.type, Len(v.value), held)

\* A read of the type of v into held gives v back and moves beyond its octets.
GivesBack(v, held) ==
    /\ ~ReadOf(v, held).threw
    /\ ReadOf(v, held).pos = buffer.read + Len(Encoding(v))
    /\ ReadOf(v, held).value = IF v.type = "String" THEN held \o v.value ELSE v.value

\* What is on the wire for each type.
LEMMA EncodingForms ==
    ASSUME NEW v \in Inputs
    PROVE  \/ /\ v.type = "VarUint" /\ v.value \in Word
              /\ Encoding(v) = Joined(VarUintPieces(v.value))
           \/ /\ v.type = "VarInt" /\ v.value \in Word
              /\ Encoding(v) = Joined(VarIntPieces(v.value))
           \/ /\ v.type = "Plain" /\ v.value \in Strings
              /\ Encoding(v) = v.value
           \/ /\ v.type = "String" /\ v.value \in Seq(Byte) /\ Len(v.value) < Huge
              /\ Encoding(v) = Joined(VarUintPieces(WordOf(Len(v.value)))) \o v.value
<1>1. CASE v.type = "VarUint" /\ v.value \in Word
  <2>1. Pieces(v) = VarUintPieces(v.value)
    BY <1>1 DEF Pieces
  <2>2. FlattenSeq(VarUintPieces(v.value)) = Joined(VarUintPieces(v.value))
    BY <1>1, IntegerPieces, IntegerShape
  <2> QED BY <1>1, <2>1, <2>2, Zenon DEF Encoding
<1>2. CASE v.type = "VarInt" /\ v.value \in Word
  <2>1. Pieces(v) = VarIntPieces(v.value)
    BY <1>2 DEF Pieces
  <2>2. FlattenSeq(VarIntPieces(v.value)) = Joined(VarIntPieces(v.value))
    BY <1>2, IntegerPieces, IntegerShape
  <2> QED BY <1>2, <2>1, <2>2, Zenon DEF Encoding
<1>3. CASE v.type = "Plain" /\ v.value \in Strings
  <2>1. Pieces(v) = <<v.value>>
    BY <1>3 DEF Pieces, PlainPieces
  <2>2. IsInteger(Pieces(v))
    BY <1>3, <2>1, Zenon DEF IsInteger
  <2>3. FlattenSeq(Pieces(v)) = Joined(Pieces(v))
    BY <2>2, IntegerShape
  <2>4. Joined(<<v.value>>) = v.value
    BY DEF Joined
  <2> QED BY <1>3, <2>1, <2>3, <2>4, Zenon DEF Encoding
<1>4. CASE v.type = "String" /\ v.value \in Seq(Byte) /\ Len(v.value) < Huge
  <2>1. Pieces(v) = StringPieces(v.value)
    BY <1>4 DEF Pieces
  <2> QED BY <1>4, <2>1, StringField, Zenon DEF Encoding
<1>5. \/ v.type = "VarUint" /\ v.value \in Word
      \/ v.type = "VarInt" /\ v.value \in Word
      \/ v.type = "Plain" /\ v.value \in Strings
      \/ v.type = "String" /\ v.value \in Seq(Byte) /\ Len(v.value) < Huge
  BY InputTypes
<1> QED BY <1>1, <1>2, <1>3, <1>4, <1>5, Zenon

\* What a reader of v does, by type.
LEMMA ReadForms ==
    ASSUME NEW v, NEW held
    PROVE  /\ v.type = "VarUint" =>
                ReadOf(v, held) = Variable(ReadVarUint(buffer.data, buffer.read), buffer.read)
           /\ v.type = "VarInt" =>
                ReadOf(v, held) = Variable(ReadVarInt(buffer.data, buffer.read), buffer.read)
           /\ v.type = "Plain" =>
                ReadOf(v, held) = ReadPlain(buffer.data, buffer.read, Len(v.value))
           /\ v.type = "String" =>
                ReadOf(v, held) = ReadString(buffer.data, buffer.read, held)
  BY DEF ReadOf, ReadAs

\* A whole string is read: its length, then its octets.
LEMMA StringIsRead ==
    ASSUME NEW x \in Seq(Byte), Len(x) < Huge, NEW held, NEW s \in Seq(Byte), NEW p \in Nat,
           NEW t, t = Joined(VarUintPieces(WordOf(Len(x)))) \o x, StandsAt(t, s, p)
    PROVE  /\ ~ReadString(s, p, held).threw
           /\ ReadString(s, p, held).pos = p + Len(t)
           /\ ReadString(s, p, held).value = held \o x
<1> DEFINE w == WordOf(Len(x))  a == Joined(VarUintPieces(w))  n == Len(x)  k == Len(a)
           field == ReadVarUint(s, p)
<1>1. /\ w \in Word /\ NumberOf(w) = n /\ IsInteger(VarUintPieces(w))
      /\ n \in Nat /\ Len(s) \in Nat
  BY StringField, LenProperties
<1>2. a \in Seq(Byte) /\ k \in Nat
  <2>1. a \in Seq(Byte)
    BY <1>1, IntegerShape
  <2> QED BY <2>1, LenProperties
<1>3. StandsAt(a, s, p) /\ StandsAt(x, s, p + k) /\ Len(t) = k + n
  BY <1>2, StandsInParts, ConcatProperties, Zenon
<1>4. field = [threw |-> FALSE, pos |-> p + k, value |-> w]
  BY <1>1, <1>3, BytesAreInts, VarUintRoundTrip, Zenon
<1> HIDE DEF w, a, n, k, field
<1>5. ~field.threw /\ field.pos = p + k /\ field.value = w
  BY <1>4
<1>6. ~(p + k + n > Len(s))
  BY <1>1, <1>2, <1>3 DEF StandsAt, n
<1>7. Take(s, p + k, n) = x
  BY <1>3, TakeStanding DEF n
<1> DEFINE Cat(b, c) == b \o c
           q == field.pos  m == NumberOf(field.value)
<1>8. ReadString(s, p, held) =
        IF field.threw THEN Outcome(TRUE, q, 0, <<>>)
        ELSE IF q + m > Len(s) THEN Outcome(TRUE, q, 0, <<>>)
        ELSE Outcome(FALSE, q + m, q - p + Len(held) + m, Cat(held, Take(s, q, m)))
  BY Zenon DEF ReadString, field
<1>11. q = p + k /\ m = n
  BY <1>1, <1>5, Zenon
<1> HIDE DEF Cat, q, m
<1>12. ~(q + m > Len(s)) /\ Take(s, q, m) = x
  BY <1>6, <1>7, <1>11
<1>13. ReadString(s, p, held) = Outcome(FALSE, q + m, q - p + Len(held) + m, Cat(held, x))
  BY <1>5, <1>8, <1>12, Zenon
<1>9. /\ ReadString(s, p, held).threw = FALSE
      /\ ReadString(s, p, held).pos = p + k + n
      /\ ReadString(s, p, held).value = held \o x
  BY <1>11, <1>13 DEF Outcome, Cat
<1>10. p + k + n = p + Len(t)
  BY <1>1, <1>2, <1>3
<1> QED BY <1>9, <1>10

\* A read that finds no place for a string is refused.
LEMMA StringRefused ==
    ASSUME NEW s, NEW p, NEW held,
           LET field == ReadVarUint(s, p)
           IN  field.threw \/ field.pos + NumberOf(field.value) > Len(s)
    PROVE  ReadString(s, p, held) = Outcome(TRUE, ReadVarUint(s, p).pos, 0, <<>>)
  BY Zenon DEF ReadString

LEMMA CutStringIsRefused ==
    ASSUME NEW x \in Seq(Byte), Len(x) < Huge, NEW held, NEW s \in Seq(Byte), NEW p \in Nat,
           NEW t, t = Joined(VarUintPieces(WordOf(Len(x)))) \o x, StandsCut(t, s, p)
    PROVE  ReadString(s, p, held).threw
<1> DEFINE w == WordOf(Len(x))  a == Joined(VarUintPieces(w))  n == Len(x)  k == Len(a)
           field == ReadVarUint(s, p)
<1>1. /\ w \in Word /\ NumberOf(w) = n /\ IsInteger(VarUintPieces(w))
      /\ n \in Nat /\ Len(s) \in Nat
  BY StringField, LenProperties
<1>2. a \in Seq(Byte) /\ k \in Nat
  <2>1. a \in Seq(Byte)
    BY <1>1, IntegerShape
  <2> QED BY <2>1, LenProperties
<1>3. StandsCut(a, s, p) \/ (StandsAt(a, s, p) /\ Len(s) < p + k + n)
  BY <1>2, StandsInParts, Zenon
<1>4. CASE StandsCut(a, s, p)
  <2>1. field.threw
    BY <1>1, <1>4, BytesAreInts, CutVarIsRefused, Zenon
  <2>2. ReadString(s, p, held) = Outcome(TRUE, field.pos, 0, <<>>)
    BY <2>1, StringRefused, Zenon
  <2> QED BY <2>2 DEF Outcome
<1>5. CASE StandsAt(a, s, p) /\ Len(s) < p + k + n
  <2>1. field = [threw |-> FALSE, pos |-> p + k, value |-> w]
    BY <1>1, <1>5, BytesAreInts, VarUintRoundTrip, Zenon
  <2>2. field.pos = p + k /\ NumberOf(field.value) = n
    <3> HIDE DEF field, w
    <3> QED BY <1>1, <2>1
  <2>3. p + k + n > Len(s)
    BY <1>1, <1>2, <1>5
  <2>4. field.pos + NumberOf(field.value) > Len(s)
    BY <2>2, <2>3, Zenon
  <2>5. ReadString(s, p, held) = Outcome(TRUE, field.pos, 0, <<>>)
    BY <2>4, StringRefused, Zenon
  <2> QED BY <2>5 DEF Outcome
<1> QED BY <1>3, <1>4, <1>5

\* A value of which all octets are there is given back.
LEMMA WholeIsGivenBack ==
    ASSUME NEW v \in Inputs, NEW held, buffer.data \in Seq(Byte), buffer.read \in Nat,
           StandsAt(Encoding(v), buffer.data, buffer.read)
    PROVE  GivesBack(v, held)
<1> DEFINE s == buffer.data  p == buffer.read  t == Encoding(v)
<1>1. s \in Seq(Int) /\ Len(s) \in Nat
  BY BytesAreInts, LenProperties
<1>2. CASE v.type = "VarUint" /\ v.value \in Word /\ t = Joined(VarUintPieces(v.value))
  <2>1. ReadVarUint(s, p) = [threw |-> FALSE, pos |-> p + Len(t), value |-> v.value]
    BY <1>1, <1>2, VarUintRoundTrip, Zenon
  <2>2. ReadOf(v, held) = Variable(ReadVarUint(s, p), p)
    BY <1>2, ReadForms, Zenon
  <2> HIDE DEF t, s, p
  <2>3. v.type # "String"
    BY <1>2
  <2> QED BY <2>1, <2>2, <2>3 DEF Variable, Outcome, GivesBack, t, p
<1>3. CASE v.type = "VarInt" /\ v.value \in Word /\ t = Joined(VarIntPieces(v.value))
  <2>1. ReadVarInt(s, p) = [threw |-> FALSE, pos |-> p + Len(t), value |-> v.value]
    BY <1>1, <1>3, VarIntRoundTrip, Zenon
  <2>2. ReadOf(v, held) = Variable(ReadVarInt(s, p), p)
    BY <1>3, ReadForms, Zenon
  <2> HIDE DEF t, s, p
  <2>3. v.type # "String"
    BY <1>3
  <2> QED BY <2>1, <2>2, <2>3 DEF Variable, Outcome, GivesBack, t, p
<1>4. CASE v.type = "Plain" /\ v.value \in Strings /\ t = v.value
  <2>1. ReadOf(v, held) = ReadPlain(s, p, Len(t))
    BY <1>4, ReadForms, Zenon
  <2>2. t \in Seq(Byte)
    BY <1>4 DEF Strings
  <2>3. Take(s, p, Len(t)) = t /\ p + Len(t) <= Len(s) /\ Len(t) \in Nat
    BY <2>2, TakeStanding, LenProperties DEF StandsAt
  <2> HIDE DEF t, s, p
  <2>4. v.type # "String" /\ ~(p + Len(t) > Len(s))
    BY <1>1, <1>4, <2>3 DEF p
  <2>5. ReadOf(v, held) = Outcome(FALSE, p + Len(t), Len(t), t)
    BY <2>1, <2>3, <2>4, Zenon DEF ReadPlain
  <2> QED BY <1>4, <2>4, <2>5 DEF Outcome, GivesBack, t, p
<1>5. CASE /\ v.type = "String" /\ v.value \in Seq(Byte) /\ Len(v.value) < Huge
           /\ t = Joined(VarUintPieces(WordOf(Len(v.value)))) \o v.value
  <2>1. ReadOf(v, held) = ReadString(s, p, held)
    BY <1>5, ReadForms, Zenon
  <2>2. /\ ~ReadString(s, p, held).threw
        /\ ReadString(s, p, held).pos = p + Len(t)
        /\ ReadString(s, p, held).value = held \o v.value
    BY <1>5, StringIsRead, Zenon
  <2> QED BY <1>5, <2>1, <2>2, Zenon DEF GivesBack
<1> QED BY <1>2, <1>3, <1>4, <1>5, EncodingForms, Zenon

\* What is left of one is refused.
LEMMA CutIsNotGiven ==
    ASSUME NEW v \in Inputs, NEW held, buffer.data \in Seq(Byte), buffer.read \in Nat,
           StandsCut(Encoding(v), buffer.data, buffer.read)
    PROVE  ReadOf(v, held).threw
<1> DEFINE s == buffer.data  p == buffer.read  t == Encoding(v)
<1>1. s \in Seq(Int) /\ Len(s) \in Nat
  BY BytesAreInts, LenProperties
<1>2. CASE v.type = "VarUint" /\ v.value \in Word /\ t = Joined(VarUintPieces(v.value))
  <2>1. ReadVarUint(s, p).threw
    BY <1>1, <1>2, CutVarIsRefused, Zenon
  <2>2. ReadOf(v, held) = Variable(ReadVarUint(s, p), p)
    BY <1>2, ReadForms, Zenon
  <2> HIDE DEF s, p
  <2> QED BY <2>1, <2>2 DEF Variable, Outcome
<1>3. CASE v.type = "VarInt" /\ v.value \in Word /\ t = Joined(VarIntPieces(v.value))
  <2>1. ReadVarInt(s, p).threw
    BY <1>1, <1>3, CutVarIsRefused, Zenon
  <2>2. ReadOf(v, held) = Variable(ReadVarInt(s, p), p)
    BY <1>3, ReadForms, Zenon
  <2> HIDE DEF s, p
  <2> QED BY <2>1, <2>2 DEF Variable, Outcome
<1>4. CASE v.type = "Plain" /\ v.value \in Strings /\ t = v.value
  <2>1. ReadOf(v, held) = ReadPlain(s, p, Len(t))
    BY <1>4, ReadForms, Zenon
  <2>2. Len(t) \in Nat /\ Len(s) < p + Len(t)
    BY <1>4, LenProperties DEF Strings, StandsCut
  <2> HIDE DEF t, s, p
  <2>3. p + Len(t) > Len(s)
    BY <1>1, <2>2 DEF p
  <2>4. ReadOf(v, held) = Outcome(TRUE, p, 0, <<>>)
    BY <2>1, <2>3, Zenon DEF ReadPlain
  <2> QED BY <2>4 DEF Outcome
<1>5. CASE /\ v.type = "String" /\ v.value \in Seq(Byte) /\ Len(v.value) < Huge
           /\ t = Joined(VarUintPieces(WordOf(Len(v.value)))) \o v.value
  <2>1. ReadOf(v, held) = ReadString(s, p, held)
    BY <1>5, ReadForms, Zenon
  <2>2. ReadString(s, p, held).threw
    BY <1>5, CutStringIsRefused, Zenon
  <2> QED BY <2>1, <2>2, Zenon
<1> QED BY <1>2, <1>3, <1>4, <1>5, EncodingForms, Zenon

\* How a read of any type leaves the position, and what it counts.
Bounded(r, held, string) ==
    /\ r.threw \in BOOLEAN
    /\ r.pos \in Nat /\ buffer.read <= r.pos /\ r.pos <= Len(buffer.data)
    /\ buffer.read = Len(buffer.data) => r.threw /\ r.pos = buffer.read
    /\ ~r.threw => r.count = r.pos - buffer.read + (IF string THEN Len(held) ELSE 0)

LEMMA ReadBounds ==
    ASSUME NEW v \in Inputs, NEW held \in Held(v), buffer.data \in Seq(Byte),
           buffer.read \in Nat, buffer.read <= Len(buffer.data)
    PROVE  Bounded(ReadOf(v, held), held, v.type = "String")
<1> DEFINE s == buffer.data  p == buffer.read  l == Len(s)
<1>1. l \in Nat /\ p \in Nat /\ p <= l
  BY LenProperties
<1>2. ASSUME NEW f, f = ReadVarUint(s, p) \/ f = ReadVarInt(s, p)
      PROVE  Bounded(Variable(f, p), held, FALSE)
  <2>1. /\ f.threw \in BOOLEAN /\ f.pos \in Nat /\ p <= f.pos /\ f.pos <= l
        /\ p = l => f.threw /\ f.pos = p
    BY <1>2, VarBounds
  <2>2. /\ Variable(f, p).threw = f.threw /\ Variable(f, p).pos = f.pos
        /\ Variable(f, p).count = f.pos - p
    BY DEF Variable, Outcome
  <2>3. f.pos - p = f.pos - p + 0
    BY <1>1, <2>1
  <2> HIDE DEF s, p, l
  <2> QED BY <2>1, <2>2, <2>3 DEF Bounded, s, p, l
<1>3. CASE v.type \in {"VarUint", "VarInt"}
  <2>1. v.type # "String"
    BY <1>3
  <2>2. \/ ReadOf(v, held) = Variable(ReadVarUint(s, p), p)
        \/ ReadOf(v, held) = Variable(ReadVarInt(s, p), p)
    BY <1>3, ReadForms
  <2>3. Bounded(ReadOf(v, held), held, FALSE)
    BY <1>2, <2>2, Zenon
  <2>4. (v.type = "String") = FALSE
    BY <2>1
  <2> QED BY <2>3, <2>4
<1>4. CASE v.type = "Plain" /\ v.value \in Strings
  <2> DEFINE n == Len(v.value)
  <2>1. n \in Nat /\ n # 0
    BY <1>4, EmptySeq, LenProperties DEF Strings
  <2>2. ReadOf(v, held) = IF p + n > l THEN Outcome(TRUE, p, 0, <<>>)
                          ELSE Outcome(FALSE, p + n, n, Take(s, p, n))
    BY <1>4, ReadForms, Zenon DEF ReadPlain
  <2>3. v.type # "String"
    BY <1>4
  <2> HIDE DEF n, s, p, l
  <2>4. CASE p + n > l
    <3>1. ReadOf(v, held).threw = TRUE /\ ReadOf(v, held).pos = p
      BY <2>2, <2>4 DEF Outcome
    <3>2. p <= p /\ p <= l /\ p \in Nat
      BY <1>1
    <3> QED BY <2>3, <3>1, <3>2 DEF Bounded, s, p, l
  <2>5. CASE ~(p + n > l)
    <3>1. /\ ReadOf(v, held).threw = FALSE /\ ReadOf(v, held).pos = p + n
          /\ ReadOf(v, held).count = n
      BY <2>2, <2>5 DEF Outcome
    <3>2. p + n \in Nat /\ p <= p + n /\ p + n <= l /\ p # l /\ n = (p + n) - p + 0
      BY <1>1, <2>1, <2>5
    <3> QED BY <2>3, <3>1, <3>2 DEF Bounded, s, p, l
  <2> QED BY <2>4, <2>5
<1>5. CASE v.type = "String"
  <2> DEFINE f == ReadVarUint(s, p)  q == f.pos  n == NumberOf(f.value)
             r == ReadString(s, p, held)
  <2>1. ReadOf(v, held) = r
    BY <1>5, ReadForms, Zenon
  <2>2. Len(held) \in Nat
    <3>1. held \in Seq(Byte)
      BY <1>5, InputAssumption DEF Held
    <3> QED BY <3>1, LenProperties
  <2>3. /\ q \in Nat /\ p <= q /\ q <= l
        /\ p = l => f.threw /\ q = p
        /\ ~f.threw => n \in Nat
    BY VarBounds
  <2>4. CASE f.threw \/ q + n > l
    <3>1. r = Outcome(TRUE, q, 0, <<>>)
      BY <2>4, StringRefused, Zenon
    <3> HIDE DEF f, q, n, r, s, p, l
    <3>2. r.threw = TRUE /\ r.pos = q
      BY <3>1 DEF Outcome
    <3> QED BY <1>1, <2>1, <2>3, <3>2 DEF Bounded, s, p, l
  <2>5. CASE ~f.threw /\ ~(q + n > l)
    <3> DEFINE x == held \o Take(s, q, n)
    <3>1. r = Outcome(FALSE, q + n, q - p + Len(held) + n, x)
      BY <2>5, Zenon DEF ReadString
    <3> HIDE DEF f, q, n, r, s, p, l, x
    <3>2. r.threw = FALSE /\ r.pos = q + n /\ r.count = q - p + Len(held) + n
      BY <3>1 DEF Outcome
    <3> DEFINE h == Len(held)
    <3>4. h \in Nat /\ q \in Nat /\ n \in Nat /\ p <= q /\ ~(q + n > l) /\ p # l
      BY <2>2, <2>3, <2>5, Zenon
    <3> HIDE DEF h
    <3>5. /\ q + n \in Nat /\ p <= q + n /\ q + n <= l
          /\ q - p + h + n = (q + n) - p + h
      BY <1>1, <3>4
    <3>3. /\ q + n \in Nat /\ p <= q + n /\ q + n <= l /\ p # l
          /\ q - p + Len(held) + n = (q + n) - p + Len(held)
      BY <3>4, <3>5 DEF h
    <3> QED BY <1>5, <2>1, <3>2, <3>3 DEF Bounded, s, p, l
  <2> QED BY <2>4, <2>5
<1>6. \/ v.type \in {"VarUint", "VarInt"}
      \/ v.type = "Plain" /\ v.value \in Strings
      \/ v.type = "String"
  BY InputTypes
<1> QED BY <1>3, <1>4, <1>5, <1>6

-----------------------------------------------------------------------------
(* Writing one value.                                                      *)

\* AppendValue accepts as many pieces as there is room for: a beginning of the
\* encoding, and all of it only if every piece was accepted.
LEMMA AcceptedOctets ==
    ASSUME NEW v \in Inputs, NEW room \in Nat
    PROVE  LET done == Accepted(Pieces(v), room)
               t == FlattenSeq(done)
           IN  /\ t \in Seq(Byte) /\ Len(t) <= room
               /\ Len(t) <= Len(Encoding(v)) /\ \A i \in 1..Len(t) : t[i] = Encoding(v)[i]
               /\ done = Pieces(v) => t = Encoding(v)
               /\ done # Pieces(v) => Len(t) < Len(Encoding(v))
               /\ done = <<>> => t = <<>>
<1> DEFINE s == Pieces(v)  l == Len(s)
           fits == {n \in 0..l : Count(SubSeq(s, 1, n)) <= room}
           best == CHOOSE n \in fits : \A m \in fits : m <= n
           done == SubSeq(s, 1, best)
           t == FlattenSeq(done)
<1>1. s \in Seq(Strings) /\ l \in Nat /\ l # 0 /\ l <= 3
  BY PiecesShape, LenProperties
<1>2. Accepted(s, room) = done
  BY Zenon DEF Accepted
<1>3. 0 \in fits
  <2>1. SubSeq(s, 1, 0) = <<>>
    BY SubSeqEmpty
  <2>2. Count(SubSeq(s, 1, 0)) = Len(<<>>)
    BY <2>1, FlattenNone, Zenon DEF Count
  <2>3. Len(<<>>) = 0
    OBVIOUS
  <2>4. Count(SubSeq(s, 1, 0)) <= room
    BY <2>2, <2>3
  <2> QED BY <1>1, <2>4
<1>4. fits \subseteq 0..3
  BY <1>1
<1>5. best \in 0..l /\ Count(done) <= room
  <2>1. \E n \in fits : \A m \in fits : m <= n
    <3> HIDE DEF fits
    <3>1. CASE 3 \in fits
      BY <1>4, <3>1
    <3>2. CASE 3 \notin fits /\ 2 \in fits
      <4>1. \A m \in fits : m <= 2
        BY <1>4, <3>2
      <4> QED BY <3>2, <4>1
    <3>3. CASE 3 \notin fits /\ 2 \notin fits /\ 1 \in fits
      <4>1. \A m \in fits : m <= 1
        BY <1>4, <3>3
      <4> QED BY <3>3, <4>1
    <3>4. CASE 3 \notin fits /\ 2 \notin fits /\ 1 \notin fits
      <4>1. \A m \in fits : m <= 0
        BY <1>4, <3>4
      <4> QED BY <1>3, <4>1
    <3> QED BY <3>1, <3>2, <3>3, <3>4
  <2>2. best \in fits
    <3> HIDE DEF fits
    <3> QED BY <2>1, Zenon
  <2> QED BY <2>2, Zenon
<1>6. Len(t) <= room
  BY <1>5, Zenon DEF Count
<1> HIDE DEF best
<1>7. /\ Encoding(v) \in Seq(Byte) /\ t \in Seq(Byte)
      /\ Len(t) <= Len(Encoding(v))
      /\ \A i \in 1..Len(t) : t[i] = Encoding(v)[i]
      /\ best < l => Len(t) < Len(Encoding(v))
  BY <1>1, <1>5, FlattenPrefix, Zenon DEF Encoding
<1>8. done = s => t = Encoding(v)
  BY Zenon DEF Encoding
<1>9. done # s => best < l
  <2> SUFFICES ASSUME ~(best < l) PROVE done = s
    OBVIOUS
  <2>1. best = l
    BY <1>1, <1>5
  <2>2. SubSeq(s, 1, l) = s
    BY <1>1, SubSeqFull
  <2> QED BY <2>1, <2>2, Zenon
<1>10. done = <<>> => t = <<>>
  BY FlattenNone, Zenon
<1> QED BY <1>2, <1>6, <1>7, <1>8, <1>9, <1>10, Zenon

-----------------------------------------------------------------------------
(* The inductive invariant: the data is the encodings of the values        *)
(* written, one after the other, then a part of the torn one, if any; and  *)
(* the reader is where the values it has taken end.                        *)

\* The buffer is a record of its fields, and a reader that has stopped is
\* inside a value of which only a part is there.
Shape ==
    /\ buffer = [size |-> buffer.size, data |-> buffer.data, read |-> buffer.read]
    /\ taken <= Len(written)
    /\ Len(torn) <= 1
    /\ stopped => torn # <<>>

\* The i-th of the values in the data ends at ends[i].
Parses(ends) ==
    /\ ends[0] = 0
    /\ \A i \in 1..Len(written) :
         /\ ends[i] = ends[i - 1] + Len(Encoding(written[i]))
         /\ StandsAt(Encoding(written[i]), buffer.data, ends[i - 1])
    /\ \A i, j \in 0..Len(written) : i <= j => ends[i] <= ends[j]
    /\ torn = <<>> => Len(buffer.data) = ends[Len(written)]
    /\ torn # <<>> => StandsCut(Encoding(torn[1]), buffer.data, ends[Len(written)])
    /\ ~stopped => buffer.read = ends[taken]

Parsed == \E ends \in [0..Len(written) -> Nat] : Parses(ends)

IInv == TypeOK /\ Shape /\ Parsed

\* An empty buffer.
LEMMA EmptyParsed ==
    ASSUME NEW n \in Nat, buffer' = [size |-> n, data |-> <<>>, read |-> 0],
           written' = <<>>, taken' = 0, torn' = <<>>, stopped' = FALSE
    PROVE  IInv'
<1>1. TypeOK'
  <2>1. <<>> \in Seq(Byte) /\ <<>> \in Seq(Inputs) /\ Len(<<>>) = 0
    BY EmptySeq
  <2>2. buffer'.size = n /\ buffer'.data = <<>> /\ buffer'.read = 0
    OBVIOUS
  <2>3. Len(buffer'.data) = 0 /\ 0 \in 0..0 /\ 0 <= n
    BY <2>1, <2>2
  <2> QED BY <2>1, <2>2, <2>3 DEF TypeOK
<1>2. Shape'
  BY DEF Shape
<1> DEFINE ends == [i \in 0..0 |-> 0]
<1>3. Len(written') = 0 /\ Len(buffer'.data) = 0
  OBVIOUS
<1>4. ends \in [0..Len(written') -> Nat] /\ \A i \in 0..0 : ends[i] = 0
  BY <1>3
<1> HIDE DEF ends
<1>5. Parses(ends)'
  BY <1>3, <1>4 DEF Parses
<1>6. Parsed'
  BY <1>4, <1>5 DEF Parsed
<1> QED BY <1>1, <1>2, <1>6 DEF IInv

LEMMA InitInv == Init => IInv
<1> SUFFICES ASSUME Init PROVE IInv
  OBVIOUS
<1>1. TypeOK
  <2>1. <<>> \in Seq(Byte) /\ <<>> \in Seq(Inputs) /\ Len(<<>>) = 0
    BY EmptySeq
  <2>2. buffer.size = 0 /\ buffer.data = <<>> /\ buffer.read = 0
    BY DEF Init
  <2>3. Len(buffer.data) = 0 /\ 0 \in 0..0 /\ 0 <= 0
    BY <2>1, <2>2
  <2> QED BY <2>1, <2>2, <2>3 DEF Init, TypeOK
<1>2. Shape
  BY DEF Init, Shape
<1> DEFINE ends == [i \in 0..0 |-> 0]
<1>3. Len(written) = 0 /\ Len(buffer.data) = 0
  BY DEF Init
<1>4. ends \in [0..Len(written) -> Nat] /\ \A i \in 0..0 : ends[i] = 0
  BY <1>3
<1> HIDE DEF ends
<1>5. Parses(ends)
  BY <1>3, <1>4 DEF Parses, Init
<1>6. Parsed
  BY <1>4, <1>5 DEF Parsed
<1> QED BY <1>1, <1>2, <1>6 DEF IInv

LEMMA SupplyStep == ASSUME NEW n \in Sizes, Supply(n) PROVE IInv'
<1>1. n \in Nat
  BY InputAssumption
<1> QED BY <1>1, EmptyParsed DEF Supply

LEMMA MeasureStep == ASSUME IInv, NEW v \in Inputs, Measure(v) PROVE IInv'
<1>1. UNCHANGED <<buffer, written, taken, torn, stopped>>
  BY DEF Measure
<1> QED BY <1>1 DEF IInv, TypeOK, Shape, Parsed, Parses

\* What is added to the data leaves the values in it where they were.
LEMMA WriteStep == ASSUME IInv, NEW v \in Inputs, Write(v) PROVE IInv'
<1> DEFINE room == buffer.size - Len(buffer.data)
           done == Accepted(Pieces(v), room)
           t == FlattenSeq(done)
           s == buffer.data
           n == Len(written)
           whole == done = Pieces(v)
<1>1. /\ buffer.size \in Nat /\ s \in Seq(Byte) /\ Len(s) \in Nat
      /\ Len(s) <= buffer.size /\ buffer.read \in 0..Len(s)
      /\ written \in Seq(Inputs) /\ n \in Nat /\ taken \in Nat /\ torn \in Seq(Inputs)
  BY LenProperties DEF IInv, TypeOK
<1>2. /\ torn = <<>> /\ taken' = taken /\ stopped' = stopped /\ ~stopped
      /\ buffer' = [buffer EXCEPT !.data = s \o t]
      /\ written' = IF whole THEN Append(written, v) ELSE written
      /\ torn' = IF whole \/ done = <<>> THEN <<>> ELSE <<v>>
  BY DEF Write, IInv, Shape
<1>3. PICK ends \in [0..n -> Nat] : Parses(ends)
  BY DEF IInv, Parsed
<1>4. room \in Nat
  BY <1>1
<1>5. /\ t \in Seq(Byte) /\ Len(t) <= room
      /\ Len(t) <= Len(Encoding(v)) /\ \A i \in 1..Len(t) : t[i] = Encoding(v)[i]
      /\ whole => t = Encoding(v)
      /\ ~whole => Len(t) < Len(Encoding(v))
      /\ done = <<>> => t = <<>>
  BY <1>4, AcceptedOctets, Zenon
<1>6. Encoding(v) \in Seq(Byte) /\ Len(Encoding(v)) \in Nat /\ Len(t) \in Nat
  BY <1>5, EncodingType, LenProperties
<1> HIDE DEF room, done, t
<1> DEFINE u == s \o t
<1>7. u \in Seq(Byte) /\ Len(u) = Len(s) + Len(t)
  BY <1>1, <1>5, ConcatProperties
<1>8. /\ buffer'.size = buffer.size /\ buffer'.read = buffer.read /\ buffer'.data = u
      /\ buffer' = [size |-> buffer'.size, data |-> buffer'.data, read |-> buffer'.read]
  <2> HIDE DEF u
  <2>1. buffer' = [buffer EXCEPT !.data = u]
    BY <1>2 DEF u
  <2> QED BY <2>1 DEF IInv, Shape
<1>9. \A e \in Seq(Byte), p \in Nat : StandsAt(e, s, p) => StandsAt(e, u, p)
  BY <1>1, <1>5, StandsLonger, Zenon
<1> HIDE DEF u, whole
<1>10. Len(u) <= buffer.size /\ buffer.read \in 0..Len(u)
  <2> DEFINE a == Len(s)  b == Len(t)  c == Len(u)
  <2>1. a \in Nat /\ b \in Nat /\ c = a + b /\ b <= buffer.size - a /\ buffer.read \in 0..a
    BY <1>1, <1>5, <1>6, <1>7 DEF room
  <2> HIDE DEF a, b, c
  <2>2. c <= buffer.size /\ buffer.read \in 0..c
    BY <1>1, <2>1
  <2> QED BY <2>2 DEF c
<1>11. /\ Len(s) = ends[n] /\ buffer.read = ends[taken]
       /\ \A i \in 1..n : /\ ends[i] = ends[i - 1] + Len(Encoding(written[i]))
                          /\ StandsAt(Encoding(written[i]), s, ends[i - 1])
       /\ \A i, j \in 0..n : i <= j => ends[i] <= ends[j]
       /\ ends[0] = 0 /\ taken <= n
  BY <1>2, <1>3 DEF Parses, IInv, Shape
<1>12. \A i \in 1..n : StandsAt(Encoding(written[i]), u, ends[i - 1])
  <2> SUFFICES ASSUME NEW i \in 1..n PROVE StandsAt(Encoding(written[i]), u, ends[i - 1])
    OBVIOUS
  <2>1. Encoding(written[i]) \in Seq(Byte)
    BY <1>1, ElementOfSeq, EncodingType
  <2>2. ends[i - 1] \in Nat
    BY <1>1, <1>3
  <2> QED BY <1>9, <1>11, <2>1, <2>2
<1>13. CASE whole
  <2>1. /\ written' = Append(written, v) /\ torn' = <<>>
        /\ written' \in Seq(Inputs) /\ Len(written') = n + 1
        /\ \A i \in 1..n : written'[i] = written[i]
        /\ written'[n + 1] = v
    BY <1>1, <1>2, <1>13, AppendProperties
  <2>2. Len(u) \in Nat
    BY <1>7, LenProperties
  <2>3. PICK far \in [0..Len(written') -> Nat] :
          (\A i \in 0..n : far[i] = ends[i]) /\ far[n + 1] = Len(u)
    <3> DEFINE f == [i \in 0..(n + 1) |-> IF i <= n THEN ends[i] ELSE Len(u)]
    <3>1. f \in [0..(n + 1) -> Nat] /\ (\A i \in 0..n : f[i] = ends[i]) /\ f[n + 1] = Len(u)
      BY <1>1, <1>3, <2>2
    <3> QED BY <2>1, <3>1
  <2>4. ASSUME NEW i \in 1..(n + 1)
        PROVE  /\ far[i] = far[i - 1] + Len(Encoding(written'[i]))
               /\ StandsAt(Encoding(written'[i]), u, far[i - 1])
    <3>1. CASE i <= n
      <4>1. i \in 1..n /\ i \in 0..n /\ i - 1 \in 0..n
        BY <1>1, <3>1
      <4> QED BY <1>11, <1>12, <2>1, <2>3, <4>1
    <3>2. CASE i = n + 1
      <4>1. i - 1 = n /\ n \in 0..n
        BY <1>1, <3>2
      <4>2. t = Encoding(v)
        BY <1>5, <1>13
      <4>3. StandsAt(Encoding(v), u, Len(s))
        BY <1>1, <1>5, <1>6, <4>2, StandsLonger, Zenon DEF u
      <4>4. far[i - 1] = Len(s)
        BY <1>11, <2>3, <4>1
      <4>5. far[i] = Len(s) + Len(Encoding(v))
        BY <1>7, <2>3, <3>2, <4>2
      <4>6. written'[i] = v
        BY <2>1, <3>2
      <4> QED BY <4>3, <4>4, <4>5, <4>6
    <3> QED BY <1>1, <3>1, <3>2
  <2>5. \A i, j \in 0..(n + 1) : i <= j => far[i] <= far[j]
    <3> SUFFICES ASSUME NEW i \in 0..(n + 1), NEW j \in 0..(n + 1), i <= j
                 PROVE  far[i] <= far[j]
      OBVIOUS
    <3>1. CASE j <= n
      <4>1. i \in 0..n /\ j \in 0..n
        BY <1>1, <3>1
      <4> QED BY <1>11, <2>3, <4>1
    <3>2. CASE j = n + 1 /\ i <= n
      <4>1. i \in 0..n /\ n \in 0..n
        BY <1>1, <3>2
      <4>2. far[i] = ends[i] /\ ends[i] <= ends[n] /\ ends[i] \in Nat
        BY <1>1, <1>3, <1>11, <2>3, <3>2, <4>1
      <4> DEFINE a == Len(s)  b == Len(t)  c == Len(u)
      <4>3. a \in Nat /\ b \in Nat /\ c = a + b /\ ends[n] = a /\ far[j] = c
        BY <1>1, <1>6, <1>7, <1>11, <2>3, <3>2
      <4> HIDE DEF a, b, c
      <4> QED BY <4>2, <4>3
    <3>3. CASE i = n + 1 /\ j = n + 1
      BY <2>2, <2>3, <3>3
    <3> QED BY <1>1, <3>1, <3>2, <3>3
  <2>6. Parses(far)'
    <3>1. far[0] = 0 /\ far[taken] = buffer.read
      <4>1. 0 \in 0..n /\ taken \in 0..n
        BY <1>1, <1>11
      <4> QED BY <1>11, <2>3, <4>1
    <3>2. torn' = <<>> /\ Len(buffer'.data) = far[Len(written')]
      BY <1>8, <2>1, <2>3
    <3>3. buffer'.read = far[taken']
      BY <1>2, <1>8, <3>1
    <3>4. \A i \in 1..Len(written') :
            /\ far[i] = far[i - 1] + Len(Encoding(written'[i]))
            /\ StandsAt(Encoding(written'[i]), buffer'.data, far[i - 1])
      BY <1>8, <2>1, <2>4
    <3>5. \A i, j \in 0..Len(written') : i <= j => far[i] <= far[j]
      BY <2>1, <2>5
    <3> QED BY <3>1, <3>2, <3>3, <3>4, <3>5, Zenon DEF Parses
  <2>7. Parsed'
    BY <2>3, <2>6 DEF Parsed
  <2>8. Shape' /\ TypeOK'
    <3>1. taken <= n + 1
      BY <1>1, <1>11
    <3> QED BY <1>1, <1>2, <1>7, <1>8, <1>10, <2>1, <3>1 DEF Shape, TypeOK, IInv
  <2> QED BY <2>7, <2>8 DEF IInv
<1>14. CASE ~whole
  <2>1. written' = written /\ torn' \in Seq(Inputs) /\ Len(torn') <= 1
    BY <1>2, <1>14
  <2>2. torn' = <<>> => Len(u) = ends[n]
    <3> HAVE torn' = <<>>
    <3>1. done = <<>>
      BY <1>2, <1>14
    <3>2. Len(t) = 0
      BY <1>5, <3>1
    <3> QED BY <1>1, <1>7, <1>11, <3>2
  <2>3. torn' # <<>> => StandsCut(Encoding(torn'[1]), u, ends[n])
    <3> HAVE torn' # <<>>
    <3>1. torn'[1] = v
      BY <1>2, <1>14
    <3>2. StandsCut(Encoding(v), u, Len(s))
      <4>1. Len(t) < Len(Encoding(v)) /\ \A i \in 1..Len(t) : t[i] = Encoding(v)[i]
        BY <1>5, <1>14
      <4> QED BY <1>1, <1>5, <1>6, <4>1, StandsLonger, Zenon DEF u
    <3> QED BY <1>11, <3>1, <3>2
  <2>4. Parses(ends)'
    BY <1>2, <1>8, <1>11, <1>12, <2>1, <2>2, <2>3 DEF Parses
  <2>5. Parsed'
    BY <1>3, <2>1, <2>4 DEF Parsed
  <2>6. Shape' /\ TypeOK'
    BY <1>1, <1>2, <1>7, <1>8, <1>10, <1>11, <2>1 DEF Shape, TypeOK, IInv
  <2> QED BY <2>5, <2>6 DEF IInv
<1> QED BY <1>13, <1>14

\* Losing the last octets cuts the last value and no other.
LEMMA LoseStep == ASSUME IInv, NEW n \in Losses, Lose(n) PROVE IInv'
<1> DEFINE s == buffer.data  m == Len(written)  w == written[m]  l == Len(s)
           e == Encoding(w)  u == SubSeq(s, 1, l - n)
<1>1. /\ buffer.size \in Nat /\ s \in Seq(Byte) /\ l \in Nat
      /\ l <= buffer.size /\ buffer.read \in 0..l
      /\ written \in Seq(Inputs) /\ m \in Nat /\ taken \in Nat
      /\ n \in Nat /\ n # 0
  BY InputAssumption, LenProperties DEF IInv, TypeOK
<1>2. /\ torn = <<>> /\ taken' = taken /\ stopped' = stopped /\ ~stopped
      /\ Pending # <<>> /\ n < Len(e)
      /\ buffer' = [buffer EXCEPT !.data = u]
      /\ written' = SubSeq(written, 1, m - 1)
      /\ torn' = <<w>>
  BY DEF Lose, IInv, Shape, Last, Front, Count, Encoding
<1>3. PICK ends \in [0..m -> Nat] : Parses(ends)
  BY DEF IInv, Parsed
<1>4. taken < m
  <2> SUFFICES ASSUME ~(taken < m) PROVE Pending = <<>>
    BY <1>2
  <2> HIDE DEF m
  <2>1. taken + 1 > m
    BY <1>1
  <2> QED BY <2>1, SubSeqEmpty DEF Pending, m
<1>5. w \in Inputs /\ e \in Seq(Byte) /\ Len(e) \in Nat
  BY <1>1, <1>4, ElementOfSeq, EncodingType
<1>6. /\ l = ends[m] /\ buffer.read = ends[taken]
      /\ \A i \in 1..m : /\ ends[i] = ends[i - 1] + Len(Encoding(written[i]))
                         /\ StandsAt(Encoding(written[i]), s, ends[i - 1])
      /\ \A i, j \in 0..m : i <= j => ends[i] <= ends[j]
      /\ ends[0] = 0
  BY <1>2, <1>3 DEF Parses
<1> HIDE DEF s, m, l
<1>7. m \in 1..m /\ m - 1 \in 0..m /\ taken \in 0..m /\ taken <= m - 1 /\ m - 1 \in Nat
  BY <1>1, <1>4
<1>8. l = ends[m - 1] + Len(e) /\ StandsAt(e, s, ends[m - 1]) /\ ends[m - 1] \in Nat
  BY <1>3, <1>6, <1>7
<1> HIDE DEF e, w
<1>9. /\ l - n \in Nat /\ l - n <= l /\ ends[m - 1] <= l - n
      /\ l - n < ends[m - 1] + Len(e)
  BY <1>1, <1>2, <1>5, <1>8
<1>10. u \in Seq(Byte) /\ Len(u) = l - n /\ StandsCut(e, u, ends[m - 1])
  BY <1>1, <1>5, <1>8, <1>9, StandsShorter, Zenon DEF l
<1>11. \A i \in 1..(m - 1) : StandsAt(Encoding(written[i]), u, ends[i - 1])
  <2> SUFFICES ASSUME NEW i \in 1..(m - 1)
               PROVE  StandsAt(Encoding(written[i]), u, ends[i - 1])
    OBVIOUS
  <2> DEFINE x == Encoding(written[i])
  <2>1. i \in 1..m /\ i \in 0..m /\ i - 1 \in 0..m /\ i <= m - 1
    BY <1>7
  <2>2. written[i] \in Inputs
    BY <1>1, <2>1, ElementOfSeq DEF m
  <2>3. x \in Seq(Byte)
    BY <2>2, EncodingType, Zenon
  <2>4. ends[i - 1] \in Nat /\ ends[i] \in Nat
    BY <1>3, <2>1
  <2>5. StandsAt(x, s, ends[i - 1]) /\ ends[i - 1] + Len(x) <= ends[m - 1]
    BY <1>6, <1>7, <2>1
  <2> HIDE DEF x
  <2>6. Len(x) \in Nat
    BY <2>3, LenProperties
  <2>7. ends[i - 1] + Len(x) <= l - n
    BY <1>8, <1>9, <2>4, <2>5, <2>6
  <2>8. StandsAt(x, u, ends[i - 1])
    BY <1>1, <1>9, <2>3, <2>4, <2>5, <2>7, StandsShorter, Zenon DEF l
  <2> QED BY <2>8 DEF x
<1>12. /\ written' \in Seq(Inputs) /\ Len(written') = m - 1
       /\ \A i \in 1..(m - 1) : written'[i] = written[i]
  <2>1. m - 1 \in 0..Len(written) /\ m - 1 \in Nat
    BY <1>7 DEF m
  <2>2. \A i \in 1..(m - 1) : written[i] \in Inputs
    <3> SUFFICES ASSUME NEW i \in 1..(m - 1) PROVE written[i] \in Inputs
      OBVIOUS
    <3>1. i \in 1..Len(written)
      BY <1>7 DEF m
    <3> QED BY <1>1, <3>1, ElementOfSeq
  <2>3. written' = SubSeq(written, 1, m - 1)
    BY <1>2
  <2> HIDE DEF m
  <2> QED BY <1>1, <1>7, <2>1, <2>2, <2>3, SubSeqProperties
<1> HIDE DEF u
<1>13. /\ buffer'.size = buffer.size /\ buffer'.read = buffer.read /\ buffer'.data = u
       /\ buffer' = [size |-> buffer'.size, data |-> buffer'.data, read |-> buffer'.read]
  BY <1>2 DEF IInv, Shape
<1>14. buffer.read <= ends[m - 1] /\ buffer.read \in 0..Len(u) /\ Len(u) <= buffer.size
  <2>1. ends[taken] <= ends[m - 1]
    BY <1>6, <1>7
  <2> DEFINE c == Len(u)  a == ends[m - 1]
  <2>2. a \in Nat /\ a <= c /\ c \in Nat /\ c <= l /\ buffer.read <= a
    BY <1>6, <1>8, <1>9, <1>10, <2>1
  <2> HIDE DEF a, c
  <2>3. buffer.read <= a /\ buffer.read \in 0..c /\ c <= buffer.size
    BY <1>1, <2>2
  <2> QED BY <2>3 DEF a, c
<1>15. torn' # <<>> /\ torn'[1] = w /\ torn' \in Seq(Inputs) /\ Len(torn') = 1
  BY <1>2, <1>5
<1>16. PICK far \in [0..Len(written') -> Nat] : \A i \in 0..(m - 1) : far[i] = ends[i]
  <2> DEFINE f == [i \in 0..(m - 1) |-> ends[i]]
  <2>1. \A i \in 0..(m - 1) : ends[i] \in Nat
    <3> SUFFICES ASSUME NEW i \in 0..(m - 1) PROVE ends[i] \in Nat
      OBVIOUS
    <3>1. i \in 0..m
      BY <1>7
    <3> QED BY <1>3, <3>1
  <2>2. f \in [0..(m - 1) -> Nat] /\ \A i \in 0..(m - 1) : f[i] = ends[i]
    BY <2>1
  <2> QED BY <1>12, <2>2
<1>17. Parses(far)'
  <2>1. \A i \in 1..Len(written') :
          /\ far[i] = far[i - 1] + Len(Encoding(written'[i]))
          /\ StandsAt(Encoding(written'[i]), buffer'.data, far[i - 1])
    <3> SUFFICES ASSUME NEW i \in 1..(m - 1)
                 PROVE  /\ far[i] = far[i - 1] + Len(Encoding(written'[i]))
                        /\ StandsAt(Encoding(written'[i]), buffer'.data, far[i - 1])
      BY <1>12
    <3>1. i \in 1..m /\ i \in 0..(m - 1) /\ i - 1 \in 0..(m - 1)
      BY <1>7
    <3> QED BY <1>6, <1>11, <1>12, <1>13, <1>16, <3>1
  <2>2. \A i, j \in 0..Len(written') : i <= j => far[i] <= far[j]
    <3> SUFFICES ASSUME NEW i \in 0..(m - 1), NEW j \in 0..(m - 1), i <= j
                 PROVE  far[i] <= far[j]
      BY <1>12
    <3>1. i \in 0..m /\ j \in 0..m
      BY <1>7
    <3> QED BY <1>6, <1>16, <3>1
  <2>3. far[0] = 0
    <3>1. 0 \in 0..(m - 1)
      BY <1>7
    <3> QED BY <1>6, <1>16, <3>1
  <2>4. StandsCut(Encoding(torn'[1]), buffer'.data, far[Len(written')])
    <3>1. m - 1 \in 0..(m - 1)
      BY <1>7
    <3> QED BY <1>10, <1>12, <1>13, <1>15, <1>16, <3>1 DEF e
  <2>5. buffer'.read = far[taken']
    <3>1. taken \in 0..(m - 1)
      BY <1>1, <1>7
    <3> QED BY <1>2, <1>6, <1>13, <1>16, <3>1
  <2> QED BY <1>15, <2>1, <2>2, <2>3, <2>4, <2>5, Zenon DEF Parses
<1>18. Parsed'
  BY <1>16, <1>17 DEF Parsed
<1>19. Shape' /\ TypeOK'
  BY <1>1, <1>2, <1>7, <1>10, <1>12, <1>13, <1>14, <1>15 DEF Shape, TypeOK, IInv
<1> QED BY <1>18, <1>19 DEF IInv

\* What is left to read.
LEMMA UnreadHead ==
    ASSUME IInv
    PROVE  /\ taken # Len(written) =>
                /\ taken + 1 \in 1..Len(written)
                /\ Pending # <<>> /\ Unread # <<>> /\ Head(Unread) = written[taken + 1]
           /\ taken = Len(written) => Pending = <<>> /\ Unread = torn
<1> DEFINE m == Len(written)
<1>1. /\ written \in Seq(Inputs) /\ m \in Nat /\ taken \in Nat /\ taken <= m
      /\ torn \in Seq(Inputs)
  BY LenProperties DEF IInv, TypeOK, Shape
<1>2. ASSUME taken # m
      PROVE  /\ taken + 1 \in 1..m
             /\ Pending # <<>> /\ Unread # <<>> /\ Head(Unread) = written[taken + 1]
  <2>1. taken + 1 \in 1..m
    BY <1>1, <1>2
  <2>2. Pending \in Seq(Inputs) /\ Len(Pending) = m - taken /\ Pending[1] = written[taken + 1]
    <3> DEFINE a == taken + 1
    <3>1. a \in Nat /\ a \in 1..m /\ m - a + 1 = m - taken /\ 1 \in 1..(m - a + 1) /\ a + 1 - 1 = a
          /\ a <= m + 1
      BY <1>1, <1>2
    <3>2. \A i \in a..m : written[i] \in Inputs
      <4> SUFFICES ASSUME NEW i \in a..m PROVE written[i] \in Inputs
        OBVIOUS
      <4>1. i \in 1..m
        BY <1>1, <3>1
      <4> QED BY <1>1, <4>1, ElementOfSeq
    <3> HIDE DEF a
    <3>3. /\ SubSeq(written, a, m) \in Seq(Inputs)
          /\ Len(SubSeq(written, a, m)) = m - a + 1
          /\ \A i \in 1..(m - a + 1) : SubSeq(written, a, m)[i] = written[a + i - 1]
      BY <1>1, <3>1, <3>2, SubSeqProperties
    <3>4. SubSeq(written, a, m)[1] = written[a]
      BY <3>1, <3>3
    <3> QED BY <3>1, <3>3, <3>4 DEF Pending, a
  <2> HIDE DEF m
  <2>3. Len(Pending) # 0 /\ Len(Pending) \in Nat /\ Len(torn) \in Nat
    BY <1>1, <1>2, <2>2, LenProperties
  <2>4. Pending # <<>>
    BY <2>3, EmptySeq
  <2>5. /\ Unread \in Seq(Inputs) /\ Len(Unread) = Len(Pending) + Len(torn)
        /\ Unread[1] = Pending[1]
    <3>1. /\ Pending \o torn \in Seq(Inputs)
          /\ Len(Pending \o torn) = Len(Pending) + Len(torn)
          /\ \A i \in 1..Len(Pending) + Len(torn) : (Pending \o torn)[i] =
                IF i <= Len(Pending) THEN Pending[i] ELSE torn[i - Len(Pending)]
      BY <1>1, <2>2, ConcatProperties
    <3>2. 1 \in 1..Len(Pending) + Len(torn) /\ 1 <= Len(Pending)
      BY <2>3
    <3> QED BY <3>1, <3>2, Zenon DEF Unread
  <2>6. Len(Unread) # 0
    BY <2>3, <2>5
  <2>7. Unread # <<>>
    BY <2>6, EmptySeq
  <2>8. Head(Unread) = Unread[1]
    BY <2>5, <2>7, HeadTailProperties
  <2> QED BY <2>1, <2>2, <2>4, <2>5, <2>7, <2>8 DEF m
<1>3. ASSUME taken = m PROVE Pending = <<>> /\ Unread = torn
  <2> DEFINE a == taken + 1
  <2>1. a \in Int /\ m \in Int /\ m < a
    BY <1>1, <1>3
  <2> HIDE DEF m, a
  <2>2. SubSeq(written, a, m) = <<>>
    BY <2>1, SubSeqEmpty
  <2>3. Pending = <<>>
    BY <2>2, Zenon DEF Pending, m, a
  <2>4. <<>> \o torn = torn
    BY <1>1, ConcatEmptySeq
  <2> QED BY <2>4, <2>3, Zenon DEF Unread
<1> QED BY <1>2, <1>3

\* What a read of the next value returns: the value, while there is one.
LEMMA ReadOutcome ==
    ASSUME IInv, NEW v \in Inputs, NEW held \in Held(v), Read(v, held)
    PROVE  /\ taken # Len(written) =>
                /\ Pending # <<>> /\ v = written[taken + 1] /\ GivesBack(v, held)
           /\ taken = Len(written) =>
                /\ Pending = <<>> /\ ReadOf(v, held).threw
                /\ torn = <<>> => ReadOf(v, held).pos = buffer.read
<1>1. /\ buffer.data \in Seq(Byte) /\ buffer.read \in Nat /\ buffer.read <= Len(buffer.data)
      /\ written \in Seq(Inputs) /\ torn \in Seq(Inputs)
  BY LenProperties DEF IInv, TypeOK
<1>2. ~stopped /\ (Unread # <<>> => v = Head(Unread))
  BY DEF Read
<1>3. PICK ends \in [0..Len(written) -> Nat] : Parses(ends)
  BY DEF IInv, Parsed
<1>4. buffer.read = ends[taken]
  BY <1>2, <1>3 DEF Parses
<1>5. ASSUME taken # Len(written)
      PROVE  Pending # <<>> /\ v = written[taken + 1] /\ GivesBack(v, held)
  <2>1. taken + 1 \in 1..Len(written) /\ Pending # <<>> /\ v = written[taken + 1]
    BY <1>2, <1>5, UnreadHead
  <2>2. (taken + 1) - 1 = taken
    BY DEF IInv, TypeOK
  <2>3. StandsAt(Encoding(v), buffer.data, buffer.read)
    BY <1>3, <1>4, <2>1, <2>2 DEF Parses
  <2> QED BY <1>1, <2>1, <2>3, WholeIsGivenBack
<1>6. ASSUME taken = Len(written)
      PROVE  /\ Pending = <<>> /\ ReadOf(v, held).threw
             /\ torn = <<>> => ReadOf(v, held).pos = buffer.read
  <2>1. Pending = <<>> /\ Unread = torn
    BY <1>6, UnreadHead
  <2>2. CASE torn = <<>>
    <3>1. buffer.read = Len(buffer.data)
      BY <1>3, <1>4, <1>6, <2>2 DEF Parses
    <3>2. Bounded(ReadOf(v, held), held, v.type = "String")
      BY <1>1, ReadBounds
    <3> QED BY <2>1, <3>1, <3>2 DEF Bounded
  <2>3. CASE torn # <<>>
    <3>1. v = torn[1]
      BY <1>1, <1>2, <2>1, <2>3, HeadTailProperties
    <3>2. StandsCut(Encoding(v), buffer.data, buffer.read)
      BY <1>3, <1>4, <1>6, <2>3, <3>1 DEF Parses
    <3> QED BY <1>1, <2>1, <2>3, <3>2, CutIsNotGiven
  <2> QED BY <2>2, <2>3
<1> QED BY <1>5, <1>6

\* Reading moves the reader to the end of the value it returns.
LEMMA ReadStep ==
    ASSUME IInv, NEW v \in Inputs, NEW held \in Held(v), Read(v, held) PROVE IInv'
<1> DEFINE r == ReadOf(v, held)
<1>1. /\ buffer.size \in Nat /\ buffer.data \in Seq(Byte) /\ buffer.read \in Nat
      /\ Len(buffer.data) <= buffer.size /\ Len(buffer.data) \in Nat
      /\ buffer.read <= Len(buffer.data) /\ Len(written) \in Nat
      /\ written \in Seq(Inputs) /\ taken \in Nat /\ taken <= Len(written)
      /\ torn \in Seq(Inputs) /\ Len(torn) <= 1
  BY LenProperties DEF IInv, TypeOK, Shape
<1>2. /\ buffer' = [buffer EXCEPT !.read = r.pos]
      /\ taken' = IF r.threw THEN taken ELSE taken + 1
      /\ stopped' = (r.threw /\ r.pos # buffer.read)
      /\ ~stopped /\ written' = written /\ torn' = torn
  BY DEF Read, ReadOf
<1>3. Bounded(r, held, v.type = "String")
  BY <1>1, ReadBounds
<1>4. PICK ends \in [0..Len(written) -> Nat] : Parses(ends)
  BY DEF IInv, Parsed
<1>5. /\ taken # Len(written) => v = written[taken + 1] /\ GivesBack(v, held)
      /\ taken = Len(written) => r.threw /\ (torn = <<>> => r.pos = buffer.read)
  BY ReadOutcome
<1>6. r.threw \in BOOLEAN /\ r.pos \in Nat /\ r.pos <= Len(buffer.data)
  BY <1>3 DEF Bounded
<1>7. buffer.read = ends[taken]
  BY <1>2, <1>4 DEF Parses
<1>8. ~r.threw => taken + 1 <= Len(written) /\ r.pos = ends[taken + 1]
  <2> SUFFICES ASSUME ~r.threw PROVE taken + 1 <= Len(written) /\ r.pos = ends[taken + 1]
    OBVIOUS
  <2>1. taken # Len(written)
    BY <1>5
  <2>2. taken + 1 \in 1..Len(written) /\ (taken + 1) - 1 = taken
    BY <1>1, <2>1
  <2>3. r.pos = buffer.read + Len(Encoding(written[taken + 1]))
    BY <1>5, <2>1 DEF GivesBack
  <2>4. ends[taken + 1] = ends[taken] + Len(Encoding(written[taken + 1]))
    BY <1>4, <2>2 DEF Parses
  <2> QED BY <1>7, <2>2, <2>3, <2>4
<1>9. stopped' => torn # <<>>
  BY <1>2, <1>5 DEF GivesBack
<1>10. ~stopped' => r.pos = ends[taken']
  BY <1>2, <1>6, <1>7, <1>8
<1> HIDE DEF r
<1>11. /\ buffer'.size = buffer.size /\ buffer'.read = r.pos /\ buffer'.data = buffer.data
       /\ buffer' = [size |-> buffer'.size, data |-> buffer'.data, read |-> buffer'.read]
  BY <1>2 DEF IInv, Shape
<1>12. taken' \in Nat /\ taken' <= Len(written) /\ stopped' \in BOOLEAN
  BY <1>1, <1>2, <1>6, <1>8
<1>13. Parses(ends)'
  BY <1>2, <1>4, <1>10, <1>11 DEF Parses
<1>14. Parsed'
  BY <1>2, <1>4, <1>13 DEF Parsed
<1>15. Shape' /\ TypeOK'
  BY <1>1, <1>2, <1>6, <1>9, <1>11, <1>12 DEF Shape, TypeOK
<1> QED BY <1>14, <1>15 DEF IInv

-----------------------------------------------------------------------------
(* The theorems.                                                           *)

LEMMA IInvStep == IInv /\ [Next]_vars => IInv'
<1> SUFFICES ASSUME IInv, [Next]_vars PROVE IInv'
  OBVIOUS
<1>1. CASE \E n \in Sizes : Supply(n)
  BY <1>1, SupplyStep
<1>2. CASE \E n \in Losses : Lose(n)
  BY <1>2, LoseStep
<1>3. CASE \E v \in Inputs : Measure(v)
  BY <1>3, MeasureStep
<1>4. CASE \E v \in Inputs : Write(v)
  BY <1>4, WriteStep
<1>5. CASE \E v \in Inputs : \E held \in Held(v) : Read(v, held)
  BY <1>5, ReadStep
<1>6. CASE UNCHANGED vars
  BY <1>6 DEF vars, IInv, TypeOK, Shape, Parsed, Parses
<1> QED BY <1>1, <1>2, <1>3, <1>4, <1>5, <1>6 DEF Next

\* The data is never larger than the buffer and the position never beyond the
\* data, and what a reader finds is a sequence of whole encodings and a part of
\* one at the end (Serializer::AppendValue, Deserializer::Read).
THEOREM StreamParsed == Spec => []IInv
<1>1. Init => IInv
  BY InitInv
<1>2. IInv /\ [Next]_vars => IInv'
  BY IInvStep
<1> QED BY <1>1, <1>2, PTL DEF Spec

THEOREM TypeCorrect == Spec => []TypeOK
<1>1. IInv => TypeOK
  BY DEF IInv
<1> QED BY <1>1, StreamParsed, PTL

\* A value is read back exactly as it was written, whatever stands before and
\* after it, and what is left of a torn one is refused.
THEOREM ValuesReadBack == Spec => ReadsBack
<1> DEFINE Back(v, held) ==
             IF Pending = <<>> THEN out'.threw
             ELSE ~out'.threw /\ out'.value =
                     (IF v.type = "String" THEN held \o v.value ELSE v.value)
           Step == \A v \in Inputs : \A held \in Held(v) : Read(v, held) => Back(v, held)
<1>1. IInv /\ [Next]_vars => [Step]_vars
  <2> SUFFICES ASSUME IInv, NEW v \in Inputs, NEW held \in Held(v), Read(v, held)
               PROVE  Back(v, held)
    OBVIOUS
  <2> DEFINE r == ReadOf(v, held)
  <2>1. out' = Result("Read", r.count, r.threw, r.value)
    BY DEF Read, ReadOf
  <2>2. /\ taken # Len(written) => Pending # <<>> /\ GivesBack(v, held)
        /\ taken = Len(written) => Pending = <<>> /\ r.threw
    BY ReadOutcome
  <2>3. GivesBack(v, held) =>
          ~r.threw /\ r.value = (IF v.type = "String" THEN held \o v.value ELSE v.value)
    BY Zenon DEF GivesBack
  <2> HIDE DEF r
  <2>4. out'.threw = r.threw /\ out'.value = r.value
    BY <2>1 DEF Result
  <2> QED BY <2>2, <2>3, <2>4, Zenon
<1> QED BY <1>1, StreamParsed, PTL DEF Spec, ReadsBack

\* The count a read into a variable that held nothing returns is the number of
\* octets the position moved over, whatever stands before and after the value.
THEOREM CountsCorrect == Spec => FreshCountsExact
<1> DEFINE Counts(v, held) ==
             held = <<>> /\ ~out'.threw => out'.count = buffer'.read - buffer.read
           Step == \A v \in Inputs : \A held \in Held(v) :
                     Read(v, held) /\ held = <<>> /\ ~out'.threw =>
                        out'.count = buffer'.read - buffer.read
<1>1. IInv /\ [Next]_vars => [Step]_vars
  <2> SUFFICES ASSUME IInv, NEW v \in Inputs, NEW held \in Held(v), Read(v, held)
               PROVE  Counts(v, held)
    BY Zenon
  <2> DEFINE r == ReadOf(v, held)
  <2>1. /\ out' = Result("Read", r.count, r.threw, r.value)
        /\ buffer' = [buffer EXCEPT !.read = r.pos]
    BY DEF Read, ReadOf
  <2>2. Bounded(r, held, v.type = "String")
    <3>1. /\ buffer.data \in Seq(Byte) /\ buffer.read \in Nat
          /\ buffer.read <= Len(buffer.data)
      BY LenProperties DEF IInv, TypeOK
    <3> QED BY <3>1, ReadBounds
  <2> HIDE DEF r
  <2>3. out'.threw = r.threw /\ out'.count = r.count /\ buffer'.read = r.pos
    BY <2>1 DEF Result, IInv, Shape
  <2>4. ~r.threw => r.count = r.pos - buffer.read
                                + (IF v.type = "String" THEN Len(held) ELSE 0)
    BY <2>2, Zenon DEF Bounded
  <2>7. r.pos \in Nat
    BY <2>2, Zenon DEF Bounded
  <2>8. buffer.read \in Nat
    BY LenProperties DEF IInv, TypeOK
  <2>5. held = <<>> => (IF v.type = "String" THEN Len(held) ELSE 0) = 0
    BY EmptySeq
  <2>6. held = <<>> /\ ~r.threw => r.count = r.pos - buffer.read
    BY <2>4, <2>5, <2>7, <2>8
  <2> QED BY <2>3, <2>6, Zenon
<1> QED BY <1>1, StreamParsed, PTL DEF Spec, FreshCountsExact

=============================================================================
