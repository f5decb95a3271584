------------------------------- MODULE Encoder -------------------------------
(***************************************************************************)
(* gs::Encoder: what Encode appends to a buffer and what it returns.  Each *)
(* Encode first sizes the object on an empty buffer, then refuses it if it *)
(* does not fit, then writes it field by field.  The two passes list the   *)
(* fields separately, as the code does, and so do SizedFields and          *)
(* WrittenFields.                                                          *)
(*                                                                         *)
(* An object is a record of its kind and its fields.  A field is the       *)
(* sequence of its primitives: a VarUint is a number, any other primitive  *)
(* of n octets is one octet, written n times over.  An optional field or a *)
(* vector is a sequence of fields.  A buffer is the value of a DataBuffer: *)
(* its size, the octets in use, and how many of them have been read.       *)
(***************************************************************************)
EXTENDS VarCodec, SequencesExt

Kinds == {"Head1", "Hand1", "Object1", "Mesh1", "Hand2", "HeadIPD1"}

TagOf == [Head1 |-> 1, Hand1 |-> 2, Object1 |-> 3,
          Mesh1 |-> 32768, Hand2 |-> 32769, HeadIPD1 |-> 32770]

-----------------------------------------------------------------------------
(* Types, as the octets of each of their primitives (0: a VarUint).        *)

Times(n, s) == FlattenSeq([i \in 1..n |-> s])

Loc1       == Times(3, <<4>>)
Loc2       == Times(3, <<4>>) \o Times(3, <<2>>)
Norm1      == Times(3, <<2>>)
TextureUV1 == <<0, 0>>
Rot1       == Times(3, <<2>>)
Rot2       == Times(6, <<2>>)
Transform1 == Times(3, <<2>>)
Thumb      == Times(4, Transform1)
Finger     == Times(5, Transform1)

Primitives ==
    [VarUint |-> <<0>>, Time1 |-> <<2>>, Boolean |-> <<1>>, Float16 |-> <<2>>,
     Loc1 |-> Loc1, Loc2 |-> Loc2, Norm1 |-> Norm1, TextureUV1 |-> TextureUV1,
     Rot1 |-> Rot1, Rot2 |-> Rot2, Transform1 |-> Transform1, Thumb |-> Thumb,
     Finger |-> Finger]

-----------------------------------------------------------------------------
(* Serialize: the octet strings appended, one per AppendValue.             *)

SerializeVarUint(n) == VarUintPieces(WordOf(n))

SerializePrimitive(octets, x) ==
    IF octets = 0 THEN SerializeVarUint(x) ELSE <<[i \in 1..octets |-> x]>>

SerializeField(type, x) ==
    FlattenSeq([i \in DOMAIN Primitives[type] |-> SerializePrimitive(Primitives[type][i], x[i])])

SerializeVector(type, xs) ==
    SerializeVarUint(Len(xs)) \o FlattenSeq([i \in DOMAIN xs |-> SerializeField(type, xs[i])])

SerializeBlob(octets) ==
    SerializeVarUint(Len(octets)) \o IF octets = <<>> THEN <<>> ELSE <<octets>>

\* What was appended, or counted when nothing is.
Octets(pieces) == FlattenSeq(pieces)
Length(pieces) == Len(Octets(pieces))

SerializeHeadIPD1(ipd) ==
    LET data == SerializeField("Float16", ipd)
    IN  SerializeVarUint(TagOf["HeadIPD1"]) \o SerializeVarUint(Length(data)) \o data

-----------------------------------------------------------------------------
(* The fields of each kind, in order.                                      *)

One(name, type)      == [name |-> name, type |-> type, form |-> "one"]
Vector(name, type)   == [name |-> name, type |-> type, form |-> "vector"]
Optional(name, type) == [name |-> name, type |-> type, form |-> "optional"]

Serialize(f, v) ==
    LET x == v[f.name]
    IN  IF f.form = "vector" THEN SerializeVector(f.type, x)
        ELSE IF f.form = "one" THEN SerializeField(f.type, x)
        ELSE IF x = <<>> THEN <<>>
        ELSE IF f.type = "HeadIPD1" THEN SerializeHeadIPD1(x[1])
        ELSE SerializeField(f.type, x[1])

SerializeAll(fields, v) == FlattenSeq([i \in DOMAIN fields |-> Serialize(fields[i], v)])

Stamp == <<One("id", "VarUint"), One("time", "Time1")>>
Hand  == Stamp \o <<One("left", "Boolean"), One("location", "Loc2"), One("rotation", "Rot2")>>

\* The fields counted to size the object.
Object1Sized == Stamp \o <<One("position", "Loc1"), One("rotation", "Rot1"),
                           One("scale", "Loc1"), One("active", "Boolean"),
                           Optional("parent", "VarUint")>>
Head1Sized == Stamp \o <<One("location", "Loc2"), One("rotation", "Rot2"),
                         Optional("ipd", "HeadIPD1")>>
Hand1Sized == Hand
Mesh1Sized == <<One("id", "VarUint"), Vector("vertices", "Loc1"), Vector("normals", "Norm1"),
                Vector("textures", "TextureUV1"), Vector("triangles", "VarUint")>>
Hand2Sized == Hand \o <<One("wrist", "Transform1"), One("thumb", "Thumb"),
                        One("index", "Finger"), One("middle", "Finger"),
                        One("ring", "Finger"), One("pinky", "Finger")>>

SizedFields == [Head1 |-> Head1Sized, Hand1 |-> Hand1Sized, Object1 |-> Object1Sized,
                Mesh1 |-> Mesh1Sized, Hand2 |-> Hand2Sized]

\* The fields written once the object is known to fit.
Object1Written == <<One("id", "VarUint"), One("time", "Time1"), One("position", "Loc1"),
                    One("rotation", "Rot1"), One("scale", "Loc1"),
                    One("active", "Boolean"), Optional("parent", "VarUint")>>
Head1Written == <<One("id", "VarUint"), One("time", "Time1"), One("location", "Loc2"),
                  One("rotation", "Rot2"), Optional("ipd", "HeadIPD1")>>
Hand1Written == <<One("id", "VarUint"), One("time", "Time1"), One("left", "Boolean"),
                  One("location", "Loc2"), One("rotation", "Rot2")>>
Mesh1Written == <<One("id", "VarUint"), Vector("vertices", "Loc1"),
                  Vector("normals", "Norm1"), Vector("textures", "TextureUV1"),
                  Vector("triangles", "VarUint")>>
Hand2Written == <<One("id", "VarUint"), One("time", "Time1"), One("left", "Boolean"),
                  One("location", "Loc2"), One("rotation", "Rot2"),
                  One("wrist", "Transform1"), One("thumb", "Thumb"),
                  One("index", "Finger"), One("middle", "Finger"),
                  One("ring", "Finger"), One("pinky", "Finger")>>

WrittenFields == [Head1 |-> Head1Written, Hand1 |-> Hand1Written, Object1 |-> Object1Written,
                  Mesh1 |-> Mesh1Written, Hand2 |-> Hand2Written]

-----------------------------------------------------------------------------
(* The objects there are: a value of the right type for each field of the  *)
(* kind.  A number needs no more than 24 bits (module VarCodec).           *)

IsNumber(n) == n \in Nat /\ n < Huge

IsPrimitive(octets, x) == IF octets = 0 THEN IsNumber(x) ELSE x \in Byte

FieldValues(type) ==
    {x \in [1..Len(Primitives[type]) -> Nat] :
        \A i \in 1..Len(Primitives[type]) : IsPrimitive(Primitives[type][i], x[i])}

VectorValues(type) == {xs \in Seq(FieldValues(type)) : Len(xs) < Huge}

\* std::optional: no value or one.  That of a HeadIPD1 is its only field's.
OptionalValues(type) ==
    {x \in Seq(FieldValues(IF type = "HeadIPD1" THEN "Float16" ELSE type)) : Len(x) <= 1}

ValuesOf(f) ==
    CASE f.form = "one"      -> FieldValues(f.type)
      [] f.form = "vector"   -> VectorValues(f.type)
      [] f.form = "optional" -> OptionalValues(f.type)

\* v has these fields and no others.
HasFields(v, fields) ==
    /\ v = [n \in {"kind"} \cup {fields[i].name : i \in DOMAIN fields} |-> v[n]]
    /\ \A i \in DOMAIN fields : v[fields[i].name] \in ValuesOf(fields[i])

\* An object of a kind unknown here; 0 is no kind.
IsUnknown(v) ==
    /\ v = [kind |-> "Unknown", tag |-> v.tag, data |-> v.data]
    /\ IsNumber(v.tag) /\ v.tag # 0 /\ \A kind \in Kinds : v.tag # TagOf[kind]
    /\ v.data \in Seq(Byte) /\ Len(v.data) < Huge

IsObject(v) ==
    CASE v.kind = "Unknown"              -> IsUnknown(v)
      [] v.kind = "HeadIPD1"             -> HasFields(v, <<One("ipd", "Float16")>>)
      [] v.kind \in DOMAIN WrittenFields ->
           HasFields(v, WrittenFields[v.kind])
             /\ Length(SerializeAll(WrittenFields[v.kind], v)) < Huge
      [] OTHER                           -> FALSE

-----------------------------------------------------------------------------
(* Encode.                                                                 *)

\* The pieces that Encode would append, given the fields it goes through.
Header(v) ==
    SerializeVarUint(TagOf[v.kind])
        \o SerializeVarUint(Length(SerializeAll(SizedFields[v.kind], v)))

UnknownPieces(v) == SerializeVarUint(v.tag) \o SerializeBlob(v.data)

Sized(v) ==
    CASE v.kind = "Unknown"  -> UnknownPieces(v)
      [] v.kind = "HeadIPD1" -> SerializeHeadIPD1(v.ipd)
      [] OTHER               -> Header(v) \o SerializeAll(SizedFields[v.kind], v)

Written(v) ==
    CASE v.kind = "Unknown"  -> UnknownPieces(v)
      [] v.kind = "HeadIPD1" -> SerializeHeadIPD1(v.ipd)
      [] OTHER               -> Header(v) \o SerializeAll(WrittenFields[v.kind], v)

\* Appending stops, with an exception, at the first piece that does not fit.
Fitting(pieces, room) ==
    LET fits == {n \in 0..Len(pieces) : Length(SubSeq(pieces, 1, n)) <= room}
    IN  CHOOSE n \in fits : \A m \in fits : m <= n

Outcome(b, objects, octets, threw) ==
    [buffer |-> b, objects |-> objects, octets |-> octets, threw |-> threw]

\* Mutant: an object that fills the buffer exactly is refused.
TooLargeIfFull(b, v) == Len(b.data) + Length(Sized(v)) >= b.size

TooLarge(b, v) == Len(b.data) + Length(Sized(v)) > b.size

\* The object that fits is written, piece by piece.
Write(b, pieces) ==
    LET n == Fitting(pieces, b.size - Len(b.data))
    IN  Outcome([b EXCEPT !.data = @ \o Octets(SubSeq(pieces, 1, n))],
                IF n < Len(pieces) THEN 0 ELSE 1,
                IF n < Len(pieces) THEN 0 ELSE Length(pieces),
                n < Len(pieces))

Encode(b, v) ==
    IF ~TooLarge(b, v) THEN Write(b, Written(v))
    ELSE IF b.size = 0 THEN Outcome(b, 1, Length(Sized(v)), FALSE)
    ELSE Outcome(b, 0, 0, FALSE)

\* What has been encoded and the next object; nothing follows one that did not
\* fit or threw.
Both(r, e) ==
    Outcome(e.buffer, r.objects + e.objects, r.octets + e.octets, e.threw)

\* A vector of objects: up to the first that does not fit.
EncodeObjects(b, vs) ==
    LET after[i \in 0..Len(vs)] ==
            IF i = 0 THEN Outcome(b, 0, 0, FALSE)
            ELSE LET r == after[i - 1]
                 IN  IF r.threw \/ r.objects < i - 1 THEN r
                     ELSE Both(r, Encode(r.buffer, vs[i]))
    IN  after[Len(vs)]
=============================================================================
