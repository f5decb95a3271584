------------------------------- MODULE Decoder -------------------------------
(***************************************************************************)
(* gs::Decoder: what Decode makes of the octets at the read position of a  *)
(* buffer.  A read is a record of where the position is (pos), how many    *)
(* octets the function says it has consumed (count: an integer that is the *)
(* code's read_length modulo 2^64, and so may be negative), whether an     *)
(* exception was thrown, and the value so far.                             *)
(* An exception leaves the position where the last successful read put it. *)
(* Values are those of module Encoder.                                     *)
(***************************************************************************)
EXTENDS VarCodec, SequencesExt

Read(pos, count, threw, value) ==
    [pos |-> pos, count |-> count, threw |-> threw, value |-> value]

Thrown(r) == [r EXCEPT !.threw = TRUE]

\* What n unequal octets are read as when one repeated octet was written.
Garbled == 256

-----------------------------------------------------------------------------
(* Deserialize: primitives, the fields made of them, vectors and blobs.    *)

Copies(n, s) == FlattenSeq([i \in 1..n |-> s])

ReadLoc1       == Copies(3, <<4>>)
ReadLoc2       == Copies(3, <<4>>) \o Copies(3, <<2>>)
ReadNorm1      == Copies(3, <<2>>)
ReadTextureUV1 == <<0, 0>>
ReadRot1       == Copies(3, <<2>>)
ReadRot2       == Copies(6, <<2>>)
ReadTransform1 == Copies(3, <<2>>)
ReadThumb      == Copies(4, ReadTransform1)
ReadFinger     == Copies(5, ReadTransform1)

PrimitivesRead ==
    [VarUint |-> <<0>>, Time1 |-> <<2>>, Boolean |-> <<1>>, Float16 |-> <<2>>,
     Loc1 |-> ReadLoc1, Loc2 |-> ReadLoc2, Norm1 |-> ReadNorm1,
     TextureUV1 |-> ReadTextureUV1, Rot1 |-> ReadRot1, Rot2 |-> ReadRot2,
     Transform1 |-> ReadTransform1, Thumb |-> ReadThumb, Finger |-> ReadFinger]

\* The read r goes on with the integer v.
Counted(r, v) ==
    IF v.threw THEN Thrown([r EXCEPT !.pos = v.pos])
    ELSE Read(v.pos, r.count + v.pos - r.pos, FALSE, NumberOf(v.value))

DeserializeVarUint(s, r) == Counted(r, ReadVarUint(s, r.pos))

DeserializePlain(s, r, n) ==
    LET t == Take(s, r.pos, n)
    IN  IF r.pos + n > Len(s) THEN Thrown(r)
        ELSE Read(r.pos + n, r.count + n, FALSE,
                  IF \A i \in 1..n : t[i] = t[1] THEN t[1] ELSE Garbled)

DeserializePrimitive(s, r, octets) ==
    IF octets = 0 THEN DeserializeVarUint(s, r) ELSE DeserializePlain(s, r, octets)

\* The reads Step(r, 1), Step(r, 2), ... Step(r, n) one after the other, up to
\* one that throws; the value is the sequence of theirs.
Then(before, next) ==
    IF before.threw THEN before ELSE [next EXCEPT !.value = Append(before.value, @)]

Repeat(n, r, Step(_, _)) ==
    LET after[i \in 0..n] ==
            IF i = 0 THEN [r EXCEPT !.value = <<>>]
            ELSE LET before == after[i - 1] IN Then(before, Step(before, i))
    IN  after[n]

DeserializeField(type, s, r) ==
    LET Part(p, i) == DeserializePrimitive(s, p, PrimitivesRead[type][i])
    IN  Repeat(Len(PrimitivesRead[type]), r, Part)

\* No vector is longer than the data that is left: an element takes at least
\* one octet, and reading past the end throws.
DeserializeVector(type, s, r) ==
    LET size == DeserializeVarUint(s, r)
        Element(p, i) == DeserializeField(type, s, p)
    IN  IF size.threw THEN size
        ELSE Repeat(IF size.value <= Len(s) THEN size.value ELSE Len(s) + 1, size, Element)

\* Mutant: the length of a blob is not compared with the data that is left.
DeserializeBlobUnchecked(s, r) ==
    LET size == DeserializeVarUint(s, r)
    IN  IF size.threw THEN size
        ELSE Read(size.pos + size.value, size.count + size.value, FALSE, <<>>)

DeserializeBlob(s, r) ==
    LET size == DeserializeVarUint(s, r)
        n    == size.value
    IN  IF size.threw THEN size
        ELSE IF size.pos + n > Len(s) THEN Thrown(size)
        ELSE Read(size.pos + n, size.count + n, FALSE, Take(s, size.pos, n))

-----------------------------------------------------------------------------
(* The fields of each kind, in the order they are read.                    *)

Item(name, type)  == [name |-> name, type |-> type, many |-> FALSE]
Items(name, type) == [name |-> name, type |-> type, many |-> TRUE]

ReadHead1 == <<Item("id", "VarUint"), Item("time", "Time1"), Item("location", "Loc2"),
               Item("rotation", "Rot2")>>
ReadHand1 == <<Item("id", "VarUint"), Item("time", "Time1"), Item("left", "Boolean"),
               Item("location", "Loc2"), Item("rotation", "Rot2")>>
ReadHand2 == <<Item("id", "VarUint"), Item("time", "Time1"), Item("left", "Boolean"),
               Item("location", "Loc2"), Item("rotation", "Rot2"),
               Item("wrist", "Transform1"), Item("thumb", "Thumb"),
               Item("index", "Finger"), Item("middle", "Finger"),
               Item("ring", "Finger"), Item("pinky", "Finger")>>
ReadMesh1 == <<Item("id", "VarUint"), Items("vertices", "Loc1"), Items("normals", "Norm1"),
               Items("textures", "TextureUV1"), Items("triangles", "VarUint")>>
ReadHeadIPD1 == <<Item("ipd", "Float16")>>
ReadObject1 == <<Item("id", "VarUint"), Item("time", "Time1"), Item("position", "Loc1"),
                 Item("rotation", "Rot1"), Item("scale", "Loc1"), Item("active", "Boolean")>>

ReadFields == [Head1 |-> ReadHead1, Hand1 |-> ReadHand1, Object1 |-> ReadObject1,
               Mesh1 |-> ReadMesh1, Hand2 |-> ReadHand2, HeadIPD1 |-> ReadHeadIPD1]

\* The record with one more field, or another value in it.
With(record, name, value) ==
    [n \in DOMAIN record \cup {name} |-> IF n = name THEN value ELSE record[n]]

\* The values of a kind's fields, in order, become the object's record.
Assembled(kind, all) ==
    LET fields == ReadFields[kind]
        names  == {fields[i].name : i \in DOMAIN fields}
        Named(n) == all.value[CHOOSE i \in DOMAIN fields : fields[i].name = n]
    IN  IF all.threw THEN all
        ELSE [all EXCEPT !.value = With([n \in names |-> Named(n)], "kind", kind)]

DeserializeFields(kind, s, r) ==
    LET fields == ReadFields[kind]
        Field(p, i) == IF fields[i].many THEN DeserializeVector(fields[i].type, s, p)
                                         ELSE DeserializeField(fields[i].type, s, p)
    IN  Assembled(kind, Repeat(Len(fields), r, Field))

-----------------------------------------------------------------------------
(* Decode.                                                                 *)

KindOf(tag) ==
    CASE tag = 1 -> "Head1"     [] tag = 2 -> "Hand1"     [] tag = 3 -> "Object1"
      [] tag = 32768 -> "Mesh1" [] tag = 32769 -> "Hand2" [] tag = 32770 -> "HeadIPD1"
      [] OTHER -> "Unknown"

\* Mutant: the octets of the length field are counted as the object's.
DiscardedShort(kind, length, field, count) == length - count

\* What is passed to AdvanceReadLength to step over the octets not understood.
Discarded(kind, length, field, count) ==
    IF kind \in {"Head1", "Object1"} THEN length - count ELSE length - (count - field)

\* The optional part that follows what is known of a Head1 or Object1.  nested
\* is what Decode makes of each position further on.
WithIPD(r, ipd) ==
    IF ipd.threw \/ ipd.value.kind # "HeadIPD1"
    THEN [ipd EXCEPT !.threw = TRUE, !.count = @ + r.count]
    ELSE [ipd EXCEPT !.count = @ + r.count, !.value = [r.value EXCEPT !.ipd = <<ipd.value.ipd>>]]

WithParent(r, parent) ==
    IF parent.threw THEN parent
    ELSE [parent EXCEPT !.value = [r.value EXCEPT !.parent = <<parent.value>>]]

DecodeOptional(kind, s, r, nested) ==
    CASE kind = "Object1" -> WithParent(r, DeserializeField("VarUint", s, r))
      [] kind = "Head1"   -> WithIPD(r, nested[r.pos])
      [] OTHER            -> r

\* An Object1 or Head1 starts without its optional part, and keeps none unless
\* octets are left for one.
Blank(kind, value) ==
    CASE kind = "Object1" -> With(value, "parent", <<>>)
      [] kind = "Head1"   -> With(value, "ipd", <<>>)
      [] OTHER            -> value

WithOptional(kind, s, length, r, nested) ==
    IF r.threw THEN r
    ELSE LET known == [r EXCEPT !.value = Blank(kind, @)]
         IN  IF known.count - length.count < length.value
             THEN DecodeOptional(kind, s, known, nested) ELSE known

\* The octets left are skipped; there may not be fewer than were read.  The sum
\* in AdvanceReadLength wraps: with a length close to 2^64 the position goes back.
Finish(kind, s, length, r) ==
    LET read    == Unsigned(r.count - length.count)
        skipped == r.pos + Discarded(kind, Signed(length.value), length.count, r.count)
    IN  IF r.threw \/ read = length.value THEN r
        ELSE IF read > length.value \/ skipped \notin 0..Len(s) THEN Thrown(r)
        ELSE [r EXCEPT !.pos = skipped, !.count = length.count + Signed(length.value)]

\* All that follows the length field.
DecodeBody(kind, s, length, nested) ==
    IF length.threw \/ length.value = 0 THEN Thrown(length)
    ELSE LET required == DeserializeFields(kind, s, length)
         IN  Finish(kind, s, length, WithOptional(kind, s, length, required, nested))

\* The length field, counted from zero, and what follows the tag r.
DecodeKnown(kind, s, r, nested) ==
    LET body == DecodeBody(kind, s, DeserializeVarUint(s, [r EXCEPT !.count = 0]), nested)
    IN  [body EXCEPT !.count = @ + r.count]

\* The object at position p.  A Head1 decodes another object further on.
Decode(s, p) ==
    LET object[q \in 0..Len(s)] ==
          LET tag       == DeserializeVarUint(s, Read(q, 0, FALSE, 0))
              kind      == KindOf(tag.value)
              data      == DeserializeBlob(s, tag)
              nested    == [n \in (q + 1)..Len(s) |-> object[n]]
          IN  IF tag.threw \/ tag.value = 0 THEN Thrown(tag)
              ELSE IF kind = "Unknown"
              THEN [data EXCEPT !.value = [kind |-> kind, tag |-> tag.value, data |-> @]]
              ELSE DecodeKnown(kind, s, tag, nested)
    IN  object[p]

\* The loop over the objects of a buffer is left when no data is left, or by an
\* exception.  An exception leaves the objects decoded so far.
Ended(s, r) == r.threw \/ r.pos = Len(s)

\* What the loop has once it pushed the object that Decode returned or threw on.
Pushed(r, object) ==
    IF object.threw THEN Read(object.pos, r.count, TRUE, r.value)
    ELSE Read(object.pos, r.count + object.count, FALSE, Append(r.value, object.value))

OneMore(s, r) == IF Ended(s, r) THEN r ELSE Pushed(r, Decode(s, r.pos))

\* Every object from position p to the end of the data.  A loop that has not
\* ended after as many objects as there are octets has been at one position
\* twice and does not end: then this is not Ended.
DecodeObjects(s, p) ==
    LET after[i \in 0..Len(s)] ==
            IF i = 0 THEN Read(p, 0, FALSE, <<>>)
            ELSE LET before == after[i - 1] IN OneMore(s, before)
    IN  after[Len(s)]

\* Some octets of s are a VarUint that is less than 2^24 away from 2^64.
Wrapping(s) == \E i \in 1..(Len(s) - 8) : s[i] = 226 /\ \A j \in 1..5 : s[i + j] = 255
=============================================================================
