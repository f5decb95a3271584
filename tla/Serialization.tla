---------------------------- MODULE Serialization ----------------------------
(***************************************************************************)
(* gs::Serializer and gs::Deserializer on one DataBuffer: values written   *)
(* one after the other and read back in the same order by a reader that    *)
(* knows their types.  A value may be handed to AppendValue in two pieces; *)
(* when only the first fits, the exception leaves it behind.  A buffer of  *)
(* size 0 measures: nothing is written and the octets are counted.         *)
(***************************************************************************)
EXTENDS VarCodec, SequencesExt

CONSTANTS
    Sizes,          \* the sizes of the buffers a client brings
    Inputs,         \* the typed values a client writes
    Losses,         \* bound: how many octets of the data never arrive
    MaxValues,      \* bound: values written to one buffer
    Leftovers       \* what a string may hold before it is read into

\* A typed value is [type |-> t, value |-> x]: a word for the variable-length
\* integers, a sequence of octets for the rest.  No fixed width is zero, and the
\* length of a string is one that NumberOf can tell.
ASSUME InputAssumption ==
    /\ Sizes \subseteq Nat
    /\ \A v \in Inputs :
         \/ v.type \in {"VarUint", "VarInt"} /\ v.value \in Word
         \/ v.type = "Plain" /\ v.value \in Seq(Byte) \ {<<>>}
         \/ v.type = "String" /\ v.value \in Seq(Byte) /\ Len(v.value) < Huge
    /\ MaxValues \in Nat
    /\ Losses \subseteq Nat \ {0}
    /\ Leftovers \subseteq Seq(Byte)

VARIABLES
    buffer,     \* the DataBuffer: size, data, read length
    written,    \* history: the values in the data
    taken,      \* history: how many of them have been read
    torn,       \* history: the value a part of which follows them, if any
    stopped,    \* history: an exception left the reader inside a value
    out         \* what the last call returned

vars == <<buffer, written, taken, torn, stopped, out>>

\* The values that have not been read, and the remains of one.
Pending == SubSeq(written, taken + 1, Len(written))
Unread  == Pending \o torn

Result(op, count, threw, value) ==
    [op |-> op, count |-> count, threw |-> threw, value |-> value]

-----------------------------------------------------------------------------
(* Writing. *)

\* A length, and the octets if there are any (String and Blob).
StringPieces(x) ==
    VarUintPieces(WordOf(Len(x))) \o IF x = <<>> THEN <<>> ELSE <<x>>

\* The integers and floats of fixed width are their octets in network order.
PlainPieces(x) == <<x>>

\* What is appended for a value, one AppendValue at a time.
Pieces(v) ==
    CASE v.type = "VarUint" -> VarUintPieces(v.value)
      [] v.type = "VarInt"  -> VarIntPieces(v.value)
      [] v.type = "Plain"   -> PlainPieces(v.value)
      [] v.type = "String"  -> StringPieces(v.value)

Count(pieces) == Len(FlattenSeq(pieces))

\* The pieces appended before one is refused for want of room.
Accepted(pieces, room) ==
    LET fits == {n \in 0..Len(pieces) : Count(SubSeq(pieces, 1, n)) <= room}
    IN  SubSeq(pieces, 1, CHOOSE n \in fits : \A m \in fits : m <= n)

Measure(v) ==
    /\ buffer.size = 0
    /\ out' = Result("Write", Count(Pieces(v)), FALSE, v.value)
    /\ UNCHANGED <<buffer, written, taken, torn, stopped>>

Write(v) ==
    LET pieces == Pieces(v)
        done   == Accepted(pieces, buffer.size - Len(buffer.data))
        whole  == done = pieces
    IN  /\ buffer.size > 0
        /\ torn = <<>>
        /\ Len(written) < MaxValues
        /\ buffer' = [buffer EXCEPT !.data = @ \o FlattenSeq(done)]
        /\ written' = IF whole THEN Append(written, v) ELSE written
        /\ torn' = IF whole \/ done = <<>> THEN <<>> ELSE <<v>>
        /\ out' = Result("Write", IF whole THEN Count(pieces) ELSE 0, ~whole, v.value)
        /\ UNCHANGED <<taken, stopped>>

-----------------------------------------------------------------------------
(* Reading. *)

\* The outcome of a read: where the position is left and what is returned.
Outcome(threw, pos, count, value) ==
    [threw |-> threw, pos |-> pos, count |-> count, value |-> value]

Variable(r, p) == Outcome(r.threw, r.pos, r.pos - p, r.value)

\* Mutant: what follows the data is read as well.
ReadPlainUnchecked(s, p, n) ==
    Outcome(FALSE, p + n, n, Take(s \o [i \in 1..n |-> 0], p, n))

ReadPlain(s, p, n) ==
    IF p + n > Len(s) THEN Outcome(TRUE, p, 0, <<>>)
    ELSE Outcome(FALSE, p + n, n, Take(s, p, n))

\* Mutant: the octets of the length field are not counted.
ReadStringNoField(s, p, held) ==
    LET length == ReadVarUint(s, p)
        n      == NumberOf(length.value)
    IN  IF length.threw THEN Outcome(TRUE, length.pos, 0, <<>>)
        ELSE IF length.pos + n > Len(s) THEN Outcome(TRUE, length.pos, 0, <<>>)
        ELSE Outcome(FALSE, length.pos + n, Len(held) + n,
                     held \o Take(s, length.pos, n))

\* The octets are added to those the string holds, and the octets returned
\* are the length field's and the whole string's.
ReadString(s, p, held) ==
    LET length == ReadVarUint(s, p)
        n      == NumberOf(length.value)
    IN  IF length.threw THEN Outcome(TRUE, length.pos, 0, <<>>)
        ELSE IF length.pos + n > Len(s) THEN Outcome(TRUE, length.pos, 0, <<>>)
        ELSE Outcome(FALSE, length.pos + n, length.pos - p + Len(held) + n,
                     held \o Take(s, length.pos, n))

ReadAs(type, width, held) ==
    LET s == buffer.data
        p == buffer.read
    IN  CASE type = "VarUint" -> Variable(ReadVarUint(s, p), p)
          [] type = "VarInt"  -> Variable(ReadVarInt(s, p), p)
          [] type = "Plain"   -> ReadPlain(s, p, width)
          [] type = "String"  -> ReadString(s, p, held)

\* What a variable holds before it is read into matters for a string only.
Held(v) == IF v.type = "String" THEN Leftovers ELSE {<<>>}

\* The reader asks for the type of the next value, or for any type when there
\* is none, and stops when it is left inside a value.
Read(v, held) ==
    LET r == ReadAs(v.type, Len(v.value), held)
    IN  /\ ~stopped
        /\ Unread # <<>> => v = Head(Unread)
        /\ buffer' = [buffer EXCEPT !.read = r.pos]
        /\ taken' = IF r.threw THEN taken ELSE taken + 1
        /\ stopped' = (r.threw /\ r.pos # buffer.read)
        /\ out' = Result("Read", r.count, r.threw, r.value)
        /\ UNCHANGED <<written, torn>>

-----------------------------------------------------------------------------
(* The client and its transport. *)

Supply(n) ==
    /\ buffer' = [size |-> n, data |-> <<>>, read |-> 0]
    /\ written' = <<>> /\ taken' = 0 /\ torn' = <<>> /\ stopped' = FALSE
    /\ out' = Result("Client", 0, FALSE, <<>>)

\* The last n octets are lost, and with them the last value.
Lose(n) ==
    /\ torn = <<>> /\ Pending # <<>>
    /\ n < Count(Pieces(Last(written)))
    /\ buffer' = [buffer EXCEPT !.data = SubSeq(@, 1, Len(@) - n)]
    /\ written' = Front(written)
    /\ torn' = <<Last(written)>>
    /\ out' = Result("Client", 0, FALSE, <<>>)
    /\ UNCHANGED <<taken, stopped>>

Init ==
    /\ buffer = [size |-> 0, data |-> <<>>, read |-> 0]
    /\ written = <<>> /\ taken = 0
    /\ torn = <<>>
    /\ stopped = FALSE
    /\ out = Result("Client", 0, FALSE, <<>>)

Next ==
    \/ \E n \in Sizes : Supply(n)
    \/ \E n \in Losses : Lose(n)
    \/ \E v \in Inputs : Measure(v)
    \/ \E v \in Inputs : Write(v)
    \/ \E v \in Inputs : \E held \in Held(v) : Read(v, held)

Spec == Init /\ [][Next]_vars

-----------------------------------------------------------------------------
(* Properties. *)

\* The type invariant.
TypeOK ==
    /\ buffer.size \in Nat /\ buffer.data \in Seq(Byte)
    /\ Len(buffer.data) <= buffer.size
    /\ buffer.read \in 0..Len(buffer.data)
    /\ written \in Seq(Inputs) /\ taken \in Nat /\ torn \in Seq(Inputs) /\ stopped \in BOOLEAN

\* A value is read back exactly as it was written, and what a write or a
\* transport left of one is refused: the encodings of a type are prefix-free
\* (Serializer::Write against Deserializer::Read).
ReadsBack ==
    [][\A v \in Inputs : \A held \in Held(v) : Read(v, held) =>
          IF Pending = <<>> THEN out'.threw
          ELSE ~out'.threw /\ out'.value =
                  (IF v.type = "String" THEN held \o v.value ELSE v.value)]_vars

\* gs_deserializer.cpp:591 and 627: what Read returns is the "Number of octets
\* read from the buffer", whatever the variable it reads into held before.
CountsOctetsRead ==
    [][\A v \in Inputs : \A held \in Held(v) :
          Read(v, held) /\ ~out'.threw =>
              out'.count = buffer'.read - buffer.read]_vars

\* So it is for a variable that held nothing, as all those of a decoder, which
\* subtracts such counts from the length of an object.
FreshCountsExact ==
    [][\A v \in Inputs : \A held \in Held(v) :
          Read(v, held) /\ held = <<>> /\ ~out'.threw =>
              out'.count = buffer'.read - buffer.read]_vars
=============================================================================
