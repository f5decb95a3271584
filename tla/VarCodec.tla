------------------------------ MODULE VarCodec ------------------------------
(***************************************************************************)
(* The variable-length integers of the protocol, VarUint and VarInt, as    *)
(* gs::Serializer writes and gs::Deserializer reads them.  A 64-bit value  *)
(* is a word of eight octets, most significant first; a signed value is    *)
(* the word of its two's complement.  The first octet says how many follow:*)
(*   0xxxxxxx none, 10xxxxxx one, 110xxxxx two, 0xE1 four, 0xE2 eight.     *)
(* There are no RECURSIVE operators here, so that VarCodecProofs can reach *)
(* every word.                                                             *)
(***************************************************************************)
EXTENDS Integers, Sequences

Byte == 0..255
Word == [1..8 -> Byte]

\* The first n octets of w are all x.
Leads(w, n, x) == \A i \in 1..n : w[i] = x

\* The last n octets of w.
Tail8(w, n) == [i \in 1..n |-> w[8 - n + i]]

-----------------------------------------------------------------------------
(* Writing: the octet strings handed one after the other to AppendValue.   *)

\* The 21-bit, 32-bit and 64-bit forms are written as two.
Three(w)    == <<<<192 + (w[6] % 32)>>, <<w[7], w[8]>>>>
WithE1(w)   == <<<<225>>, Tail8(w, 4)>>
WithE2(w)   == <<<<226>>, w>>

\* Mutant: the bound of the 14-bit form is one too high.
VarUintPiecesLoose(w) ==
    IF Leads(w, 7, 0) /\ w[8] < 128 THEN <<<<w[8]>>>>
    ELSE IF Leads(w, 6, 0) /\ w[7] <= 64 THEN <<<<128 + (w[7] % 64), w[8]>>>>
    ELSE IF Leads(w, 5, 0) /\ w[6] < 32 THEN Three(w)
    ELSE IF Leads(w, 4, 0) THEN WithE1(w)
    ELSE WithE2(w)

VarUintPieces(w) ==
    IF Leads(w, 7, 0) /\ w[8] < 128 THEN <<<<w[8]>>>>
    ELSE IF Leads(w, 6, 0) /\ w[7] < 64 THEN <<<<128 + w[7], w[8]>>>>
    ELSE IF Leads(w, 5, 0) /\ w[6] < 32 THEN Three(w)
    ELSE IF Leads(w, 4, 0) THEN WithE1(w)
    ELSE WithE2(w)

\* The top octets of w, and the bits of the next one from its sign bit on, are
\* all equal: w is the sign extension of what follows.  half is the value of
\* that sign bit within its octet.
Extends(w, n, half) ==
    \/ Leads(w, n, 0) /\ w[n + 1] < half
    \/ Leads(w, n, 255) /\ w[n + 1] >= 256 - half

VarIntPieces(w) ==
    IF Extends(w, 7, 64) THEN <<<<w[8] % 128>>>>
    ELSE IF Extends(w, 6, 32) THEN <<<<128 + (w[7] % 64), w[8]>>>>
    ELSE IF Extends(w, 5, 16) THEN Three(w)
    ELSE IF Extends(w, 4, 128) THEN WithE1(w)
    ELSE WithE2(w)

\* What the pieces put on the wire.
Joined(pieces) == IF Len(pieces) = 1 THEN pieces[1] ELSE pieces[1] \o pieces[2]

-----------------------------------------------------------------------------
(* Reading.                                                                *)

\* The octets that follow a first octet x; -1: no value starts with x.
Following(x) ==
    IF x < 128 THEN 0
    ELSE IF x < 192 THEN 1
    ELSE IF x < 224 THEN 2
    ELSE IF x = 225 THEN 4
    ELSE IF x = 226 THEN 8
    ELSE -1

\* A word of the octets t, those above filled with x.
Filled(t, x) == [i \in 1..8 |-> IF i <= 8 - Len(t) THEN x ELSE t[i - (8 - Len(t))]]

\* The bits of a first octet that belong to the value.
Payload(x) ==
    IF x < 128 THEN x ELSE IF x < 192 THEN x - 128 ELSE x - 192

\* The word of octets t, the first of which said how many there are.
VarUintWord(t) ==
    IF t[1] < 224 THEN Filled(<<Payload(t[1])>> \o Tail(t), 0) ELSE Filled(Tail(t), 0)

\* The sign bit of a short form, and the payload's octet once it is extended.
SignBit(x)  == IF x < 128 THEN 64 ELSE IF x < 192 THEN 32 ELSE 16
Extended(x) == IF Payload(x) < SignBit(x) THEN Payload(x)
               ELSE Payload(x) + 256 - 2 * SignBit(x)

VarIntWord(t) ==
    IF t[1] < 224
    THEN Filled(<<Extended(t[1])>> \o Tail(t),
                IF Payload(t[1]) < SignBit(t[1]) THEN 0 ELSE 255)
    ELSE Filled(Tail(t), IF t[2] < 128 THEN 0 ELSE 255)

\* One read of the data s at position p: how it ended and where it left the
\* position.  The first octet is read before the others are asked for, so a
\* read that throws for want of them has moved by one.
Take(s, p, n) == [i \in 1..n |-> s[p + i]]

ReadVar(s, p, Value(_)) ==
    LET n == Following(s[p + 1])
    IN  IF p + 1 > Len(s) THEN [threw |-> TRUE, pos |-> p, value |-> <<>>]
        ELSE IF n = -1 \/ p + 1 + n > Len(s)
        THEN [threw |-> TRUE, pos |-> p + 1, value |-> <<>>]
        ELSE [threw |-> FALSE, pos |-> p + 1 + n, value |-> Value(Take(s, p, n + 1))]

ReadVarUint(s, p) == ReadVar(s, p, VarUintWord)
ReadVarInt(s, p)  == ReadVar(s, p, VarIntWord)

-----------------------------------------------------------------------------
(* Words as numbers, for the counts and lengths the library handles.  The  *)
(* data a length is held against is taken to be shorter than 2^24 octets:  *)
(* what matters of a length is then its value, if it is below 2^24 or      *)
(* less than 2^24 away from 2^64, and that it is neither for all others.   *)

SizeModulus == 67108864     \* stands for 2^64
Huge        == 16777216     \* stands for every value in between

Low24(w)    == 65536 * w[6] + 256 * w[7] + w[8]
WordOf(n)   == <<0, 0, 0, 0, 0, n \div 65536, (n \div 256) % 256, n % 256>>
NumberOf(w) == IF Leads(w, 5, 0) THEN Low24(w)
               ELSE IF Leads(w, 5, 255) THEN SizeModulus - Huge + Low24(w)
               ELSE Huge

\* A std::size_t as the integer it stands for in a sum that may wrap, and back.
Signed(n)   == IF n > Huge THEN n - SizeModulus ELSE n
Unsigned(n) == IF n < 0 THEN n + SizeModulus ELSE n
=============================================================================
