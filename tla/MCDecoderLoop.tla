---------------------------- MODULE MCDecoderLoop ----------------------------
(* Octets that begin with objects and go on with anything. *)
EXTENDS DecoderLoop

Zeros(n) == [i \in 1..n |-> 0]

\* An Object1 whose length field is longer than it need be, with a parent of
\* one octet and an octet more; the same of a Head1 with a HeadIPD1.
LongObject1 == <<3, 128, 36, 5>> \o Zeros(33) \o <<4, 4>>
LongHead1   == <<1, 128, 40, 5>> \o Zeros(32) \o <<192, 128, 2, 2, 0, 0, 4>>

\* A HeadIPD1 of length 2^64 - n, and an Object1 with a parent.
WrappingLength(n)     == <<226>> \o [i \in 1..7 |-> 255] \o <<256 - n>>
WrappingIPD1(n, last) == <<192, 128, 2>> \o WrappingLength(n) \o <<0, last>>
WrappingObject1(n)    == <<3>> \o WrappingLength(n) \o <<5>> \o Zeros(33) \o <<4>>

\* After an object of three or six octets, the position goes back to the first
\* octet, into one of the objects or before the first octet; the length field
\* read as the tag of another object; a Head1 with a HeadIPD1 of such a length.
Wraps == {<<4, k>> \o Zeros(k) \o WrappingIPD1(n, last) :
              k \in {1, 4}, n \in {1, 2, 8, 9, 12, 13, 15, 16, 18, 19}, last \in {0, 4}}
         \cup {WrappingObject1(n) : n \in {1, 2, 9, 36}}
         \cup {<<1, 36, 5>> \o Zeros(32) \o WrappingIPD1(n, 0) : n \in {1, 9, 12, 36}}

Starts == {<<>>, <<192, 128, 2, 2, 9, 9>>, <<4, 2, 1, 3>>, <<4, 0>>,
           LongObject1, LongHead1, <<192, 128, 0, 5, 7>>}

MCBytes  == {0, 1, 4, 128, 255}
Ends(n)  == UNION {[1..i -> MCBytes] : i \in 0..n}
MCInputs == {s \o t : s \in Starts, t \in Ends(3)} \cup {s \o t : s \in Wraps, t \in Ends(2)}

\* An object of two octets and a HeadIPD1 after which the position is 0.
MCWrapping == {<<4, 0>> \o WrappingIPD1(14, 0)}
=============================================================================
