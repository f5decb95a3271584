--------------------------- MODULE MCSerialization ---------------------------
(* Values on both sides of every boundary between two forms. *)
EXTENDS Serialization

W(x, a, b, c, d) == <<x, x, x, x, a, b, c, d>>

\* Around 2^6, 2^7, 2^13, 2^14, 2^20, 2^21, 2^31, 2^32.
Bounds ==
    {W(0, 0, 0, 0, 63), W(0, 0, 0, 0, 64), W(0, 0, 0, 0, 127), W(0, 0, 0, 0, 128),
     W(0, 0, 0, 31, 255), W(0, 0, 0, 32, 0), W(0, 0, 0, 63, 255), W(0, 0, 0, 64, 0),
     W(0, 0, 15, 255, 255), W(0, 0, 16, 0, 0), W(0, 0, 31, 255, 255), W(0, 0, 32, 0, 0),
     W(0, 127, 255, 255, 255), W(0, 128, 0, 0, 0), W(0, 255, 255, 255, 255),
     <<0, 0, 0, 1, 0, 0, 0, 0>>}

\* Their complements are the negative values around the same boundaries.
Negated == {[i \in 1..8 |-> 255 - w[i]] : w \in Bounds}

MCInputs ==
    [type : {"VarUint", "VarInt"}, value : Bounds \cup Negated]
        \cup [type : {"Plain"}, value : {<<7>>, <<225, 1>>, <<226, 0, 0, 1>>}]
        \cup [type : {"String"}, value : {<<>>, <<5>>, <<192, 225, 226>>}]

\* A string that is read into is empty or holds an octet already.
MCLeftovers == {<<>>, <<9>>}

\* No action reads out.
MCView == <<buffer, written, taken, torn, stopped>>
=============================================================================
