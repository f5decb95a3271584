------------------------------ MODULE HalfFloat ------------------------------
(***************************************************************************)
(* gs::FloatToHalfFloat and gs::HalfFloatToFloat, and a Float16 on its way *)
(* through a Serializer (which narrows it to 16 bits) and a Deserializer   *)
(* (which widens it again).                                                *)
(*                                                                         *)
(* A float is the three fields of its 32 bits; a half is the number its 16 *)
(* bits make, because narrowing adds one to it.                            *)
(***************************************************************************)
EXTENDS Integers

CONSTANTS
    Floats,     \* floats that a program writes
    Halves,     \* halves that arrive from a peer
    Nothing     \* no half yet

Exponent == 0..(2^8 - 1)
Mantissa == 0..(2^23 - 1)
Float    == [sign : {0, 1}, exponent : Exponent, mantissa : Mantissa]
Half     == 0..(2^16 - 1)

ASSUME FloatAssumption ==
    /\ Floats \subseteq Float
    /\ Halves \subseteq Half
    /\ Nothing \notin Half

-----------------------------------------------------------------------------
(* The fields of a half.                                                   *)

Single(s, e, m) == [sign |-> s, exponent |-> e, mantissa |-> m]

SignOf(h)     == h \div 32768
ExponentOf(h) == (h \div 1024) % 32
MantissaOf(h) == h % 1024

Infinity == 31744   \* inf_value in FloatToHalfFloat
QuietNaN == 32256   \* nan_value

\* 2^0 to 2^10.
Power == <<1, 2, 4, 8, 16, 32, 64, 128, 256, 512, 1024>>

\* A word of at most eleven bits, shifted right.
ShiftRight(x, n) == IF n > 10 THEN 0 ELSE x \div Power[n + 1]

-----------------------------------------------------------------------------
(* HalfFloatToFloat.                                                       *)

\* One step of the search for the most significant bit: p.b bits have been
\* shifted out of p.m, and k more are if any bit is set above them.
Search(p, k) ==
    IF p.m >= Power[k + 1] THEN [b |-> p.b + k, m |-> ShiftRight(p.m, k)] ELSE p

\* Mutant: the search does not look at steps of two.
MsbCoarse(m) == Search(Search(Search([b |-> 0, m |-> m], 8), 4), 1).b

Msb(m) == Search(Search(Search(Search([b |-> 0, m |-> m], 8), 4), 2), 1).b

\* Mutant: the leading bit stays in the mantissa.
PromotedUnmasked(s, m) ==
    LET up == 10 - Msb(m)
    IN  Single(s, 113 - up, m * 8192 * Power[up + 1])

\* The leading bit of a subnormal becomes the implicit one.
Promoted(s, m) ==
    LET up == 10 - Msb(m)
    IN  Single(s, 113 - up, (m * 8192 * Power[up + 1]) % 8388608)

HalfFloatToFloat(h) ==
    LET s == SignOf(h)
        e == ExponentOf(h)
        m == MantissaOf(h)
    IN  IF e = 31 THEN Single(s, 255, IF m = 0 THEN 0 ELSE 4194304)
        ELSE IF e # 0 THEN Single(s, e + 112, m * 8192)
        ELSE IF m = 0 THEN Single(s, 0, 0)
        ELSE Promoted(s, m)

-----------------------------------------------------------------------------
(* FloatToHalfFloat.                                                       *)

\* Mutant: the implicit bit is forgotten.
SubnormalNoLeading(m, n) ==
    IF n < 32 THEN {ShiftRight(m, n)} ELSE {ShiftRight(m, n % 32), 0}

\* A shift by the width of the word or more is undefined: a machine that takes
\* the count modulo 32 shifts by that, a compiler may give zero.
Subnormal(m, n) ==
    IF n < 32 THEN {ShiftRight(1024 + m, n)} ELSE {ShiftRight(1024 + m, n % 32), 0}

\* The bits of the mantissa that are kept, and the first that is not.
Kept(f)     == f.mantissa \div 8192
RoundBit(f) == (f.mantissa \div 4096) % 2

\* Mutant: what rounds up is the whole of the mantissa that is lost.
MagnitudesUp(f) ==
    IF f.exponent = 255 THEN {IF f.mantissa = 0 THEN Infinity ELSE QuietNaN}
    ELSE IF f.exponent > 142 THEN {Infinity}
    ELSE IF f.exponent >= 113
    THEN {(f.exponent - 112) * 1024 + Kept(f) + (IF f.mantissa % 8192 = 0 THEN 0 ELSE 1)}
    ELSE IF f.exponent = 0 THEN {0}
    ELSE Subnormal(Kept(f), 113 - f.exponent)

\* Mutant: the carry of the rounding is lost from the exponent.
MagnitudesNoCarry(f) ==
    IF f.exponent = 255 THEN {IF f.mantissa = 0 THEN Infinity ELSE QuietNaN}
    ELSE IF f.exponent > 142 THEN {Infinity}
    ELSE IF f.exponent >= 113
    THEN {(f.exponent - 112) * 1024 + ((Kept(f) + RoundBit(f)) % 1024)}
    ELSE IF f.exponent = 0 THEN {0}
    ELSE Subnormal(Kept(f), 113 - f.exponent)

\* The halves without their sign that it may return.
Magnitudes(f) ==
    IF f.exponent = 255 THEN {IF f.mantissa = 0 THEN Infinity ELSE QuietNaN}
    ELSE IF f.exponent > 142 THEN {Infinity}
    ELSE IF f.exponent >= 113 THEN {(f.exponent - 112) * 1024 + Kept(f) + RoundBit(f)}
    ELSE IF f.exponent = 0 THEN {0}
    ELSE Subnormal(Kept(f), 113 - f.exponent)

FloatToHalfFloat(f) == {f.sign * 32768 + h : h \in Magnitudes(f)}

-----------------------------------------------------------------------------
(* A Float16 that is written, read, and written again.                     *)

VARIABLES
    value,      \* the float in the program
    half,       \* the half in the buffer
    turn        \* what happens next: "write" or "read"

vars == <<value, half, turn>>

Init ==
    \/ value \in Floats /\ half = Nothing /\ turn = "write"
    \/ value = Single(0, 0, 0) /\ half \in Halves /\ turn = "read"

\* Serializer::Write(DataBuffer &, const Float16 &)
Write ==
    /\ turn = "write"
    /\ half' \in FloatToHalfFloat(value)
    /\ turn' = "read"
    /\ UNCHANGED value

\* Deserializer::Read(DataBuffer &, Float16 &)
Read ==
    /\ turn = "read"
    /\ value' = HalfFloatToFloat(half)
    /\ turn' = "write"
    /\ UNCHANGED half

Next == Write \/ Read

Spec == Init /\ [][Next]_vars

-----------------------------------------------------------------------------
(* What the formats mean, independently of the code.                       *)

\* Magnitudes of floats are ordered as the numbers their bits make.
Rank(f) == f.exponent * 8388608 + f.mantissa

MagnitudeOf(h) == h % 32768
IsNaN(h)       == MagnitudeOf(h) > Infinity
IsFinite(h)    == MagnitudeOf(h) < Infinity

\* A finite half is significand * 2^scale / 2^24, and so is a float that is
\* not subnormal, over 2^149.
HalfSignificand(h) == MantissaOf(h) + (IF ExponentOf(h) = 0 THEN 0 ELSE 1024)
HalfScale(h)       == IF ExponentOf(h) = 0 THEN 0 ELSE ExponentOf(h) - 1
FloatSignificand(f) == f.mantissa + 8388608
FloatScale(f)       == f.exponent - 1

\* They are the same number.
SameNumber(h, f) ==
    IF HalfSignificand(h) = 0 THEN Rank(f) = 0
    ELSE LET up == HalfScale(h) + 125 - FloatScale(f)
         IN  /\ f.exponent \in 1..254 /\ up \in 0..23
             /\ FloatSignificand(f) = HalfSignificand(h) * 2^up

\* The rank of a half, infinity counting as the number it is rounded from.
RankOf(h) ==
    IF MagnitudeOf(h) = Infinity THEN 143 * 8388608
    ELSE Rank(HalfFloatToFloat(MagnitudeOf(h)))

-----------------------------------------------------------------------------
(* Properties.                                                             *)

\* The type invariant.
TypeOK ==
    /\ value \in Float
    /\ half \in Half \cup {Nothing}
    /\ turn \in {"write", "read"}
    /\ turn = "read" => half \in Half

\* A half that is read is widened to the number it stands for, an infinity to
\* an infinity and a NaN to a NaN (half_float.cpp:184-281).
Exact ==
    [][turn = "read" =>
        IF IsNaN(half) THEN value'.exponent = 255 /\ value'.mantissa # 0
        ELSE /\ value'.sign = SignOf(half)
             /\ IF IsFinite(half) THEN SameNumber(half, value')
                ELSE value'.exponent = 255 /\ value'.mantissa = 0]_vars

\* What has been read can be written again without change, so that an object
\* may be decoded and encoded any number of times; only the NaNs all become one
\* (half_float.cpp:79-164; test_half_float.cpp does this for eleven halves).
RoundTrip ==
    [][turn = "write" /\ half # Nothing =>
        \/ half' = half
        \/ IsNaN(half) /\ half' = SignOf(half) * 32768 + QuietNaN]_vars

\* No half lies strictly between a number and the half it is written as, and
\* the sign is kept: subnormals are cut, but to the next half
\* (half_float.cpp:133-146).
Adjacent ==
    [][turn = "write" /\ value.exponent # 255 =>
        LET h == MagnitudeOf(half')
        IN  /\ SignOf(half') = value.sign
            /\ h \in 0..Infinity
            /\ h > 0 => Rank(value) > RankOf(h - 1)
            /\ h < Infinity => Rank(value) < RankOf(h + 1)]_vars

\* A number within the range of normal halves is written as the nearest one: it
\* is at most half of the last place away, also where rounding carries into
\* the exponent or up to infinity (half_float.cpp:121-123).
Nearest ==
    [][turn = "write" /\ value.exponent \in 113..142 =>
        LET h == MagnitudeOf(half')
        IN  Rank(value) - RankOf(h) \in -4096..4095]_vars

\* The larger of two numbers is not written as the smaller half: an order of
\* positions in the scene survives being sent.
Monotone ==
    turn = "write" /\ half = Nothing =>
        \A f \in Floats :
            f.exponent # 255 /\ value.exponent # 255 /\ Rank(value) <= Rank(f) =>
                \A low \in Magnitudes(value), high \in Magnitudes(f) : low <= high

\* A number that is really small becomes zero or a subnormal half
\* (half_float.cpp:137-140: the shift "might produce a 0 value if the number is
\* really small").
SmallStaysSmall ==
    [][turn = "write" /\ value.exponent < 113 => MagnitudeOf(half') < 1024]_vars
=============================================================================
