----------------------------- MODULE MCHalfFloat -----------------------------
(* Every half; floats on both sides of every bound that the code compares.  *)
EXTENDS HalfFloat

MCHalves == Half

\* Nothing, the last bit, and the bits around the one that rounds.
Edges == {0, 1, 4095, 4096, 4097, 8191, 8192, 12287, 12288, 4194303, 4194304,
          8380416, 8384511, 8384512, 8388607}

FloatsOf(exponents) == [sign : {0, 1}, exponent : exponents, mantissa : Edges]

\* The exponents whose shift is defined.
MCFloats == FloatsOf({0} \cup 82..255)

MCSmallFloats == FloatsOf(0..112)
=============================================================================
