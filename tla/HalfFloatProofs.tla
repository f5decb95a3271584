-------------------------- MODULE HalfFloatProofs --------------------------
(***************************************************************************)
(* Every property of HalfFloat, for every half, and for every float whose  *)
(* narrowing asks for no shift beyond the word.  The proofs go through the *)
(* rank of a half (RankOf), the one of the float it is widened to: it is a *)
(* linear function of the half from each power of two to the next, and a   *)
(* half is the result of narrowing a float if their ranks are close.       *)
(*                                                                         *)
(* 8192 = 2^13, 8388608 = 2^23, 939524096 = 112 * 2^23.  Leaves are given  *)
(* to SMT alone: numbers of this size are beyond Zenon.                    *)
(***************************************************************************)
EXTENDS HalfFloat, TLAPS

-----------------------------------------------------------------------------
(* The fields of halves and floats.                                        *)

LEMMA HalfParts ==
    ASSUME NEW h \in Half
    PROVE  /\ SignOf(h) \in {0, 1} /\ ExponentOf(h) \in 0..31
           /\ MantissaOf(h) \in Nat /\ MantissaOf(h) < 1024
           /\ h = 32768 * SignOf(h) + (1024 * ExponentOf(h) + MantissaOf(h))
           /\ MagnitudeOf(h) = 1024 * ExponentOf(h) + MantissaOf(h)
BY SMT DEF Half, SignOf, ExponentOf, MantissaOf, MagnitudeOf

LEMMA Signed ==
    ASSUME NEW s \in {0, 1}, NEW x \in Nat, x < 32768, NEW h, h = s * 32768 + x
    PROVE  h \in Half /\ SignOf(h) = s /\ MagnitudeOf(h) = x
BY SMT DEF Half, SignOf, MagnitudeOf

LEMMA FloatParts ==
    ASSUME NEW f \in Float
    PROVE  /\ f.sign \in {0, 1} /\ f.exponent \in Nat /\ f.exponent <= 255
           /\ f.mantissa \in Nat /\ f.mantissa < 8388608
           /\ Kept(f) \in Nat /\ Kept(f) < 1024 /\ RoundBit(f) \in {0, 1}
           /\ 8192 * Kept(f) + 4096 * RoundBit(f) <= f.mantissa
           /\ f.mantissa < 8192 * Kept(f) + 4096 * RoundBit(f) + 4096
<1> DEFINE m == f.mantissa
<1>1. f.sign \in {0, 1} /\ f.exponent \in Exponent /\ m \in Mantissa
  BY SMT DEF Float
<1> HIDE DEF m
<1>2. /\ m \in Nat /\ m < 8388608
      /\ m \div 8192 \in Nat /\ m \div 8192 < 1024
      /\ (m \div 4096) % 2 \in {0, 1}
      /\ 8192 * (m \div 8192) + 4096 * ((m \div 4096) % 2) <= m
      /\ m < 8192 * (m \div 8192) + 4096 * ((m \div 4096) % 2) + 4096
  BY SMT, <1>1 DEF Mantissa
<1>3. f.exponent \in Nat /\ f.exponent <= 255
  BY SMT, <1>1 DEF Exponent
<1> QED BY SMT, <1>1, <1>2, <1>3 DEF Kept, RoundBit, m

LEMMA SingleFloat ==
    ASSUME NEW s \in {0, 1}, NEW e \in Nat, e <= 255, NEW m \in Nat, m < 8388608
    PROVE  /\ Single(s, e, m) \in Float /\ Single(s, e, m).sign = s
           /\ Single(s, e, m).exponent = e /\ Single(s, e, m).mantissa = m
           /\ Rank(Single(s, e, m)) = e * 8388608 + m
<1>1. /\ Single(s, e, m).sign = s
      /\ Single(s, e, m).exponent = e /\ Single(s, e, m).mantissa = m
  BY SMT DEF Single
<1>2. e \in Exponent /\ m \in Mantissa
  BY SMT DEF Exponent, Mantissa
<1>3. Single(s, e, m) \in Float
  BY SMT, <1>2 DEF Single, Float
<1> QED BY SMT, <1>1, <1>3 DEF Rank

\* The search finds the most significant bit.
LEMMA MsbFound ==
    ASSUME NEW m \in Nat, 1 <= m, m < 1024
    PROVE  \/ Msb(m) = 0 /\ m = 1
           \/ Msb(m) = 1 /\ 2 <= m /\ m < 4
           \/ Msb(m) = 2 /\ 4 <= m /\ m < 8
           \/ Msb(m) = 3 /\ 8 <= m /\ m < 16
           \/ Msb(m) = 4 /\ 16 <= m /\ m < 32
           \/ Msb(m) = 5 /\ 32 <= m /\ m < 64
           \/ Msb(m) = 6 /\ 64 <= m /\ m < 128
           \/ Msb(m) = 7 /\ 128 <= m /\ m < 256
           \/ Msb(m) = 8 /\ 256 <= m /\ m < 512
           \/ Msb(m) = 9 /\ 512 <= m /\ m < 1024
<1> DEFINE p(b, x) == [b |-> b, m |-> x]
<1> HIDE DEF p
<1>1. /\ \A b, x \in Nat : x >= 256 => Search(p(b, x), 8) = p(b + 8, x \div 256)
      /\ \A b, x \in Nat : x < 256 => Search(p(b, x), 8) = p(b, x)
  BY SMT DEF Search, ShiftRight, Power, p
<1>2. /\ \A b, x \in Nat : x >= 16 => Search(p(b, x), 4) = p(b + 4, x \div 16)
      /\ \A b, x \in Nat : x < 16 => Search(p(b, x), 4) = p(b, x)
  BY SMT DEF Search, ShiftRight, Power, p
<1>3. /\ \A b, x \in Nat : x >= 4 => Search(p(b, x), 2) = p(b + 2, x \div 4)
      /\ \A b, x \in Nat : x < 4 => Search(p(b, x), 2) = p(b, x)
  BY SMT DEF Search, ShiftRight, Power, p
<1>4. /\ \A b, x \in Nat : x >= 2 => Search(p(b, x), 1) = p(b + 1, x \div 2)
      /\ \A b, x \in Nat : x < 2 => Search(p(b, x), 1) = p(b, x)
  BY SMT DEF Search, ShiftRight, Power, p
<1>5. \A b, x : p(b, x).b = b
  BY SMT DEF p
\* What the step of one finds.
<1>6. ASSUME NEW b \in Nat, NEW x \in Nat, x < 4
      PROVE  /\ x < 2 => Search(p(b, x), 1).b = b
             /\ x >= 2 => Search(p(b, x), 1).b = b + 1
  BY SMT, <1>4, <1>5
<1>7. ASSUME NEW b \in Nat, NEW x \in Nat, x < 16
      PROVE  LET r == Search(Search(p(b, x), 2), 1).b
             IN  /\ x < 2 => r = b
                 /\ 2 <= x /\ x < 4 => r = b + 1
                 /\ 4 <= x /\ x < 8 => r = b + 2
                 /\ 8 <= x => r = b + 3
  <2>1. CASE x < 4
    <3>1. Search(p(b, x), 2) = p(b, x)
      BY SMT, <1>3, <2>1
    <3> QED BY SMT, <2>1, <3>1, <1>6
  <2>2. CASE x >= 4
    <3> DEFINE z == x \div 4
               c == b + 2
    <3>4. z \in Nat /\ 4 * z <= x /\ x < 4 * z + 4
      BY SMT, <2>2
    <3>0. c \in Nat
      BY SMT
    <3>2. Search(p(b, x), 2) = p(c, z)
      BY SMT, <1>3, <2>2
    <3> HIDE DEF z, c
    <3>1. z \in Nat /\ z < 4 /\ (x < 8 <=> z < 2)
      BY SMT, <1>7, <3>4
    <3>3. /\ z < 2 => Search(p(c, z), 1).b = c
          /\ z >= 2 => Search(p(c, z), 1).b = c + 1
      BY SMT, <3>0, <3>1, <1>6
    <3> QED BY SMT, <2>2, <3>1, <3>2, <3>3 DEF c
  <2> QED BY SMT, <2>1, <2>2
<1>8. ASSUME NEW b \in Nat, NEW x \in Nat, x < 256
      PROVE  LET r == Search(Search(Search(p(b, x), 4), 2), 1).b
             IN  /\ x < 2 => r = b
                 /\ 2 <= x /\ x < 4 => r = b + 1
                 /\ 4 <= x /\ x < 8 => r = b + 2
                 /\ 8 <= x /\ x < 16 => r = b + 3
                 /\ 16 <= x /\ x < 32 => r = b + 4
                 /\ 32 <= x /\ x < 64 => r = b + 5
                 /\ 64 <= x /\ x < 128 => r = b + 6
                 /\ 128 <= x => r = b + 7
  <2>1. CASE x < 16
    <3>1. Search(p(b, x), 4) = p(b, x)
      BY SMT, <1>2, <2>1
    <3> QED BY SMT, <2>1, <3>1, <1>7
  <2>2. CASE x >= 16
    <3> DEFINE z == x \div 16
               c == b + 4
               r == Search(Search(p(c, z), 2), 1).b
    <3>1. c \in Nat
      BY SMT
    <3>5. z \in Nat /\ 16 * z <= x /\ x < 16 * z + 16
      BY SMT, <2>2
    <3>3. Search(p(b, x), 4) = p(c, z)
      BY SMT, <1>2, <2>2
    <3> HIDE DEF z, c
    <3>2. /\ z \in Nat /\ z < 16
          /\ (x < 32 <=> z < 2) /\ (x < 64 <=> z < 4) /\ (x < 128 <=> z < 8)
      BY SMT, <1>8, <3>5
    <3>4. /\ z < 2 => r = c
          /\ 2 <= z /\ z < 4 => r = c + 1
          /\ 4 <= z /\ z < 8 => r = c + 2
          /\ 8 <= z => r = c + 3
      BY SMT, <3>1, <3>2, <1>7
    <3> QED BY SMT, <2>2, <3>2, <3>3, <3>4 DEF c
  <2> QED BY SMT, <2>1, <2>2
<1>9. Msb(m) = Search(Search(Search(Search(p(0, m), 8), 4), 2), 1).b
  BY SMT DEF Msb, p
<1>10. CASE m < 256
  <2> DEFINE c == 0
             r == Search(Search(Search(p(c, m), 4), 2), 1).b
  <2>1. c \in Nat /\ Search(p(c, m), 8) = p(c, m)
    BY SMT, <1>1, <1>10
  <2>2. Msb(m) = r
    BY SMT, <2>1, <1>9
  <2> HIDE DEF c
  <2>3. /\ m < 2 => r = c
        /\ 2 <= m /\ m < 4 => r = c + 1
        /\ 4 <= m /\ m < 8 => r = c + 2
        /\ 8 <= m /\ m < 16 => r = c + 3
        /\ 16 <= m /\ m < 32 => r = c + 4
        /\ 32 <= m /\ m < 64 => r = c + 5
        /\ 64 <= m /\ m < 128 => r = c + 6
        /\ 128 <= m => r = c + 7
    BY SMT, <1>8, <1>10, <2>1
  <2> HIDE DEF r
  <2> QED BY SMT, <2>2, <2>3, <1>10 DEF c
<1>11. CASE m >= 256
  <2> DEFINE z == m \div 256
             c == 8
             r == Search(Search(Search(p(c, z), 4), 2), 1).b
  <2>1. z \in Nat /\ 256 * z <= m /\ m < 256 * z + 256
    BY SMT, <1>11
  <2>2. c \in Nat /\ Search(p(0, m), 8) = p(c, z)
    BY SMT, <1>1, <1>11
  <2>3. Msb(m) = r
    BY SMT, <2>2, <1>9
  <2> HIDE DEF z, c
  <2>4. z \in Nat /\ z < 4 /\ 1 <= z /\ z < 256 /\ (m < 512 <=> z < 2)
    BY SMT, <2>1, <1>11
  <2>5. c \in Nat /\ z \in Nat /\ z < 256
    BY SMT, <2>2, <2>4
  <2>6. /\ z < 2 => r = c
        /\ 2 <= z /\ z < 4 => r = c + 1
    BY SMT, <1>8, <2>5
  <2> HIDE DEF r
  <2> QED BY SMT, <1>11, <2>3, <2>4, <2>6 DEF c
<1> QED BY SMT, <1>10, <1>11

\* A subnormal m * 2^-24 becomes 2^(k - 24) * (1 + fraction), where k is its
\* most significant bit.
LEMMA Promotion ==
    ASSUME NEW m \in Nat, 1 <= m, m < 1024, NEW s
    PROVE  \/ 1 <= m /\ m < 2 /\ Promoted(s, m) = Single(s, 103, m * 8388608 - 8388608)
           \/ 2 <= m /\ m < 4 /\ Promoted(s, m) = Single(s, 104, m * 4194304 - 8388608)
           \/ 4 <= m /\ m < 8 /\ Promoted(s, m) = Single(s, 105, m * 2097152 - 8388608)
           \/ 8 <= m /\ m < 16 /\ Promoted(s, m) = Single(s, 106, m * 1048576 - 8388608)
           \/ 16 <= m /\ m < 32 /\ Promoted(s, m) = Single(s, 107, m * 524288 - 8388608)
           \/ 32 <= m /\ m < 64 /\ Promoted(s, m) = Single(s, 108, m * 262144 - 8388608)
           \/ 64 <= m /\ m < 128 /\ Promoted(s, m) = Single(s, 109, m * 131072 - 8388608)
           \/ 128 <= m /\ m < 256 /\ Promoted(s, m) = Single(s, 110, m * 65536 - 8388608)
           \/ 256 <= m /\ m < 512 /\ Promoted(s, m) = Single(s, 111, m * 32768 - 8388608)
           \/ 512 <= m /\ m < 1024 /\ Promoted(s, m) = Single(s, 112, m * 16384 - 8388608)
<1>1. Promoted(s, m) =
          Single(s, 103 + Msb(m), (m * 8192 * Power[(10 - Msb(m)) + 1]) % 8388608)
  <2>1. Msb(m) \in Nat
    BY SMT, MsbFound
  <2>2. 113 - (10 - Msb(m)) = 103 + Msb(m)
    BY SMT, <2>1
  <2> QED BY SMT, <2>2 DEF Promoted
<1>2. CASE Msb(m) = 0
  <2>1. /\ 1 <= m /\ m < 2
        /\ (m * 8192 * Power[(10 - Msb(m)) + 1]) % 8388608 = m * 8388608 - 8388608
        /\ 103 + Msb(m) = 103
    <3>1. 1 <= m /\ m < 2
      BY SMT, MsbFound, <1>2
    <3>2. m * 8192 * Power[(10 - Msb(m)) + 1] = m * 8388608
      BY SMT, <1>2 DEF Power
    <3>3. (m * 8388608) % 8388608 = m * 8388608 - 8388608
      BY SMT, <3>1
    <3> QED BY SMT, <1>2, <3>1, <3>2, <3>3
  <2> QED BY SMT, <1>1, <2>1
<1>3. CASE Msb(m) = 1
  <2>1. /\ 2 <= m /\ m < 4
        /\ (m * 8192 * Power[(10 - Msb(m)) + 1]) % 8388608 = m * 4194304 - 8388608
        /\ 103 + Msb(m) = 104
    <3>1. 2 <= m /\ m < 4
      BY SMT, MsbFound, <1>3
    <3>2. m * 8192 * Power[(10 - Msb(m)) + 1] = m * 4194304
      BY SMT, <1>3 DEF Power
    <3>3. (m * 4194304) % 8388608 = m * 4194304 - 8388608
      BY SMT, <3>1
    <3> QED BY SMT, <1>3, <3>1, <3>2, <3>3
  <2> QED BY SMT, <1>1, <2>1
<1>4. CASE Msb(m) = 2
  <2>1. /\ 4 <= m /\ m < 8
        /\ (m * 8192 * Power[(10 - Msb(m)) + 1]) % 8388608 = m * 2097152 - 8388608
        /\ 103 + Msb(m) = 105
    <3>1. 4 <= m /\ m < 8
      BY SMT, MsbFound, <1>4
    <3>2. m * 8192 * Power[(10 - Msb(m)) + 1] = m * 2097152
      BY SMT, <1>4 DEF Power
    <3>3. (m * 2097152) % 8388608 = m * 2097152 - 8388608
      BY SMT, <3>1
    <3> QED BY SMT, <1>4, <3>1, <3>2, <3>3
  <2> QED BY SMT, <1>1, <2>1
<1>5. CASE Msb(m) = 3
  <2>1. /\ 8 <= m /\ m < 16
        /\ (m * 8192 * Power[(10 - Msb(m)) + 1]) % 8388608 = m * 1048576 - 8388608
        /\ 103 + Msb(m) = 106
    <3>1. 8 <= m /\ m < 16
      BY SMT, MsbFound, <1>5
    <3>2. m * 8192 * Power[(10 - Msb(m)) + 1] = m * 1048576
      BY SMT, <1>5 DEF Power
    <3>3. (m * 1048576) % 8388608 = m * 1048576 - 8388608
      BY SMT, <3>1
    <3> QED BY SMT, <1>5, <3>1, <3>2, <3>3
  <2> QED BY SMT, <1>1, <2>1
<1>6. CASE Msb(m) = 4
  <2>1. /\ 16 <= m /\ m < 32
        /\ (m * 8192 * Power[(10 - Msb(m)) + 1]) % 8388608 = m * 524288 - 8388608
        /\ 103 + Msb(m) = 107
    <3>1. 16 <= m /\ m < 32
      BY SMT, MsbFound, <1>6
    <3>2. m * 8192 * Power[(10 - Msb(m)) + 1] = m * 524288
      BY SMT, <1>6 DEF Power
    <3>3. (m * 524288) % 8388608 = m * 524288 - 8388608
      BY SMT, <3>1
    <3> QED BY SMT, <1>6, <3>1, <3>2, <3>3
  <2> QED BY SMT, <1>1, <2>1
<1>7. CASE Msb(m) = 5
  <2>1. /\ 32 <= m /\ m < 64
        /\ (m * 8192 * Power[(10 - Msb(m)) + 1]) % 8388608 = m * 262144 - 8388608
        /\ 103 + Msb(m) = 108
    <3>1. 32 <= m /\ m < 64
      BY SMT, MsbFound, <1>7
    <3>2. m * 8192 * Power[(10 - Msb(m)) + 1] = m * 262144
      BY SMT, <1>7 DEF Power
    <3>3. (m * 262144) % 8388608 = m * 262144 - 8388608
      BY SMT, <3>1
    <3> QED BY SMT, <1>7, <3>1, <3>2, <3>3
  <2> QED BY SMT, <1>1, <2>1
<1>8. CASE Msb(m) = 6
  <2>1. /\ 64 <= m /\ m < 128
        /\ (m * 8192 * Power[(10 - Msb(m)) + 1]) % 8388608 = m * 131072 - 8388608
        /\ 103 + Msb(m) = 109
    <3>1. 64 <= m /\ m < 128
      BY SMT, MsbFound, <1>8
    <3>2. m * 8192 * Power[(10 - Msb(m)) + 1] = m * 131072
      BY SMT, <1>8 DEF Power
    <3>3. (m * 131072) % 8388608 = m * 131072 - 8388608
      BY SMT, <3>1
    <3> QED BY SMT, <1>8, <3>1, <3>2, <3>3
  <2> QED BY SMT, <1>1, <2>1
<1>9. CASE Msb(m) = 7
  <2>1. /\ 128 <= m /\ m < 256
        /\ (m * 8192 * Power[(10 - Msb(m)) + 1]) % 8388608 = m * 65536 - 8388608
        /\ 103 + Msb(m) = 110
    <3>1. 128 <= m /\ m < 256
      BY SMT, MsbFound, <1>9
    <3>2. m * 8192 * Power[(10 - Msb(m)) + 1] = m * 65536
      BY SMT, <1>9 DEF Power
    <3>3. (m * 65536) % 8388608 = m * 65536 - 8388608
      BY SMT, <3>1
    <3> QED BY SMT, <1>9, <3>1, <3>2, <3>3
  <2> QED BY SMT, <1>1, <2>1
<1>10. CASE Msb(m) = 8
  <2>1. /\ 256 <= m /\ m < 512
        /\ (m * 8192 * Power[(10 - Msb(m)) + 1]) % 8388608 = m * 32768 - 8388608
        /\ 103 + Msb(m) = 111
    <3>1. 256 <= m /\ m < 512
      BY SMT, MsbFound, <1>10
    <3>2. m * 8192 * Power[(10 - Msb(m)) + 1] = m * 32768
      BY SMT, <1>10 DEF Power
    <3>3. (m * 32768) % 8388608 = m * 32768 - 8388608
      BY SMT, <3>1
    <3> QED BY SMT, <1>10, <3>1, <3>2, <3>3
  <2> QED BY SMT, <1>1, <2>1
<1>11. CASE Msb(m) = 9
  <2>1. /\ 512 <= m /\ m < 1024
        /\ (m * 8192 * Power[(10 - Msb(m)) + 1]) % 8388608 = m * 16384 - 8388608
        /\ 103 + Msb(m) = 112
    <3>1. 512 <= m /\ m < 1024
      BY SMT, MsbFound, <1>11
    <3>2. m * 8192 * Power[(10 - Msb(m)) + 1] = m * 16384
      BY SMT, <1>11 DEF Power
    <3>3. (m * 16384) % 8388608 = m * 16384 - 8388608
      BY SMT, <3>1
    <3> QED BY SMT, <1>11, <3>1, <3>2, <3>3
  <2> QED BY SMT, <1>1, <2>1
<1> QED BY SMT, MsbFound, <1>2, <1>3, <1>4, <1>5, <1>6, <1>7, <1>8, <1>9, <1>10, <1>11

-----------------------------------------------------------------------------
(* Widening.                                                               *)

LEMMA Widened ==
    ASSUME NEW h \in Half
    PROVE  LET f == HalfFloatToFloat(h)
               e == ExponentOf(h)
               m == MantissaOf(h)
           IN  /\ e = 31 /\ m = 0 => f = Single(SignOf(h), 255, 0)
               /\ e = 31 /\ m # 0 => f = Single(SignOf(h), 255, 4194304)
               /\ 1 <= e /\ e <= 30 => f = Single(SignOf(h), e + 112, m * 8192)
               /\ e = 0 /\ m = 0 => f = Single(SignOf(h), 0, 0)
               /\ e = 0 /\ m # 0 => f = Promoted(SignOf(h), m)
<1>1. ExponentOf(h) \in Nat
  BY SMT, HalfParts
<1> QED BY SMT, <1>1 DEF HalfFloatToFloat

\* What a half is widened to has its sign, and is no number in between: its
\* exponent is 0, or one that a half can reach.
LEMMA WidenedType ==
    ASSUME NEW h \in Half
    PROVE  LET f == HalfFloatToFloat(h)
           IN  f \in Float /\ f.sign = SignOf(h) /\ (f.exponent = 0 \/ f.exponent >= 103)
<1> DEFINE s == SignOf(h)
           e == ExponentOf(h)
           m == MantissaOf(h)
           f == HalfFloatToFloat(h)
<1>1. s \in {0, 1} /\ e \in Nat /\ e <= 31 /\ m \in Nat /\ m < 1024
  BY SMT, HalfParts
<1>2. PICK x \in Nat, y \in Nat :
          f = Single(s, x, y) /\ x <= 255 /\ y < 8388608 /\ (x = 0 \/ x >= 103)
  <2> HIDE DEF f, s, e, m
  <2>1. CASE e = 31 /\ m = 0
    BY SMT, <2>1, Widened DEF f, s, e, m
  <2>2. CASE e = 31 /\ m # 0
    BY SMT, <2>2, Widened DEF f, s, e, m
  <2>3. CASE 1 <= e /\ e <= 30
    <3>1. /\ f = Single(s, e + 112, m * 8192)
          /\ e + 112 \in Nat /\ m * 8192 \in Nat /\ e + 112 <= 255 /\ e + 112 >= 103
          /\ m * 8192 < 8388608
      <4>1. f = Single(s, e + 112, m * 8192)
        BY SMT, <1>1, <2>3, Widened DEF f, s, e, m
      <4>2. /\ e + 112 \in Nat /\ m * 8192 \in Nat /\ e + 112 <= 255 /\ e + 112 >= 103
            /\ m * 8192 < 8388608
        BY SMT, <1>1, <2>3
      <4> QED BY SMT, <4>1, <4>2
    <3> QED BY SMT, <3>1
  <2>4. CASE e = 0 /\ m = 0
    BY SMT, <2>4, Widened DEF f, s, e, m
  <2>5. CASE e = 0 /\ m # 0
    <3>1. f = Promoted(s, m)
      BY SMT, <2>5, Widened DEF f, s, e, m
    <3>2. Msb(m) \in 0..9
      BY SMT, <1>1, <2>5, MsbFound
    <3> DEFINE up == 10 - Msb(m)
               w  == m * 8192 * Power[up + 1]
    <3>3. up \in 1..10 /\ 113 - up \in Nat /\ 113 - up <= 255 /\ 113 - up >= 103
      BY SMT, <3>2
    <3>4. w \in Nat
      <4> HIDE DEF up
      <4>1. Power[up + 1] \in {2, 4, 8, 16, 32, 64, 128, 256, 512, 1024}
        BY SMT, <3>3 DEF Power
      <4> QED BY SMT, <1>1, <4>1
    <3>5. Promoted(s, m) = Single(s, 113 - up, w % 8388608)
      BY SMT DEF Promoted
    <3> HIDE DEF w, up
    <3>6. w % 8388608 \in Nat /\ w % 8388608 < 8388608
      BY SMT, <3>4
    <3> QED BY SMT, <3>1, <3>3, <3>5, <3>6
  <2> QED BY SMT, <1>1, <2>1, <2>2, <2>3, <2>4, <2>5
<1> HIDE DEF f, s
<1>3. /\ Single(s, x, y) \in Float /\ Single(s, x, y).sign = s
      /\ Single(s, x, y).exponent = x
  <2>1. Single(s, x, y).sign = s /\ Single(s, x, y).exponent = x
    BY SMT DEF Single
  <2>2. x \in Exponent /\ y \in Mantissa
    BY SMT, <1>2 DEF Exponent, Mantissa
  <2>3. Single(s, x, y) \in Float
    BY SMT, <1>1, <2>2 DEF Single, Float
  <2> QED BY SMT, <2>1, <2>3
<1>4. f \in Float /\ f.sign = s /\ (f.exponent = 0 \/ f.exponent >= 103)
  BY SMT, <1>2, <1>3
<1> QED BY SMT, <1>4 DEF f, s

LEMMA SameIf ==
    ASSUME NEW h, NEW f, NEW up \in 0..23, up = HalfScale(h) + 125 - FloatScale(f),
           HalfSignificand(h) # 0, f.exponent \in 1..254,
           NEW p, p = 2^up, FloatSignificand(f) = HalfSignificand(h) * p
    PROVE  SameNumber(h, f)
BY SMT DEF SameNumber

\* What HalfFloatToFloat(h) is for each kind of half, as Exact states it.
LEMMA WidenedExact ==
    ASSUME NEW h \in Half
    PROVE  LET f == HalfFloatToFloat(h)
           IN  IF IsNaN(h) THEN f.exponent = 255 /\ f.mantissa # 0
               ELSE /\ f.sign = SignOf(h)
                    /\ IF IsFinite(h) THEN SameNumber(h, f)
                       ELSE f.exponent = 255 /\ f.mantissa = 0
<1> DEFINE s == SignOf(h)
           e == ExponentOf(h)
           m == MantissaOf(h)
           f == HalfFloatToFloat(h)
<1>1. s \in {0, 1} /\ e \in Nat /\ e <= 31 /\ m \in Nat /\ m < 1024
  BY SMT, HalfParts
<1>2. MagnitudeOf(h) = 1024 * e + m
  BY SMT, HalfParts
<1>3. f.sign = s
  BY SMT, WidenedType
<1>4. (IsNaN(h) <=> e = 31 /\ m # 0) /\ (IsFinite(h) <=> e <= 30)
  <2> HIDE DEF e, m
  <2> QED BY SMT, <1>1, <1>2 DEF IsNaN, IsFinite, Infinity
<1>5. e # 31 => SameNumber(h, f)
  <2>1. CASE 1 <= e /\ e <= 30
    <3>1. f = Single(s, e + 112, m * 8192)
      BY SMT, <1>1, <2>1, Widened
    <3>2. HalfSignificand(h) = m + 1024 /\ HalfScale(h) = e - 1
      BY SMT, <1>1, <2>1 DEF HalfSignificand, HalfScale
    <3> HIDE DEF f, e, m
    <3>3. f.exponent = e + 112 /\ f.mantissa = m * 8192
      <4>1. /\ Single(s, e + 112, m * 8192).exponent = e + 112
            /\ Single(s, e + 112, m * 8192).mantissa = m * 8192
        BY SMT DEF Single
      <4> QED BY SMT, <3>1, <4>1
    <3>4. /\ HalfScale(h) + 125 - FloatScale(f) = 13
          /\ FloatSignificand(f) = (m + 1024) * 8192 /\ m + 1024 # 0
          /\ f.exponent \in 1..254
      BY SMT, <1>1, <2>1, <3>2, <3>3 DEF FloatScale, FloatSignificand
    <3>5. 13 \in 0..23 /\ 2^13 = 8192
      BY SMT
    <3> QED BY SMT, <3>2, <3>4, <3>5, SameIf
  <2>2. CASE e = 0 /\ m = 0
    <3>1. f = Single(s, 0, 0) /\ HalfSignificand(h) = 0
      BY SMT, <2>2, Widened DEF HalfSignificand
    <3> HIDE DEF f
    <3>2. Rank(f) = 0
      BY SMT, <1>1, <3>1, SingleFloat
    <3> QED BY SMT, <3>1, <3>2 DEF SameNumber
  <2>3. CASE e = 0 /\ m # 0
    <3>1. f = Promoted(s, m)
      BY SMT, <2>3, Widened
    <3>2. HalfSignificand(h) = m /\ HalfScale(h) = 0 /\ 1 <= m
      BY SMT, <1>1, <2>3 DEF HalfSignificand, HalfScale
    <3> HIDE DEF f, m
    <3>3. CASE 1 <= m /\ m < 2 /\ Promoted(s, m) = Single(s, 103, m * 8388608 - 8388608)
      <4>1. f.exponent = 103 /\ f.mantissa = m * 8388608 - 8388608
        BY SMT, <3>1, <3>3 DEF Single
      <4>2. /\ HalfScale(h) + 125 - FloatScale(f) = 23 /\ f.exponent \in 1..254
            /\ FloatSignificand(f) = m * 8388608 /\ 23 \in 0..23
        BY SMT, <1>1, <3>2, <4>1 DEF FloatScale, FloatSignificand
      <4>3. 2^23 = 8388608
        BY SMT
      <4> QED BY SMT, <3>2, <4>2, <4>3, SameIf
    <3>4. CASE 2 <= m /\ m < 4 /\ Promoted(s, m) = Single(s, 104, m * 4194304 - 8388608)
      <4>1. f.exponent = 104 /\ f.mantissa = m * 4194304 - 8388608
        BY SMT, <3>1, <3>4 DEF Single
      <4>2. /\ HalfScale(h) + 125 - FloatScale(f) = 22 /\ f.exponent \in 1..254
            /\ FloatSignificand(f) = m * 4194304 /\ 22 \in 0..23
        BY SMT, <1>1, <3>2, <4>1 DEF FloatScale, FloatSignificand
      <4>3. 2^22 = 4194304
        BY SMT
      <4> QED BY SMT, <3>2, <4>2, <4>3, SameIf
    <3>5. CASE 4 <= m /\ m < 8 /\ Promoted(s, m) = Single(s, 105, m * 2097152 - 8388608)
      <4>1. f.exponent = 105 /\ f.mantissa = m * 2097152 - 8388608
        BY SMT, <3>1, <3>5 DEF Single
      <4>2. /\ HalfScale(h) + 125 - FloatScale(f) = 21 /\ f.exponent \in 1..254
            /\ FloatSignificand(f) = m * 2097152 /\ 21 \in 0..23
        BY SMT, <1>1, <3>2, <4>1 DEF FloatScale, FloatSignificand
      <4>3. 2^21 = 2097152
        BY SMT
      <4> QED BY SMT, <3>2, <4>2, <4>3, SameIf
    <3>6. CASE 8 <= m /\ m < 16 /\ Promoted(s, m) = Single(s, 106, m * 1048576 - 8388608)
      <4>1. f.exponent = 106 /\ f.mantissa = m * 1048576 - 8388608
        BY SMT, <3>1, <3>6 DEF Single
      <4>2. /\ HalfScale(h) + 125 - FloatScale(f) = 20 /\ f.exponent \in 1..254
            /\ FloatSignificand(f) = m * 1048576 /\ 20 \in 0..23
        BY SMT, <1>1, <3>2, <4>1 DEF FloatScale, FloatSignificand
      <4>3. 2^20 = 1048576
        BY SMT
      <4> QED BY SMT, <3>2, <4>2, <4>3, SameIf
    <3>7. CASE 16 <= m /\ m < 32 /\ Promoted(s, m) = Single(s, 107, m * 524288 - 8388608)
      <4>1. f.exponent = 107 /\ f.mantissa = m * 524288 - 8388608
        BY SMT, <3>1, <3>7 DEF Single
      <4>2. /\ HalfScale(h) + 125 - FloatScale(f) = 19 /\ f.exponent \in 1..254
            /\ FloatSignificand(f) = m * 524288 /\ 19 \in 0..23
        BY SMT, <1>1, <3>2, <4>1 DEF FloatScale, FloatSignificand
      <4>3. 2^19 = 524288
        BY SMT
      <4> QED BY SMT, <3>2, <4>2, <4>3, SameIf
    <3>8. CASE 32 <= m /\ m < 64 /\ Promoted(s, m) = Single(s, 108, m * 262144 - 8388608)
      <4>1. f.exponent = 108 /\ f.mantissa = m * 262144 - 8388608
        BY SMT, <3>1, <3>8 DEF Single
      <4>2. /\ HalfScale(h) + 125 - FloatScale(f) = 18 /\ f.exponent \in 1..254
            /\ FloatSignificand(f) = m * 262144 /\ 18 \in 0..23
        BY SMT, <1>1, <3>2, <4>1 DEF FloatScale, FloatSignificand
      <4>3. 2^18 = 262144
        BY SMT
      <4> QED BY SMT, <3>2, <4>2, <4>3, SameIf
    <3>9. CASE 64 <= m /\ m < 128 /\ Promoted(s, m) = Single(s, 109, m * 131072 - 8388608)
      <4>1. f.exponent = 109 /\ f.mantissa = m * 131072 - 8388608
        BY SMT, <3>1, <3>9 DEF Single
      <4>2. /\ HalfScale(h) + 125 - FloatScale(f) = 17 /\ f.exponent \in 1..254
            /\ FloatSignificand(f) = m * 131072 /\ 17 \in 0..23
        BY SMT, <1>1, <3>2, <4>1 DEF FloatScale, FloatSignificand
      <4>3. 2^17 = 131072
        BY SMT
      <4> QED BY SMT, <3>2, <4>2, <4>3, SameIf
    <3>10. CASE 128 <= m /\ m < 256 /\ Promoted(s, m) = Single(s, 110, m * 65536 - 8388608)
      <4>1. f.exponent = 110 /\ f.mantissa = m * 65536 - 8388608
        BY SMT, <3>1, <3>10 DEF Single
      <4>2. /\ HalfScale(h) + 125 - FloatScale(f) = 16 /\ f.exponent \in 1..254
            /\ FloatSignificand(f) = m * 65536 /\ 16 \in 0..23
        BY SMT, <1>1, <3>2, <4>1 DEF FloatScale, FloatSignificand
      <4>3. 2^16 = 65536
        BY SMT
      <4> QED BY SMT, <3>2, <4>2, <4>3, SameIf
    <3>11. CASE 256 <= m /\ m < 512 /\ Promoted(s, m) = Single(s, 111, m * 32768 - 8388608)
      <4>1. f.exponent = 111 /\ f.mantissa = m * 32768 - 8388608
        BY SMT, <3>1, <3>11 DEF Single
      <4>2. /\ HalfScale(h) + 125 - FloatScale(f) = 15 /\ f.exponent \in 1..254
            /\ FloatSignificand(f) = m * 32768 /\ 15 \in 0..23
        BY SMT, <1>1, <3>2, <4>1 DEF FloatScale, FloatSignificand
      <4>3. 2^15 = 32768
        BY SMT
      <4> QED BY SMT, <3>2, <4>2, <4>3, SameIf
    <3>12. CASE 512 <= m /\ m < 1024 /\ Promoted(s, m) = Single(s, 112, m * 16384 - 8388608)
      <4>1. f.exponent = 112 /\ f.mantissa = m * 16384 - 8388608
        BY SMT, <3>1, <3>12 DEF Single
      <4>2. /\ HalfScale(h) + 125 - FloatScale(f) = 14 /\ f.exponent \in 1..254
            /\ FloatSignificand(f) = m * 16384 /\ 14 \in 0..23
        BY SMT, <1>1, <3>2, <4>1 DEF FloatScale, FloatSignificand
      <4>3. 2^14 = 16384
        BY SMT
      <4> QED BY SMT, <3>2, <4>2, <4>3, SameIf
    <3> QED BY SMT, <1>1, <3>2, Promotion, <3>3, <3>4, <3>5, <3>6, <3>7, <3>8, <3>9, <3>10, <3>11, <3>12
  <2> QED BY SMT, <1>1, <2>1, <2>2, <2>3
<1>6. e = 31 => f.exponent = 255 /\ (m = 0 <=> f.mantissa = 0)
  <2>1. ASSUME e = 31, m = 0 PROVE f.exponent = 255 /\ f.mantissa = 0
    BY SMT, <2>1, Widened DEF Single
  <2>2. ASSUME e = 31, m # 0 PROVE f.exponent = 255 /\ f.mantissa = 4194304
    BY SMT, <2>2, Widened DEF Single
  <2> QED BY SMT, <2>1, <2>2
<1> HIDE DEF f, e, m, s
<1>7. IF IsNaN(h) THEN f.exponent = 255 /\ f.mantissa # 0
      ELSE /\ f.sign = s
           /\ IF IsFinite(h) THEN SameNumber(h, f)
              ELSE f.exponent = 255 /\ f.mantissa = 0
  BY SMT, <1>1, <1>3, <1>4, <1>5, <1>6
<1> QED BY SMT, <1>7 DEF f, s

-----------------------------------------------------------------------------
(* The ranks of halves.                                                    *)

\* A half without a sign is its own magnitude.
LEMMA Unsigned ==
    ASSUME NEW h \in Nat, h < 32768
    PROVE  h \in Half /\ SignOf(h) = 0 /\ MagnitudeOf(h) = h
BY SMT DEF Half, SignOf, MagnitudeOf

LEMMA NormalRank ==
    ASSUME NEW h \in Nat, 1024 <= h, h <= 31744
    PROVE  RankOf(h) = h * 8192 + 939524096
<1>1. CASE h = 31744
  BY SMT, <1>1, Unsigned DEF RankOf, Infinity
<1>2. CASE h < 31744
  <2> DEFINE e == ExponentOf(h)
             m == MantissaOf(h)
             f == HalfFloatToFloat(h)
  <2>1. h \in Half /\ SignOf(h) = 0 /\ MagnitudeOf(h) = h /\ h < 32768
    BY SMT, <1>2, Unsigned
  <2>2. e \in Nat /\ e <= 31 /\ m \in Nat /\ m < 1024 /\ h = 1024 * e + m
    BY SMT, <2>1, HalfParts
  <2>3. RankOf(h) = Rank(f)
    BY SMT, <1>2, <2>1 DEF RankOf, Infinity
  <2>4. 1 <= e /\ e <= 30 => f = Single(SignOf(h), e + 112, m * 8192)
    BY SMT, <2>1, Widened
  <2> HIDE DEF e, m, f
  <2>5. 1 <= e /\ e <= 30
    BY SMT, <1>2, <2>2
  <2>6. f.exponent = e + 112 /\ f.mantissa = m * 8192
    BY SMT, <2>4, <2>5 DEF Single
  <2> QED BY SMT, <2>2, <2>3, <2>6 DEF Rank
<1> QED BY SMT, <1>1, <1>2

LEMMA ZeroRank == RankOf(0) = 0
<1>1. 0 \in Half /\ MagnitudeOf(0) = 0 /\ SignOf(0) = 0 /\ ExponentOf(0) = 0 /\ MantissaOf(0) = 0
  BY SMT DEF Half, MagnitudeOf, SignOf, ExponentOf, MantissaOf
<1>2. HalfFloatToFloat(0) = Single(0, 0, 0)
  BY SMT, <1>1, Widened
<1> QED BY SMT, <1>1, <1>2 DEF RankOf, Rank, Single, Infinity

\* Between two powers of two the subnormals are equally far apart.
LEMMA SubnormalRank ==
    ASSUME NEW h \in Nat, 1 <= h, h <= 1024
    PROVE  /\ 1 <= h /\ h <= 2 => RankOf(h) = h * 8388608 + 855638016
           /\ 2 <= h /\ h <= 4 => RankOf(h) = h * 4194304 + 864026624
           /\ 4 <= h /\ h <= 8 => RankOf(h) = h * 2097152 + 872415232
           /\ 8 <= h /\ h <= 16 => RankOf(h) = h * 1048576 + 880803840
           /\ 16 <= h /\ h <= 32 => RankOf(h) = h * 524288 + 889192448
           /\ 32 <= h /\ h <= 64 => RankOf(h) = h * 262144 + 897581056
           /\ 64 <= h /\ h <= 128 => RankOf(h) = h * 131072 + 905969664
           /\ 128 <= h /\ h <= 256 => RankOf(h) = h * 65536 + 914358272
           /\ 256 <= h /\ h <= 512 => RankOf(h) = h * 32768 + 922746880
           /\ 512 <= h /\ h <= 1024 => RankOf(h) = h * 16384 + 931135488
<1>1. CASE h = 1024
  BY SMT, <1>1, NormalRank
<1>2. CASE h < 1024
  <2> DEFINE f == HalfFloatToFloat(h)
  <2>1. h \in Half /\ SignOf(h) = 0 /\ MagnitudeOf(h) = h /\ h # 31744
    BY SMT, <1>2, Unsigned
  <2>2. ExponentOf(h) = 0 /\ MantissaOf(h) = h
    BY SMT, <1>2 DEF ExponentOf, MantissaOf
  <2>3. RankOf(h) = Rank(f)
    BY SMT, <1>2, <2>1 DEF RankOf, Infinity
  <2>4. f = Promoted(0, h)
    BY SMT, <2>1, <2>2, Widened
  <2> HIDE DEF f
  <2>5. CASE 1 <= h /\ h < 2 /\ Promoted(0, h) = Single(0, 103, h * 8388608 - 8388608)
    <3>1. RankOf(h) = h * 8388608 + 855638016
      BY SMT, <2>3, <2>4, <2>5 DEF Single, Rank
    <3> QED BY SMT, <2>5, <3>1
  <2>6. CASE 2 <= h /\ h < 4 /\ Promoted(0, h) = Single(0, 104, h * 4194304 - 8388608)
    <3>1. RankOf(h) = h * 4194304 + 864026624
      BY SMT, <2>3, <2>4, <2>6 DEF Single, Rank
    <3> QED BY SMT, <2>6, <3>1
  <2>7. CASE 4 <= h /\ h < 8 /\ Promoted(0, h) = Single(0, 105, h * 2097152 - 8388608)
    <3>1. RankOf(h) = h * 2097152 + 872415232
      BY SMT, <2>3, <2>4, <2>7 DEF Single, Rank
    <3> QED BY SMT, <2>7, <3>1
  <2>8. CASE 8 <= h /\ h < 16 /\ Promoted(0, h) = Single(0, 106, h * 1048576 - 8388608)
    <3>1. RankOf(h) = h * 1048576 + 880803840
      BY SMT, <2>3, <2>4, <2>8 DEF Single, Rank
    <3> QED BY SMT, <2>8, <3>1
  <2>9. CASE 16 <= h /\ h < 32 /\ Promoted(0, h) = Single(0, 107, h * 524288 - 8388608)
    <3>1. RankOf(h) = h * 524288 + 889192448
      BY SMT, <2>3, <2>4, <2>9 DEF Single, Rank
    <3> QED BY SMT, <2>9, <3>1
  <2>10. CASE 32 <= h /\ h < 64 /\ Promoted(0, h) = Single(0, 108, h * 262144 - 8388608)
    <3>1. RankOf(h) = h * 262144 + 897581056
      BY SMT, <2>3, <2>4, <2>10 DEF Single, Rank
    <3> QED BY SMT, <2>10, <3>1
  <2>11. CASE 64 <= h /\ h < 128 /\ Promoted(0, h) = Single(0, 109, h * 131072 - 8388608)
    <3>1. RankOf(h) = h * 131072 + 905969664
      BY SMT, <2>3, <2>4, <2>11 DEF Single, Rank
    <3> QED BY SMT, <2>11, <3>1
  <2>12. CASE 128 <= h /\ h < 256 /\ Promoted(0, h) = Single(0, 110, h * 65536 - 8388608)
    <3>1. RankOf(h) = h * 65536 + 914358272
      BY SMT, <2>3, <2>4, <2>12 DEF Single, Rank
    <3> QED BY SMT, <2>12, <3>1
  <2>13. CASE 256 <= h /\ h < 512 /\ Promoted(0, h) = Single(0, 111, h * 32768 - 8388608)
    <3>1. RankOf(h) = h * 32768 + 922746880
      BY SMT, <2>3, <2>4, <2>13 DEF Single, Rank
    <3> QED BY SMT, <2>13, <3>1
  <2>14. CASE 512 <= h /\ h < 1024 /\ Promoted(0, h) = Single(0, 112, h * 16384 - 8388608)
    <3>1. RankOf(h) = h * 16384 + 931135488
      BY SMT, <2>3, <2>4, <2>14 DEF Single, Rank
    <3> QED BY SMT, <2>14, <3>1
  <2> QED BY SMT, <1>2, Promotion, <2>5, <2>6, <2>7, <2>8, <2>9, <2>10, <2>11, <2>12, <2>13, <2>14
<1> QED BY SMT, <1>1, <1>2

\* The larger half is the larger number.
LEMMA RanksIncrease ==
    ASSUME NEW h \in Nat, NEW k \in Nat, h < k, k <= 31744
    PROVE  RankOf(h) \in Nat /\ RankOf(k) \in Nat /\ RankOf(h) < RankOf(k)
<1>1. CASE 1 <= h /\ k <= 1024
  BY SMT, <1>1, SubnormalRank
<1>2. CASE 1024 <= h
  BY SMT, <1>2, NormalRank
<1>3. CASE 1 <= h /\ h < 1024 /\ 1024 < k
  BY SMT, <1>3, SubnormalRank, NormalRank
<1>4. CASE h = 0
  <2>1. RankOf(k) \in Nat /\ RankOf(k) > 0
    <3>1. CASE k <= 1024
      BY SMT, <3>1, SubnormalRank
    <3>2. CASE 1024 <= k
      BY SMT, <3>2, NormalRank
    <3> QED BY SMT, <3>1, <3>2
  <2> QED BY SMT, <1>4, <2>1, ZeroRank
<1> QED BY SMT, <1>1, <1>2, <1>3, <1>4

-----------------------------------------------------------------------------
(* Narrowing.                                                              *)

LEMMA Shifted ==
    ASSUME NEW x \in Nat, x < 2048, NEW n \in Nat
    PROVE  /\ ShiftRight(x, n) \in Nat /\ ShiftRight(x, n) < 2048
           /\ n > 10 => ShiftRight(x, n) = 0
BY SMT DEF ShiftRight, Power

\* Whatever a processor makes of a shift beyond the word, a half has 16 bits.
LEMMA MagnitudesType ==
    ASSUME NEW f \in Float, NEW x \in Magnitudes(f)
    PROVE  x \in Nat /\ x < 32768
<1> DEFINE e == f.exponent
           k == Kept(f)
           b == RoundBit(f)
<1>1. e \in Nat /\ e <= 255 /\ k \in Nat /\ k < 1024 /\ b \in {0, 1}
  BY SMT, FloatParts
<1>2. CASE e > 142
  BY SMT, <1>2 DEF Magnitudes, Infinity, QuietNaN
<1>3. CASE 113 <= e /\ e <= 142
  <2>1. x = (e - 112) * 1024 + k + b
    BY SMT, <1>1, <1>3 DEF Magnitudes
  <2> HIDE DEF e, k, b
  <2> QED BY SMT, <1>1, <1>3, <2>1
<1>4. CASE e = 0
  BY SMT, <1>4 DEF Magnitudes
<1>5. CASE 0 < e /\ e < 113
  <2>1. x \in Subnormal(k, 113 - e)
    BY SMT, <1>1, <1>5 DEF Magnitudes
  <2> DEFINE n == 113 - e
             y == 1024 + k
  <2>2. n \in Nat /\ n % 32 \in Nat /\ y \in Nat /\ y < 2048
    BY SMT, <1>1, <1>5
  <2>3. x = ShiftRight(y, n) \/ x = ShiftRight(y, n % 32) \/ x = 0
    BY SMT, <2>1, <2>2 DEF Subnormal
  <2> HIDE DEF n, y
  <2>4. ASSUME NEW i \in Nat PROVE ShiftRight(y, i) \in Nat /\ ShiftRight(y, i) < 2048
    BY SMT, <2>2, Shifted
  <2> QED BY SMT, <2>2, <2>3, <2>4
<1> QED BY SMT, <1>1, <1>2, <1>3, <1>4, <1>5

\* A normal half is at most half of the last place away.
LEMMA NarrowNormal ==
    ASSUME NEW f \in Float, 113 <= f.exponent, f.exponent <= 142, NEW x \in Magnitudes(f)
    PROVE  /\ x \in Nat /\ 1024 <= x /\ x <= 31744
           /\ x * 8192 + 939524096 - 4096 <= Rank(f)
           /\ Rank(f) < x * 8192 + 939524096 + 4096
<1> DEFINE e == f.exponent
           m == f.mantissa
           k == Kept(f)
           b == RoundBit(f)
<1>1. /\ e \in Nat /\ e <= 255 /\ k \in Nat /\ k < 1024 /\ b \in {0, 1} /\ m \in Nat
      /\ 8192 * k + 4096 * b <= m /\ m < 8192 * k + 4096 * b + 4096
  BY SMT, FloatParts
<1>2. x = (e - 112) * 1024 + k + b
  BY SMT, <1>1 DEF Magnitudes
<1>3. Rank(f) = e * 8388608 + m /\ 113 <= e /\ e <= 142
  BY SMT DEF Rank
<1> HIDE DEF e, m, k, b
<1>4. x \in Nat /\ 1024 <= x /\ x <= 31744
  BY SMT, <1>1, <1>2, <1>3
<1>5. CASE b = 0
  BY SMT, <1>1, <1>2, <1>3, <1>4, <1>5
<1>6. CASE b = 1
  BY SMT, <1>1, <1>2, <1>3, <1>4, <1>6
<1> QED BY SMT, <1>1, <1>5, <1>6

\* The floats whose narrowing the language defines.
Defined(f) == f \in Float /\ (f.exponent = 0 \/ f.exponent >= 82)

\* What is too small for a normal half is cut to a subnormal one.
LEMMA NarrowSubnormal ==
    ASSUME NEW f, Defined(f), f.exponent <= 112, NEW x \in Magnitudes(f)
    PROVE  /\ x \in Nat /\ x < 1024
           /\ RankOf(x) <= Rank(f) /\ Rank(f) < RankOf(x + 1)
<1> DEFINE e == f.exponent
           m == f.mantissa
           k == Kept(f)
           n == 113 - e
           y == 1024 + k
<1>1. /\ e \in Nat /\ k \in Nat /\ k < 1024 /\ m \in Nat /\ m < 8388608
      /\ 8192 * k <= m /\ m < 8192 * k + 8192
  <2>1. /\ e \in Nat /\ k \in Nat /\ k < 1024 /\ m \in Nat /\ m < 8388608
        /\ RoundBit(f) \in {0, 1}
        /\ 8192 * k + 4096 * RoundBit(f) <= m /\ m < 8192 * k + 4096 * RoundBit(f) + 4096
    BY SMT, FloatParts DEF Defined
  <2> HIDE DEF e, k, m
  <2> QED BY SMT, <2>1
<1>2. e # 0 => x = ShiftRight(y, n)
  BY SMT, <1>1 DEF Magnitudes, Subnormal, Defined
<1>3. Rank(f) = e * 8388608 + m /\ (e = 0 \/ e >= 82) /\ e <= 112
  BY SMT DEF Rank, Defined
<1>4. n \in Nat /\ y \in Nat /\ y < 2048 /\ 1024 <= y /\ n = 113 - e
  BY SMT, <1>1, <1>3
<1>5. 8192 * y <= m + 8388608 /\ m + 8388608 < 8192 * y + 8192
  BY SMT, <1>1
<1>6. e = 0 => x = 0
  BY SMT DEF Magnitudes
<1> HIDE DEF e, m, k, n, y
<1>7. CASE e <= 102
  <2>1. x = 0
    BY SMT, <1>1, <1>2, <1>3, <1>4, <1>6, <1>7, Shifted
  <2>2. RankOf(1) = 1 * 8388608 + 855638016
    BY SMT, SubnormalRank
  <2> QED BY SMT, <1>1, <1>3, <1>7, <2>1, <2>2, ZeroRank
<1>8. CASE e = 112
  <2>1. x = y \div 2
    BY SMT, <1>2, <1>4, <1>8 DEF ShiftRight, Power
  <2>2. /\ x \in Nat /\ 512 <= x /\ x < 1024
        /\ x * 16384 + 931135488 <= Rank(f) /\ Rank(f) < (x + 1) * 16384 + 931135488
    BY SMT, <1>1, <1>3, <1>4, <1>5, <1>8, <2>1
  <2>3. RankOf(x) = x * 16384 + 931135488 /\ RankOf(x + 1) = (x + 1) * 16384 + 931135488
    BY SMT, <2>2, SubnormalRank
  <2> QED BY SMT, <2>2, <2>3
<1>9. CASE e = 111
  <2>1. x = y \div 4
    BY SMT, <1>2, <1>4, <1>9 DEF ShiftRight, Power
  <2>2. /\ x \in Nat /\ 256 <= x /\ x < 512
        /\ x * 32768 + 922746880 <= Rank(f) /\ Rank(f) < (x + 1) * 32768 + 922746880
    BY SMT, <1>1, <1>3, <1>4, <1>5, <1>9, <2>1
  <2>3. RankOf(x) = x * 32768 + 922746880 /\ RankOf(x + 1) = (x + 1) * 32768 + 922746880
    BY SMT, <2>2, SubnormalRank
  <2> QED BY SMT, <2>2, <2>3
<1>10. CASE e = 110
  <2>1. x = y \div 8
    BY SMT, <1>2, <1>4, <1>10 DEF ShiftRight, Power
  <2>2. /\ x \in Nat /\ 128 <= x /\ x < 256
        /\ x * 65536 + 914358272 <= Rank(f) /\ Rank(f) < (x + 1) * 65536 + 914358272
    BY SMT, <1>1, <1>3, <1>4, <1>5, <1>10, <2>1
  <2>3. RankOf(x) = x * 65536 + 914358272 /\ RankOf(x + 1) = (x + 1) * 65536 + 914358272
    BY SMT, <2>2, SubnormalRank
  <2> QED BY SMT, <2>2, <2>3
<1>11. CASE e = 109
  <2>1. x = y \div 16
    BY SMT, <1>2, <1>4, <1>11 DEF ShiftRight, Power
  <2>2. /\ x \in Nat /\ 64 <= x /\ x < 128
        /\ x * 131072 + 905969664 <= Rank(f) /\ Rank(f) < (x + 1) * 131072 + 905969664
    BY SMT, <1>1, <1>3, <1>4, <1>5, <1>11, <2>1
  <2>3. RankOf(x) = x * 131072 + 905969664 /\ RankOf(x + 1) = (x + 1) * 131072 + 905969664
    BY SMT, <2>2, SubnormalRank
  <2> QED BY SMT, <2>2, <2>3
<1>12. CASE e = 108
  <2>1. x = y \div 32
    BY SMT, <1>2, <1>4, <1>12 DEF ShiftRight, Power
  <2>2. /\ x \in Nat /\ 32 <= x /\ x < 64
        /\ x * 262144 + 897581056 <= Rank(f) /\ Rank(f) < (x + 1) * 262144 + 897581056
    BY SMT, <1>1, <1>3, <1>4, <1>5, <1>12, <2>1
  <2>3. RankOf(x) = x * 262144 + 897581056 /\ RankOf(x + 1) = (x + 1) * 262144 + 897581056
    BY SMT, <2>2, SubnormalRank
  <2> QED BY SMT, <2>2, <2>3
<1>13. CASE e = 107
  <2>1. x = y \div 64
    BY SMT, <1>2, <1>4, <1>13 DEF ShiftRight, Power
  <2>2. /\ x \in Nat /\ 16 <= x /\ x < 32
        /\ x * 524288 + 889192448 <= Rank(f) /\ Rank(f) < (x + 1) * 524288 + 889192448
    BY SMT, <1>1, <1>3, <1>4, <1>5, <1>13, <2>1
  <2>3. RankOf(x) = x * 524288 + 889192448 /\ RankOf(x + 1) = (x + 1) * 524288 + 889192448
    BY SMT, <2>2, SubnormalRank
  <2> QED BY SMT, <2>2, <2>3
<1>14. CASE e = 106
  <2>1. x = y \div 128
    BY SMT, <1>2, <1>4, <1>14 DEF ShiftRight, Power
  <2>2. /\ x \in Nat /\ 8 <= x /\ x < 16
        /\ x * 1048576 + 880803840 <= Rank(f) /\ Rank(f) < (x + 1) * 1048576 + 880803840
    BY SMT, <1>1, <1>3, <1>4, <1>5, <1>14, <2>1
  <2>3. RankOf(x) = x * 1048576 + 880803840 /\ RankOf(x + 1) = (x + 1) * 1048576 + 880803840
    BY SMT, <2>2, SubnormalRank
  <2> QED BY SMT, <2>2, <2>3
<1>15. CASE e = 105
  <2>1. x = y \div 256
    BY SMT, <1>2, <1>4, <1>15 DEF ShiftRight, Power
  <2>2. /\ x \in Nat /\ 4 <= x /\ x < 8
        /\ x * 2097152 + 872415232 <= Rank(f) /\ Rank(f) < (x + 1) * 2097152 + 872415232
    BY SMT, <1>1, <1>3, <1>4, <1>5, <1>15, <2>1
  <2>3. RankOf(x) = x * 2097152 + 872415232 /\ RankOf(x + 1) = (x + 1) * 2097152 + 872415232
    BY SMT, <2>2, SubnormalRank
  <2> QED BY SMT, <2>2, <2>3
<1>16. CASE e = 104
  <2>1. x = y \div 512
    BY SMT, <1>2, <1>4, <1>16 DEF ShiftRight, Power
  <2>2. /\ x \in Nat /\ 2 <= x /\ x < 4
        /\ x * 4194304 + 864026624 <= Rank(f) /\ Rank(f) < (x + 1) * 4194304 + 864026624
    BY SMT, <1>1, <1>3, <1>4, <1>5, <1>16, <2>1
  <2>3. RankOf(x) = x * 4194304 + 864026624 /\ RankOf(x + 1) = (x + 1) * 4194304 + 864026624
    BY SMT, <2>2, SubnormalRank
  <2> QED BY SMT, <2>2, <2>3
<1>17. CASE e = 103
  <2>1. x = y \div 1024
    BY SMT, <1>2, <1>4, <1>17 DEF ShiftRight, Power
  <2>2. /\ x \in Nat /\ 1 <= x /\ x < 2
        /\ x * 8388608 + 855638016 <= Rank(f) /\ Rank(f) < (x + 1) * 8388608 + 855638016
    BY SMT, <1>1, <1>3, <1>4, <1>5, <1>17, <2>1
  <2>3. RankOf(x) = x * 8388608 + 855638016 /\ RankOf(x + 1) = (x + 1) * 8388608 + 855638016
    BY SMT, <2>2, SubnormalRank
  <2> QED BY SMT, <2>2, <2>3
<1> QED BY SMT, <1>1, <1>3, <1>7, <1>8, <1>9, <1>10, <1>11, <1>12, <1>13, <1>14, <1>15, <1>16, <1>17

\* No half lies between a number and the half it becomes.
LEMMA Neighbours ==
    ASSUME NEW f, Defined(f), f.exponent # 255, NEW x \in Magnitudes(f)
    PROVE  /\ x \in Nat /\ x <= 31744
           /\ x > 0 => RankOf(x - 1) < Rank(f)
           /\ x < 31744 => Rank(f) < RankOf(x + 1)
<1> DEFINE e == f.exponent
<1>1. f \in Float /\ e \in Nat /\ e < 255 /\ f.mantissa \in Nat
  BY SMT, FloatParts DEF Defined
<1>2. Rank(f) = e * 8388608 + f.mantissa /\ Rank(f) \in Nat
  BY SMT, <1>1 DEF Rank
<1>3. CASE e <= 112
  <2>1. x \in Nat /\ x < 1024 /\ RankOf(x) <= Rank(f) /\ Rank(f) < RankOf(x + 1)
    BY SMT, <1>3, NarrowSubnormal
  <2>2. ASSUME x > 0
        PROVE  RankOf(x - 1) \in Nat /\ RankOf(x) \in Nat /\ RankOf(x - 1) < RankOf(x)
    <3>1. x - 1 \in Nat /\ x - 1 < x /\ x <= 31744
      BY SMT, <2>1, <2>2
    <3> QED BY SMT, <2>1, <3>1, RanksIncrease
  <2> QED BY SMT, <1>2, <2>1, <2>2
<1>4. CASE 113 <= e /\ e <= 142
  <2>1. /\ x \in Nat /\ 1024 <= x /\ x <= 31744
        /\ x * 8192 + 939524096 - 4096 <= Rank(f)
        /\ Rank(f) < x * 8192 + 939524096 + 4096
    BY SMT, <1>1, <1>4, NarrowNormal
  <2>2. RankOf(x - 1) <= x * 8192 + 939524096 - 8192 /\ RankOf(x - 1) \in Nat
    <3>1. x - 1 \in Nat /\ 1023 <= x - 1
      BY SMT, <2>1
    <3>2. CASE x - 1 = 1023
      <4>1. RankOf(1023) = 1023 * 16384 + 931135488
        BY SMT, SubnormalRank
      <4> QED BY SMT, <2>1, <3>2, <4>1
    <3>3. CASE x - 1 >= 1024
      <4>1. RankOf(x - 1) = (x - 1) * 8192 + 939524096
        BY SMT, <2>1, <3>1, <3>3, NormalRank
      <4> QED BY SMT, <2>1, <4>1
    <3> QED BY SMT, <2>1, <3>1, <3>2, <3>3
  <2>3. x < 31744 => RankOf(x + 1) = (x + 1) * 8192 + 939524096
    <3>1. x < 31744 => x + 1 \in Nat /\ 1024 <= x + 1 /\ x + 1 <= 31744
      BY SMT, <2>1
    <3> QED BY SMT, <3>1, NormalRank
  <2> QED BY SMT, <1>2, <2>1, <2>2, <2>3
<1>5. CASE e > 142
  <2>1. x = 31744
    BY SMT, <1>1, <1>5 DEF Magnitudes, Infinity
  <2>2. RankOf(31743) = 31743 * 8192 + 939524096
    BY SMT, NormalRank
  <2> QED BY SMT, <1>1, <1>2, <1>5, <2>1, <2>2
<1> QED BY SMT, <1>1, <1>3, <1>4, <1>5

\* The larger number becomes the larger half, or the same.
LEMMA NarrowKeepsOrder ==
    ASSUME NEW f, Defined(f), f.exponent # 255, NEW g, Defined(g), g.exponent # 255,
           Rank(f) <= Rank(g), NEW x \in Magnitudes(f), NEW y \in Magnitudes(g)
    PROVE  x <= y
<1> DEFINE e == f.exponent
           d == g.exponent
<1>1. /\ e \in Nat /\ e < 255 /\ f \in Float
      /\ f.mantissa \in Nat /\ f.mantissa < 8388608
  BY SMT, FloatParts DEF Defined
<1>2. /\ d \in Nat /\ d < 255 /\ g \in Float
      /\ g.mantissa \in Nat /\ g.mantissa < 8388608
  BY SMT, FloatParts DEF Defined
<1>3. /\ Rank(f) = e * 8388608 + f.mantissa /\ Rank(f) \in Nat
      /\ Rank(g) = d * 8388608 + g.mantissa /\ Rank(g) \in Nat
  BY SMT, <1>1, <1>2 DEF Rank
<1>4. e <= d
  BY SMT, <1>1, <1>2, <1>3
<1>5. x \in Nat /\ x <= 31744 /\ y \in Nat /\ y <= 31744
  BY SMT, Neighbours
<1>6. CASE d > 142
  <2>1. y = 31744
    BY SMT, <1>2, <1>6 DEF Magnitudes, Infinity
  <2> QED BY SMT, <1>5, <2>1
<1>7. CASE 113 <= e /\ d <= 142
  <2>1. x * 8192 + 939524096 - 4096 <= Rank(f)
    BY SMT, <1>1, <1>2, <1>4, <1>7, NarrowNormal
  <2>2. Rank(g) < y * 8192 + 939524096 + 4096
    BY SMT, <1>1, <1>2, <1>4, <1>7, NarrowNormal
  <2> QED BY SMT, <1>3, <1>5, <2>1, <2>2
<1>8. CASE e <= 112 /\ 113 <= d /\ d <= 142
  <2>1. 1024 <= y
    BY SMT, <1>2, <1>8, NarrowNormal
  <2>2. x < 1024
    BY SMT, <1>8, NarrowSubnormal
  <2> QED BY SMT, <1>5, <2>1, <2>2
<1>9. CASE d <= 112
  <2>1. RankOf(x) <= Rank(f)
    BY SMT, <1>1, <1>2, <1>4, <1>9, NarrowSubnormal
  <2>2. Rank(g) < RankOf(y + 1) /\ y < 1024
    BY SMT, <1>9, NarrowSubnormal
  <2>3. SUFFICES ASSUME y < x PROVE FALSE
    BY SMT, <1>5
  <2>4. RankOf(x) \in Nat /\ RankOf(y + 1) \in Nat /\ RankOf(y + 1) <= RankOf(x)
    <3>1. y + 1 \in Nat /\ y + 1 <= x
      BY SMT, <1>5, <2>3
    <3>2. CASE y + 1 = x
      <4>1. x + 1 \in Nat /\ x < x + 1 /\ x + 1 <= 31744
        BY SMT, <1>5, <2>2, <3>2
      <4> QED BY SMT, <1>5, <3>2, <4>1, RanksIncrease
    <3>3. CASE y + 1 < x
      BY SMT, <1>5, <3>1, <3>3, RanksIncrease
    <3> QED BY SMT, <1>5, <3>1, <3>2, <3>3
  <2> QED BY SMT, <1>3, <2>1, <2>2, <2>4
<1> QED BY SMT, <1>1, <1>2, <1>4, <1>6, <1>7, <1>8, <1>9

\* A half that has been widened is narrowed to itself, but for a NaN.
LEMMA NarrowWidened ==
    ASSUME NEW h \in Half, NEW x \in Magnitudes(HalfFloatToFloat(h))
    PROVE  IF IsNaN(h) THEN x = QuietNaN ELSE x = MagnitudeOf(h)
<1> DEFINE s == SignOf(h)
           e == ExponentOf(h)
           m == MantissaOf(h)
           f == HalfFloatToFloat(h)
<1>1. /\ s \in {0, 1} /\ e \in Nat /\ e <= 31 /\ m \in Nat /\ m < 1024
      /\ MagnitudeOf(h) = 1024 * e + m
  BY SMT, HalfParts
<1>2. IsNaN(h) <=> e = 31 /\ m # 0
  <2> HIDE DEF e, m
  <2> QED BY SMT, <1>1 DEF IsNaN, Infinity
<1>3. ASSUME e = 31, m = 0 PROVE x = 31744
  <2>1. f.exponent = 255 /\ f.mantissa = 0
    BY SMT, <1>3, Widened DEF Single
  <2> QED BY SMT, <2>1 DEF Magnitudes, Infinity
<1>4. ASSUME e = 31, m # 0 PROVE x = QuietNaN
  <2>1. f.exponent = 255 /\ f.mantissa = 4194304
    BY SMT, <1>4, Widened DEF Single
  <2> QED BY SMT, <2>1 DEF Magnitudes
<1>5. ASSUME 1 <= e, e <= 30 PROVE x = 1024 * e + m
  <2>1. f = Single(s, e + 112, m * 8192)
    BY SMT, <1>1, <1>5, Widened
  <2> HIDE DEF f, e, m
  <2>2. f.exponent = e + 112 /\ f.mantissa = m * 8192
    BY SMT, <2>1 DEF Single
  <2>3. Kept(f) = m /\ RoundBit(f) = 0
    BY SMT, <1>1, <2>2 DEF Kept, RoundBit
  <2>4. x = (f.exponent - 112) * 1024 + Kept(f) + RoundBit(f)
    BY SMT, <1>1, <1>5, <2>2 DEF Magnitudes, f
  <2> QED BY SMT, <1>1, <2>2, <2>3, <2>4
<1>6. ASSUME e = 0, m = 0 PROVE x = 0
  <2>1. f.exponent = 0
    BY SMT, <1>6, Widened DEF Single
  <2> QED BY SMT, <2>1 DEF Magnitudes
<1>7. ASSUME e = 0, m # 0 PROVE x = m
  <2>1. f = Promoted(s, m) /\ 1 <= m
    BY SMT, <1>1, <1>7, Widened
  <2>2. Defined(f)
    <3>1. f \in Float /\ (f.exponent = 0 \/ f.exponent >= 103)
      BY SMT, WidenedType
    <3>2. f.exponent \in Nat
      BY SMT, <3>1, FloatParts
    <3> HIDE DEF f
    <3> QED BY SMT, <3>1, <3>2 DEF Defined
  <2>3. Rank(f) = RankOf(m)
    <3>1. m \in Half /\ SignOf(m) = 0 /\ MagnitudeOf(m) = m /\ m # 31744
      BY SMT, <1>1, Unsigned
    <3>2. ExponentOf(m) = 0 /\ MantissaOf(m) = m
      <4> HIDE DEF m
      <4> QED BY SMT, <1>1 DEF ExponentOf, MantissaOf
    <3>3. HalfFloatToFloat(m) = Promoted(0, m)
      BY SMT, <1>7, <3>1, <3>2, Widened
    <3> HIDE DEF f, m
    <3>4. RankOf(m) = Rank(Promoted(0, m))
      BY SMT, <3>1, <3>3 DEF RankOf, Infinity
    <3> QED BY SMT, <2>1, <3>4 DEF Promoted, Single, Rank
  <2> HIDE DEF f, m
  <2>4. f.exponent <= 112
    <3>1. Msb(m) \in Nat /\ Msb(m) <= 9
      BY SMT, <1>1, <2>1, MsbFound
    <3>2. f.exponent = 113 - (10 - Msb(m))
      BY SMT, <2>1 DEF Promoted, Single
    <3> QED BY SMT, <3>1, <3>2
  <2>5. x \in Nat /\ x < 1024 /\ RankOf(x) <= RankOf(m) /\ RankOf(m) < RankOf(x + 1)
    BY SMT, <2>2, <2>3, <2>4, NarrowSubnormal DEF f
  <2>6. CASE x < m
    <3>1. x + 1 \in Nat /\ (x + 1 = m \/ x + 1 < m) /\ m <= 31744
      BY SMT, <1>1, <2>5, <2>6
    <3>2. x + 1 < m => RankOf(x + 1) \in Nat /\ RankOf(m) \in Nat /\ RankOf(x + 1) < RankOf(m)
      BY SMT, <1>1, <3>1, RanksIncrease
    <3>3. RankOf(x) \in Nat /\ RankOf(m) \in Nat
      BY SMT, <1>1, <2>5, <2>6, <3>1, RanksIncrease
    <3> QED BY SMT, <2>5, <3>1, <3>2, <3>3
  <2>7. CASE m < x
    <3>1. RankOf(x) \in Nat /\ RankOf(m) \in Nat /\ RankOf(m) < RankOf(x)
      BY SMT, <1>1, <2>5, <2>7, RanksIncrease
    <3> QED BY SMT, <2>5, <3>1
  <2> QED BY SMT, <1>1, <2>5, <2>6, <2>7
<1> HIDE DEF e, m
<1> QED BY SMT, <1>1, <1>2, <1>3, <1>4, <1>5, <1>6, <1>7

-----------------------------------------------------------------------------
(* A Float16 on its way.                                                   *)

LEMMA SignedHalf ==
    ASSUME NEW f \in Float, NEW h \in FloatToHalfFloat(f)
    PROVE  h \in Half /\ SignOf(h) = f.sign /\ MagnitudeOf(h) \in Magnitudes(f)
<1>1. PICK x \in Magnitudes(f) : h = f.sign * 32768 + x
  BY SMT DEF FloatToHalfFloat
<1>2. x \in Nat /\ x < 32768 /\ f.sign \in {0, 1}
  BY SMT, MagnitudesType, FloatParts
<1>3. h \in Half /\ SignOf(h) = f.sign /\ MagnitudeOf(h) = x
  BY SMT, <1>1, <1>2, Signed
<1> QED BY SMT, <1>3

\* The value and the half stay what their types say.
THEOREM TypeCorrect == Spec => []TypeOK
<1>1. Init => TypeOK
  <2>1. Single(0, 0, 0) \in Float
    BY SMT, SingleFloat
  <2> QED BY SMT, <2>1, FloatAssumption DEF Init, TypeOK
<1>2. ASSUME TypeOK, [Next]_vars PROVE TypeOK'
  <2>1. CASE Write
    BY SMT, <1>2, <2>1, SignedHalf DEF Write, TypeOK
  <2>2. CASE Read
    BY SMT, <1>2, <2>2, WidenedType DEF Read, TypeOK
  <2>3. CASE UNCHANGED vars
    BY SMT, <1>2, <2>3 DEF vars, TypeOK
  <2> QED BY SMT, <1>2, <2>1, <2>2, <2>3 DEF Next
<1> QED BY <1>1, <1>2, PTL DEF Spec

\* Every half is widened to the number it stands for.
THEOREM WideningExact == Spec => Exact
<1>1. ASSUME TypeOK, [Next]_vars, vars' # vars, turn = "read"
      PROVE  half \in Half /\ value' = HalfFloatToFloat(half)
  BY SMT, <1>1 DEF TypeOK, Next, Write, Read
<1>2. ASSUME TypeOK, [Next]_vars
      PROVE  [turn = "read" =>
                IF IsNaN(half) THEN value'.exponent = 255 /\ value'.mantissa # 0
                ELSE /\ value'.sign = SignOf(half)
                     /\ IF IsFinite(half) THEN SameNumber(half, value')
                        ELSE value'.exponent = 255 /\ value'.mantissa = 0]_vars
  BY SMT, <1>1, <1>2, WidenedExact
<1> QED BY <1>2, TypeCorrect, PTL DEF Spec, Exact

\* What is about to be written is what the last half read was widened to.
Carried == turn = "write" /\ half # Nothing => value = HalfFloatToFloat(half)

LEMMA CarriedInvariant == Spec => [](TypeOK /\ Carried)
<1>1. Init => Carried
  BY SMT DEF Init, Carried
<1>2. ASSUME TypeOK, Carried, [Next]_vars PROVE Carried'
  BY SMT, <1>2 DEF Carried, Next, Write, Read, vars
<1> QED BY <1>1, <1>2, TypeCorrect, PTL DEF Spec

\* An object that is decoded and encoded again keeps its halves.
THEOREM RoundTripCorrect == Spec => RoundTrip
<1>1. ASSUME TypeOK, Carried, Next, turn = "write", half # Nothing
      PROVE  \/ half' = half
             \/ IsNaN(half) /\ half' = SignOf(half) * 32768 + QuietNaN
  <2> DEFINE f == HalfFloatToFloat(half)
  <2>1. half \in Half /\ half' \in FloatToHalfFloat(f)
    BY SMT, <1>1 DEF TypeOK, Carried, Next, Write, Read
  <2>2. f \in Float /\ f.sign = SignOf(half)
    BY SMT, <2>1, WidenedType
  <2> HIDE DEF f
  <2>3. PICK x \in Magnitudes(f) : half' = SignOf(half) * 32768 + x
    BY SMT, <2>1, <2>2 DEF FloatToHalfFloat
  <2>4. IF IsNaN(half) THEN x = QuietNaN ELSE x = MagnitudeOf(half)
    BY SMT, <2>1, NarrowWidened DEF f
  <2>5. half = SignOf(half) * 32768 + MagnitudeOf(half)
    BY SMT, <2>1 DEF Half, SignOf, MagnitudeOf
  <2> QED BY SMT, <2>3, <2>4, <2>5
<1>2. ASSUME TypeOK, Carried, [Next]_vars
      PROVE  [turn = "write" /\ half # Nothing =>
                \/ half' = half
                \/ IsNaN(half) /\ half' = SignOf(half) * 32768 + QuietNaN]_vars
  BY SMT, <1>1, <1>2
<1> QED BY <1>2, CarriedInvariant, PTL DEF Spec, RoundTrip

\* A number is written as the nearest half.
THEOREM NarrowingNearest == Spec => Nearest
<1>1. ASSUME TypeOK, Next, turn = "write", value.exponent \in 113..142
      PROVE  Rank(value) - RankOf(MagnitudeOf(half')) \in -4096..4095
  <2> DEFINE x == MagnitudeOf(half')
  <2>1. value \in Float /\ half' \in FloatToHalfFloat(value)
    BY SMT, <1>1 DEF TypeOK, Next, Write, Read
  <2>2. x \in Magnitudes(value)
    BY SMT, <2>1, SignedHalf
  <2> HIDE DEF x
  <2>3. 113 <= value.exponent /\ value.exponent <= 142
    BY SMT, <1>1
  <2>4. /\ x \in Nat /\ 1024 <= x /\ x <= 31744
        /\ x * 8192 + 939524096 - 4096 <= Rank(value)
        /\ Rank(value) < x * 8192 + 939524096 + 4096
    BY SMT, <2>1, <2>2, <2>3, NarrowNormal
  <2>5. RankOf(x) = x * 8192 + 939524096
    BY SMT, <2>4, NormalRank
  <2>6. Rank(value) \in Int
    <3>1. value.exponent \in Nat /\ value.mantissa \in Nat
      BY SMT, <2>1, FloatParts
    <3> QED BY SMT, <3>1 DEF Rank
  <2> DEFINE d == Rank(value) - RankOf(x)
  <2>7. d \in Int /\ -4096 <= d /\ d <= 4095
    BY SMT, <2>4, <2>5, <2>6
  <2> HIDE DEF d
  <2>8. d \in -4096..4095
    BY SMT, <2>7
  <2> QED BY SMT, <2>8 DEF d, x
<1>2. ASSUME TypeOK, [Next]_vars
      PROVE  [turn = "write" /\ value.exponent \in 113..142 =>
                LET h == MagnitudeOf(half')
                IN  Rank(value) - RankOf(h) \in -4096..4095]_vars
  BY SMT, <1>1, <1>2
<1> QED BY <1>2, TypeCorrect, PTL DEF Spec, Nearest

\* No shift beyond the width of the word is asked for.
ShiftsDefined == \A f \in Floats : Defined(f)

LEMMA DefinedInvariant ==
    ASSUME ShiftsDefined
    PROVE  Spec => [](TypeOK /\ Defined(value))
<1>1. Init => Defined(value)
  <2>1. Single(0, 0, 0) \in Float /\ Single(0, 0, 0).exponent = 0
    BY SMT, SingleFloat
  <2>2. Defined(Single(0, 0, 0))
    BY SMT, <2>1 DEF Defined
  <2> QED BY SMT, <2>2 DEF Init, ShiftsDefined
<1>2. ASSUME TypeOK, Defined(value), [Next]_vars PROVE Defined(value)'
  <2>1. CASE value' = value
    BY SMT, <1>2, <2>1 DEF Defined
  <2>2. CASE Read
    <3>1. half \in Half /\ value' = HalfFloatToFloat(half)
      BY SMT, <1>2, <2>2 DEF Read, TypeOK
    <3>2. value' \in Float /\ (value'.exponent = 0 \/ value'.exponent >= 103)
      BY SMT, <3>1, WidenedType
    <3>3. value'.exponent \in Nat
      BY SMT, <3>2, FloatParts
    <3>4. value'.exponent = 0 \/ value'.exponent >= 82
      BY SMT, <3>2, <3>3
    <3> QED BY SMT, <3>2, <3>4 DEF Defined
  <2> QED BY SMT, <1>2, <2>1, <2>2 DEF Next, Write, vars
<1> QED BY <1>1, <1>2, TypeCorrect, PTL DEF Spec

\* No half lies strictly between a number and the half it is written as.
THEOREM NarrowingAdjacent ==
    ASSUME ShiftsDefined
    PROVE  Spec => Adjacent
<1>1. ASSUME TypeOK, Defined(value), Next, turn = "write", value.exponent # 255
      PROVE  LET h == MagnitudeOf(half')
             IN  /\ SignOf(half') = value.sign
                 /\ h \in 0..Infinity
                 /\ h > 0 => Rank(value) > RankOf(h - 1)
                 /\ h < Infinity => Rank(value) < RankOf(h + 1)
  <2> DEFINE h == MagnitudeOf(half')
  <2>1. value \in Float /\ half' \in FloatToHalfFloat(value)
    BY SMT, <1>1 DEF TypeOK, Next, Write, Read
  <2>2. h \in Magnitudes(value) /\ SignOf(half') = value.sign
    BY SMT, <2>1, SignedHalf
  <2> HIDE DEF h
  <2>3. /\ h \in Nat /\ h <= 31744
        /\ h > 0 => RankOf(h - 1) < Rank(value)
        /\ h < 31744 => Rank(value) < RankOf(h + 1)
    BY SMT, <1>1, <2>2, Neighbours
  <2>4. Infinity = 31744
    BY SMT DEF Infinity
  <2>5. h \in 0..Infinity
    <3>1. Infinity \in Int /\ h <= Infinity
      BY SMT, <2>3, <2>4
    <3> QED BY SMT, <2>3, <3>1
  <2>6. h > 0 => Rank(value) > RankOf(h - 1)
    <3>1. ASSUME h > 0 PROVE RankOf(h - 1) \in Nat
      <4>1. h - 1 \in Nat /\ h - 1 < 31744
        BY SMT, <2>3, <3>1
      <4> QED BY SMT, <4>1, RanksIncrease
    <3>2. Rank(value) \in Int
      <4>1. value.exponent \in Nat /\ value.mantissa \in Nat
        BY SMT, <2>1, FloatParts
      <4> QED BY SMT, <4>1 DEF Rank
    <3> QED BY SMT, <2>3, <3>1, <3>2
  <2> QED BY SMT, <2>2, <2>3, <2>4, <2>5, <2>6 DEF h
<1>2. ASSUME TypeOK, Defined(value), [Next]_vars
      PROVE  [turn = "write" /\ value.exponent # 255 =>
                LET h == MagnitudeOf(half')
                IN  /\ SignOf(half') = value.sign
                    /\ h \in 0..Infinity
                    /\ h > 0 => Rank(value) > RankOf(h - 1)
                    /\ h < Infinity => Rank(value) < RankOf(h + 1)]_vars
  BY SMT, <1>1, <1>2
<1> QED BY <1>2, DefinedInvariant, PTL DEF Spec, Adjacent

\* The larger of two numbers is not written as the smaller half.
THEOREM NarrowingMonotone ==
    ASSUME ShiftsDefined
    PROVE  Spec => []Monotone
<1>1. ASSUME TypeOK, Defined(value) PROVE Monotone
  <2>1. \A f \in Floats : Defined(f)
    BY Zenon DEF ShiftsDefined
  <2> QED BY SMT, <1>1, <2>1, NarrowKeepsOrder DEF Monotone
<1> QED BY <1>1, DefinedInvariant, PTL
=============================================================================
