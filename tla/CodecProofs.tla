---------------------------- MODULE CodecProofs ----------------------------
(***************************************************************************)
(* Decoder::Decode on any octets at all, and on those that Encoder::Encode *)
(* has written.  Every object decoded leaves the position further on and   *)
(* within the data; what stands whole in the data is decoded as it was     *)
(* encoded; and what has lost its last octets is decoded as nothing.       *)
(***************************************************************************)
EXTENDS Encoder, Decoder, VarCodecProofs, WellFoundedInduction

-----------------------------------------------------------------------------
(* Induction, without an operator: a set that has the first number and the *)
(* next of each of its numbers has them all.                               *)

\* A number that is not in the set, and the least of them.
LEMMA LeastOutside ==
    ASSUME NEW S, NEW n \in Nat, n \notin S
    PROVE  \E k \in Nat : k <= n /\ k \notin S /\ \A j \in Nat : j < k => j \in S
<1> DEFINE T == {k \in Nat : k \notin S /\ k <= n}
<1>1. T \subseteq Nat /\ T # {}
  OBVIOUS
<1>2. PICK k \in T : \A j \in T : ~(<<j, k>> \in OpToRel(<, Nat))
  BY <1>1, NatLessThanWellFounded, WFMin
<1>3. ASSUME NEW j \in Nat, j < k PROVE j \in S
  <2>1. <<j, k>> \in OpToRel(<, Nat)
    BY <1>3 DEF OpToRel
  <2>2. j <= n
    BY <1>3
  <2> QED BY <1>2, <2>1, <2>2
<1> QED BY <1>2, <1>3

\* Up to a bound.
LEMMA UpTo ==
    ASSUME NEW S, 0 \in S, NEW n \in Nat,
           \A k \in Nat : k < n /\ k \in S => k + 1 \in S
    PROVE  \A k \in 0..n : k \in S
<1> SUFFICES ASSUME NEW m \in 0..n, m \notin S PROVE FALSE
  OBVIOUS
<1>1. PICK k \in Nat : k <= m /\ k \notin S /\ \A j \in Nat : j < k => j \in S
  BY LeastOutside
<1>2. k # 0 /\ k - 1 \in Nat /\ k - 1 < k /\ k - 1 < n /\ (k - 1) + 1 = k
  BY <1>1
<1>3. k - 1 \in S
  BY <1>1, <1>2
<1> QED BY <1>1, <1>2, <1>3

\* From 0 to any number.
LEMMA Reaches ==
    ASSUME NEW S, NEW n \in Nat, 0 \in S, \A k \in Nat : k \in S => k + 1 \in S
    PROVE  n \in S
<1>1. \A k \in 0..n : k \in S
  BY UpTo
<1> QED BY <1>1

\* Downwards from n, each from all that are above.
LEMMA DownFrom ==
    ASSUME NEW S, NEW n \in Nat,
           \A k \in 0..n : (\A j \in 0..n : j > k => j \in S) => k \in S
    PROVE  \A k \in 0..n : k \in S
<1> DEFINE T == {k \in Nat : k <= n => n - k \in S}
<1>1. SUFFICES ASSUME NEW m \in 0..n, m \notin S PROVE FALSE
  OBVIOUS
<1>2. n - m \in Nat /\ n - m \notin T
  BY <1>1
<1>3. PICK k \in Nat : k <= n - m /\ k \notin T /\ \A j \in Nat : j < k => j \in T
  BY <1>2, LeastOutside
<1>4. n - k \in 0..n /\ n - k \notin S
  BY <1>1, <1>3
<1>5. ASSUME NEW j \in 0..n, j > n - k PROVE j \in S
  <2>1. n - j \in Nat /\ n - j < k /\ n - (n - j) = j /\ n - j <= n
    BY <1>5
  <2> QED BY <1>3, <2>1
<1> QED BY <1>4, <1>5

-----------------------------------------------------------------------------
(* One read after another.                                                 *)

IsRead(r) == r = Read(r.pos, r.count, r.threw, r.value)

\* Octets: what is in the buffer.
IsData(s) == s \in Seq(Byte)

\* A read that has left the position within the data.
At(s, r) ==
    /\ IsRead(r) /\ r.threw \in BOOLEAN
    /\ r.pos \in Nat /\ r.pos <= Len(s) /\ r.count \in Int

\* The read r goes on as t: not backwards, and it counts as it goes.
Moves(s, r, t) ==
    /\ At(s, t) /\ r.pos <= t.pos
    /\ ~t.threw => t.count - t.pos = r.count - r.pos

\* The fields of a read are those it is made of.
LEMMA Fields ==
    ASSUME NEW r, NEW pos, NEW count, NEW threw, NEW val,
           r = Read(pos, count, threw, val)
    PROVE  r.pos = pos /\ r.count = count /\ r.threw = threw /\ r.value = val /\ IsRead(r)
  BY DEF Read, IsRead

\* A read with another outcome or another value.
LEMMA Changed ==
    ASSUME NEW s, NEW r, At(s, r), NEW x
    PROVE  /\ At(s, Thrown(r)) /\ Thrown(r).threw /\ Thrown(r).pos = r.pos
           /\ [r EXCEPT !.value = x] = Read(r.pos, r.count, r.threw, x)
           /\ At(s, [r EXCEPT !.value = x])
<1> DEFINE pos == r.pos  count == r.count  threw == r.threw  val == r.value
           t == Thrown(r)  u == [r EXCEPT !.value = x]
<1>1. r = [pos |-> pos, count |-> count, threw |-> threw, value |-> val]
  BY DEF At, IsRead, Read
<1>2. /\ threw \in BOOLEAN /\ pos \in Nat /\ pos <= Len(s) /\ count \in Int
  BY DEF At
<1> HIDE DEF pos, count, threw, val
<1> DEFINE yes == TRUE
<1>3. t = [r EXCEPT !.threw = yes] /\ yes \in BOOLEAN /\ yes
  BY DEF Thrown
<1> HIDE DEF yes
<1>4. t = [pos |-> pos, count |-> count, threw |-> yes, value |-> val]
  BY <1>3, <1>1
<1>5. u = [pos |-> pos, count |-> count, threw |-> threw, value |-> x]
  BY <1>1
<1> HIDE DEF t, u
<1>6. t = Read(pos, count, yes, val) /\ u = Read(pos, count, threw, x)
  BY <1>4, <1>5 DEF Read
<1>7. t.pos = pos /\ t.count = count /\ t.threw = yes /\ IsRead(t)
  BY <1>6, Fields
<1>8. u.pos = pos /\ u.count = count /\ u.threw = threw /\ IsRead(u)
  BY <1>6, Fields
<1>9. At(s, t) /\ At(s, u)
  BY <1>3, <1>2, <1>7, <1>8 DEF At
<1> QED BY <1>3, <1>6, <1>7, <1>9 DEF pos, count, threw, val, t, u

\* One move after another.
LEMMA MovesFurther ==
    ASSUME NEW s, NEW r, NEW t, NEW u, At(s, r), Moves(s, r, t), Moves(s, t, u),
           ~u.threw => ~t.threw
    PROVE  Moves(s, r, u)
  BY DEF Moves, At

\* An integer: at least an octet.
LEMMA VarUintMoves ==
    ASSUME NEW s, IsData(s), NEW r, At(s, r)
    PROVE  LET v == DeserializeVarUint(s, r)
           IN  /\ Moves(s, r, v) /\ (~v.threw => v.value \in Nat /\ r.pos < v.pos)
               /\ r.pos < Len(s) => r.pos < v.pos
<1> DEFINE f == ReadVarUint(s, r.pos)  v == DeserializeVarUint(s, r)  q == f.pos
           n == NumberOf(f.value)
<1>1. r.pos \in Nat /\ r.pos <= Len(s) /\ r.count \in Int
  BY DEF At
<1>2. /\ f.threw \in BOOLEAN /\ q \in Nat /\ r.pos <= q /\ q <= Len(s)
      /\ ~f.threw => r.pos < q /\ n \in Nat
      /\ r.pos < Len(s) => r.pos < q
  BY <1>1, VarBounds DEF IsData
<1>3. CASE f.threw
  <2> DEFINE w == [r EXCEPT !.pos = q]
  <2>1. v = Thrown(w)
    BY <1>3, Zenon DEF DeserializeVarUint, Counted
  <2> HIDE DEF q, f, v
  <2>2. w = Read(q, r.count, r.threw, r.value)
    BY DEF At, IsRead, Read
  <2> HIDE DEF w
  <2>3. At(s, w) /\ w.pos = q
    BY <1>1, <1>2, <2>2, Fields DEF At
  <2>4. At(s, v) /\ v.threw /\ v.pos = q
    BY <2>1, <2>3, Changed
  <2> QED BY <1>2, <2>4 DEF Moves, v
<1>4. CASE ~f.threw
  <2>1. v = Read(q, r.count + q - r.pos, FALSE, n)
    BY <1>4, Zenon DEF DeserializeVarUint, Counted
  <2> HIDE DEF q, f, v, n
  <2>2. /\ v.pos = q /\ v.count = r.count + q - r.pos /\ ~v.threw /\ v.value = n
        /\ IsRead(v) /\ v.threw \in BOOLEAN
    BY <2>1, SMT DEF Read, IsRead
  <2>3. r.count + q - r.pos \in Int /\ (r.count + q - r.pos) - q = r.count - r.pos
    BY <1>1, <1>2
  <2> QED BY <1>2, <1>4, <2>2, <2>3 DEF Moves, At, v
<1> QED BY <1>3, <1>4

\* A word of at most five octets, and of eight.
LEMMA WordTops ==
    ASSUME NEW t \in Seq(Byte), Len(t) >= 1,
           (t[1] < 224 /\ Len(t) <= 3) \/ Len(t) = 5 \/ Len(t) = 9, t[1] < 224 => Len(t) <= 3
    PROVE  /\ Len(t) # 9 => VarUintWord(t)[1] = 0
           /\ Len(t) = 9 => \A j \in 1..5 : VarUintWord(t)[j] = t[j + 1]
<1> DEFINE w == VarUintWord(t)  a == Payload(t[1])  u == <<a>> \o Tail(t)
<1>1. Len(t) \in Nat /\ t # <<>> /\ t[1] \in Byte
  <2>1. Len(t) \in Nat
    BY LenProperties
  <2>2. 1 \in 1..Len(t)
    BY <2>1
  <2> QED BY <2>1, <2>2, ElementOfSeq, EmptySeq
<1>2. Tail(t) \in Seq(Byte) /\ Len(Tail(t)) = Len(t) - 1
      /\ \A i \in 1..Len(Tail(t)) : Tail(t)[i] = t[i + 1]
  BY <1>1, HeadTailProperties
<1>3. CASE t[1] < 224
  <2>1. w = Filled(u, 0)
    BY <1>3, Zenon DEF VarUintWord
  <2>2. Len(u) = Len(t)
    <3>1. a \in Int
      <4> DEFINE y == t[1]
      <4>1. y \in Byte
        BY <1>1
      <4> HIDE DEF y
      <4>2. Payload(y) \in Int
        BY <4>1 DEF Payload, Byte
      <4> QED BY <4>2 DEF y
    <3>2. <<a>> \in Seq(Int) /\ Len(<<a>>) = 1
      <4> HIDE DEF a
      <4> QED BY <3>1
    <3>4. Tail(t) \in Seq(Int)
      BY <1>2, BytesAreInts
    <3> HIDE DEF a
    <3> QED BY <1>1, <1>2, <3>2, <3>4, ConcatProperties
  <2> HIDE DEF u, w
  <2>3. Len(t) <= 3 /\ 1 <= 8 - Len(u)
    BY <1>1, <1>3, <2>2
  <2>4. w[1] = 0
    BY <2>1, <2>3 DEF Filled
  <2> QED BY <2>3, <2>4 DEF w
<1>4. CASE ~(t[1] < 224)
  <2> DEFINE r == Tail(t)
  <2>1. w = Filled(r, 0)
    BY <1>4, Zenon DEF VarUintWord
  <2>2. Len(t) = 5 \/ Len(t) = 9
    BY <1>4
  <2>5. Len(r) = Len(t) - 1 /\ \A i \in 1..Len(r) : r[i] = t[i + 1]
    BY <1>2
  <2> HIDE DEF w, r
  <2>3. CASE Len(t) = 5
    <3>1. 1 <= 8 - Len(r)
      BY <2>3, <2>5
    <3>2. w[1] = 0
      BY <2>1, <3>1 DEF Filled
    <3> QED BY <2>3, <3>2 DEF w
  <2>4. CASE Len(t) = 9
    <3>1. 8 - Len(r) = 0 /\ Len(r) = 8
      BY <2>4, <2>5
    <3>2. w = [i \in 1..8 |-> IF i <= 0 THEN 0 ELSE r[i - 0]]
      BY <2>1, <3>1, Zenon DEF Filled
    <3>3. \A j \in 1..5 : w[j] = r[j]
      BY <3>2
    <3>4. \A j \in 1..5 : w[j] = t[j + 1]
      <4> SUFFICES ASSUME NEW j \in 1..5 PROVE w[j] = t[j + 1]
        OBVIOUS
      <4>1. j \in 1..Len(r) /\ w[j] = r[j]
        BY <3>1, <3>3
      <4> QED BY <2>5, <4>1
    <3> QED BY <2>4, <3>4 DEF w
  <2> QED BY <2>2, <2>3, <2>4
<1> QED BY <1>3, <1>4

\* Unless the octets hold a VarUint close to 2^64, no number read is.
LEMMA SmallRead ==
    ASSUME NEW s, IsData(s), ~Wrapping(s), NEW r, At(s, r), ~DeserializeVarUint(s, r).threw
    PROVE  DeserializeVarUint(s, r).value <= Huge
<1> DEFINE p == r.pos  x == s[p + 1]  n == Following(x)  l == Len(s)  t == Take(s, p, n + 1)
           f == ReadVarUint(s, p)  v == DeserializeVarUint(s, r)  w == VarUintWord(t)
<1>1. l \in Nat /\ p \in Nat /\ p <= l
  BY LenProperties DEF At, IsData
<1>2. f = IF p + 1 > l THEN [threw |-> TRUE, pos |-> p, value |-> <<>>]
          ELSE IF n = -1 \/ p + 1 + n > l THEN [threw |-> TRUE, pos |-> p + 1, value |-> <<>>]
          ELSE [threw |-> FALSE, pos |-> p + 1 + n, value |-> w]
  BY Zenon DEF ReadVarUint, ReadVar
<1>3. v = IF f.threw THEN Thrown([r EXCEPT !.pos = f.pos])
          ELSE Read(f.pos, r.count + f.pos - r.pos, FALSE, NumberOf(f.value))
  BY Zenon DEF DeserializeVarUint, Counted
<1>4. ~f.threw
  <2>1. CASE f.threw
    <3> DEFINE u == [r EXCEPT !.pos = f.pos]
    <3>1. v = Thrown(u)
      BY <1>3, <2>1, Zenon
    <3>2. f.pos \in Nat /\ f.pos <= l
      BY <1>1, VarBounds DEF IsData
    <3>3. At(s, u)
      <4>1. u = [r EXCEPT !.pos = f.pos]
        OBVIOUS
      <4>2. u = Read(f.pos, r.count, r.threw, r.value)
        BY DEF At, IsRead, Read
      <4> HIDE DEF u, f
      <4> QED BY <3>2, <4>2, Fields DEF At
    <3> HIDE DEF u
    <3>4. v.threw
      BY <3>1, <3>3, Changed
    <3> QED BY <3>4
  <2> QED BY <2>1
<1>5. v.value = NumberOf(f.value)
  <2> DEFINE c == r.count + f.pos - r.pos  m == NumberOf(f.value)
  <2>1. v = Read(f.pos, c, FALSE, m)
    BY <1>3, <1>4, Zenon
  <2> HIDE DEF v, f, c, m
  <2>2. v.value = m
    BY <2>1, SMT DEF Read
  <2> QED BY <2>2 DEF m
<1>6. ~(p + 1 > l) /\ n # -1 /\ ~(p + 1 + n > l) /\ f.value = w
  <2> HIDE DEF w, n, l, p, f
  <2> QED BY <1>2, <1>4
<1>7. x \in Byte
  <2>1. p + 1 \in 1..l
    BY <1>1, <1>6
  <2> QED BY <2>1, ElementOfSeq DEF IsData
<1>8. /\ n \in Nat /\ (x < 224 => n <= 2) /\ (x < 224 \/ n = 4 \/ n = 8)
      /\ n = 8 => x = 226
  <2>1. x \in Int /\ n # -1
    BY <1>6, <1>7 DEF Byte
  <2> HIDE DEF x
  <2> QED BY <2>1 DEF Following
<1>9. t \in Seq(Byte) /\ Len(t) = n + 1 /\ \A i \in 1..(n + 1) : t[i] = s[p + i]
  <2> HIDE DEF n
  <2>1. \A i \in 1..(n + 1) : s[p + i] \in Byte
    <3> SUFFICES ASSUME NEW i \in 1..(n + 1) PROVE s[p + i] \in Byte
      OBVIOUS
    <3>1. p + i \in 1..l
      BY <1>1, <1>6, <1>8
    <3> QED BY <3>1, ElementOfSeq DEF IsData
  <2> QED BY <1>8, <2>1 DEF Take
<1>10. t[1] = x
  BY <1>8, <1>9
<1> HIDE DEF t
<1>11. /\ Len(t) # 9 => w[1] = 0
       /\ Len(t) = 9 => \A j \in 1..5 : w[j] = t[j + 1]
  <2> HIDE DEF n, x
  <2>1. /\ Len(t) >= 1 /\ (t[1] < 224 => Len(t) <= 3)
        /\ (t[1] < 224 /\ Len(t) <= 3) \/ Len(t) = 5 \/ Len(t) = 9
    BY <1>8, <1>9, <1>10
  <2> QED BY <1>9, <2>1, WordTops
<1>12. ~Leads(w, 5, 255)
  <2> SUFFICES ASSUME Leads(w, 5, 255) PROVE FALSE
    OBVIOUS
  <2>1. \A j \in 1..5 : w[j] = 255
    BY DEF Leads
  <2> HIDE DEF w, n, x, p
  <2>2. Len(t) = 9 /\ n = 8
    BY <1>8, <1>9, <1>11, <2>1
  <2>3. \A j \in 1..5 : s[(p + 1) + j] = 255
    <3> SUFFICES ASSUME NEW j \in 1..5 PROVE s[(p + 1) + j] = 255
      OBVIOUS
    <3>1. w[j] = 255 /\ w[j] = t[j + 1]
      BY <1>11, <2>1, <2>2
    <3>2. t[j + 1] = s[p + (j + 1)]
      BY <1>9, <2>2
    <3>3. p + (j + 1) = (p + 1) + j
      BY <1>1
    <3> QED BY <3>1, <3>2, <3>3
  <2>4. p + 1 \in 1..(l - 8) /\ s[p + 1] = 226
    BY <1>1, <1>6, <1>8, <2>2 DEF x
  <2> QED BY <2>3, <2>4 DEF Wrapping
<1>13. NumberOf(w) <= Huge
  <2>1. w \in Word
    <3>1. Len(t) \in Nat /\ Len(t) # 0 /\ n = Len(t) - 1
      BY <1>8, <1>9
    <3>2. Following(t[1]) = Len(t) - 1
      BY <1>10, <3>1
    <3> HIDE DEF n
    <3> QED BY <1>9, <3>1, <3>2, UintIsWord
  <2> HIDE DEF w
  <2>2. w[6] \in 0..255 /\ w[7] \in 0..255 /\ w[8] \in 0..255
    BY <2>1 DEF Word, Byte
  <2>3. Low24(w) \in Nat /\ Low24(w) <= Huge
    <3> DEFINE a == w[6]  b == w[7]  c == w[8]
    <3>1. Low24(w) = 65536 * a + 256 * b + c
      BY DEF Low24
    <3>2. a \in 0..255 /\ b \in 0..255 /\ c \in 0..255
      BY <2>2
    <3> HIDE DEF a, b, c
    <3>3. 65536 * a + 256 * b + c \in Nat /\ 65536 * a + 256 * b + c <= 16777216
      BY <3>2
    <3> QED BY <3>1, <3>3 DEF Huge
  <2> QED BY <1>12, <2>3 DEF NumberOf, Huge
<1> QED BY <1>5, <1>6, <1>13

\* n octets, if they are there.
LEMMA PlainMoves ==
    ASSUME NEW s, IsData(s), NEW r, At(s, r), NEW n \in Nat
    PROVE  Moves(s, r, DeserializePlain(s, r, n))
<1> DEFINE v == DeserializePlain(s, r, n)
           x == IF \A i \in 1..n : Take(s, r.pos, n)[i] = Take(s, r.pos, n)[1]
                THEN Take(s, r.pos, n)[1] ELSE Garbled
<1>1. r.pos \in Nat /\ r.pos <= Len(s) /\ r.count \in Int /\ Len(s) \in Nat
  BY LenProperties DEF At, IsData
<1>2. CASE r.pos + n > Len(s)
  <2>1. v = Thrown(r)
    BY <1>2, Zenon DEF DeserializePlain
  <2>2. At(s, Thrown(r)) /\ Thrown(r).threw /\ Thrown(r).pos = r.pos
    BY Changed
  <2> QED BY <1>1, <2>1, <2>2 DEF Moves
<1>3. CASE ~(r.pos + n > Len(s))
  <2>1. v = Read(r.pos + n, r.count + n, FALSE, x)
    BY <1>3, Zenon DEF DeserializePlain
  <2> HIDE DEF v, x
  <2>2. /\ v.pos = r.pos + n /\ v.count = r.count + n
        /\ ~v.threw /\ IsRead(v) /\ v.threw \in BOOLEAN
    BY <2>1, SMT DEF Read, IsRead
  <2>3. /\ r.count + n \in Int /\ r.pos + n \in Nat /\ r.pos + n <= Len(s) /\ r.pos <= r.pos + n
        /\ (r.count + n) - (r.pos + n) = r.count - r.pos
    BY <1>1, <1>3
  <2> QED BY <2>2, <2>3 DEF Moves, At, v
<1> QED BY <1>2, <1>3

\* A primitive of either sort.
LEMMA PrimitiveMoves ==
    ASSUME NEW s, IsData(s), NEW r, At(s, r), NEW n \in Nat
    PROVE  Moves(s, r, DeserializePrimitive(s, r, n))
  BY VarUintMoves, PlainMoves DEF DeserializePrimitive

\* Octets as they are, as many as a length field says.
LEMMA BlobMoves ==
    ASSUME NEW s, IsData(s), NEW r, At(s, r)
    PROVE  LET v == DeserializeBlob(s, r)
           IN  Moves(s, r, v) /\ (~v.threw => r.pos < v.pos)
<1> DEFINE v == DeserializeBlob(s, r)  size == DeserializeVarUint(s, r)
           n == size.value  x == Take(s, size.pos, n)
<1>1. r.pos \in Nat /\ r.pos <= Len(s) /\ r.count \in Int /\ Len(s) \in Nat
  BY LenProperties DEF At, IsData
<1>2. Moves(s, r, size) /\ (~size.threw => n \in Nat /\ r.pos < size.pos)
  BY VarUintMoves
<1>3. v = IF size.threw THEN size
          ELSE IF size.pos + n > Len(s) THEN Thrown(size)
          ELSE Read(size.pos + n, size.count + n, FALSE, x)
  BY Zenon DEF DeserializeBlob
<1> HIDE DEF v, size, n, x
<1>4. CASE size.threw
  BY <1>2, <1>3, <1>4 DEF v
<1>5. CASE ~size.threw /\ size.pos + n > Len(s)
  <2>1. At(s, Thrown(size)) /\ Thrown(size).threw /\ Thrown(size).pos = size.pos
    BY <1>2, Changed DEF Moves
  <2> QED BY <1>2, <1>3, <1>5, <2>1 DEF Moves, v
<1>6. CASE ~size.threw /\ ~(size.pos + n > Len(s))
  <2>1. /\ size.pos \in Nat /\ size.count \in Int /\ n \in Nat /\ r.pos < size.pos
        /\ size.count - size.pos = r.count - r.pos
    BY <1>2, <1>6 DEF Moves, At
  <2>2. v = Read(size.pos + n, size.count + n, FALSE, x)
    BY <1>3, <1>6, Zenon
  <2>3. /\ v.pos = size.pos + n /\ v.count = size.count + n
        /\ ~v.threw /\ IsRead(v) /\ v.threw \in BOOLEAN
    BY <2>2, SMT DEF Read, IsRead
  <2>4. /\ size.count + n \in Int /\ size.pos + n \in Nat /\ size.pos + n <= Len(s)
        /\ r.pos < size.pos + n /\ r.pos <= size.pos + n
        /\ (size.count + n) - (size.pos + n) = r.count - r.pos
    BY <1>1, <1>6, <2>1
  <2> QED BY <2>3, <2>4 DEF Moves, At, v
<1> QED BY <1>4, <1>5, <1>6

-----------------------------------------------------------------------------
(* The tables of fields: an entry is a number of octets, 0 for a VarUint.  *)

\* f[i] is the first i of the sequences ss, joined.
Joins(f, ss, S) ==
    /\ f[0] = <<>>
    /\ \A i \in 0..Len(ss) : f[i] \in Seq(S)
    /\ \A i \in 1..Len(ss) : f[i] = f[i - 1] \o ss[i]

\* FlattenSeq is the last of the partial joins: its fold's recursion unrolled.
LEMMA FlattenJoins ==
    ASSUME NEW S, NEW ss \in Seq(Seq(S))
    PROVE  \E f : Joins(f, ss, S) /\ FlattenSeq(ss) = f[Len(ss)]
<1> DEFINE n == Len(ss)
           Q == Seq(S)
           Cat(x, y) == x \o y
           F(g) == [i \in 1..n |-> IF i = 1 THEN ss[i] ELSE g[i - 1] \o ss[i]]
           flatten == CHOOSE g : g = F(g)
           Upto(k) == \E g : g = [i \in 1..(k + 1) |-> IF i = 1 THEN ss[i] ELSE g[i - 1] \o ss[i]]
           D == {k \in Nat : Upto(k)}
           e == <<>>
           f == [i \in 0..n |-> IF i = 0 THEN e ELSE flatten[i]]
<1>1. n \in Nat /\ \A i \in 1..n : ss[i] \in Q
  BY LenProperties, ElementOfSeq
<1>2. /\ e \in Q /\ \A x \in Q : Cat(e, x) = x
      /\ \A x, y \in Q : Cat(x, y) \in Q
  BY EmptySeq, ConcatEmptySeq, ConcatProperties
<1>3. CASE n = 0
  <2>1. FlattenSeq(ss) = e
    <3>1. FlattenSeq(ss) = ss
      BY <1>3, Zenon DEF FlattenSeq
    <3> QED BY <1>3, <3>1, EmptySeq
  <2> DEFINE g == [i \in 0..0 |-> e]
  <2> HIDE DEF n
  <2>2. /\ g[0] = e /\ (\A i \in 0..n : g[i] \in Q)
        /\ (\A i \in 1..n : g[i] = Cat(g[i - 1], ss[i])) /\ g[n] = e
    <3> HIDE DEF e, Q, Cat
    <3> QED BY <1>2, <1>3
  <2> HIDE DEF g
  <2> QED BY <2>1, <2>2, Zenon DEF Joins, n
<1>4. CASE n # 0
  <2>1. FlattenSeq(ss) = flatten[n]
    BY <1>4, Zenon DEF FlattenSeq
  <2> HIDE DEF n, f
  <2>2. 0 \in D
    <3> DEFINE g == [i \in 1..(0 + 1) |-> ss[i]]
    <3>1. g = [i \in 1..(0 + 1) |-> IF i = 1 THEN ss[i] ELSE g[i - 1] \o ss[i]]
      OBVIOUS
    <3> QED BY <3>1
  <2>3. ASSUME NEW k \in Nat, k \in D PROVE k + 1 \in D
    <3>1. PICK h : h = [i \in 1..(k + 1) |-> IF i = 1 THEN ss[i] ELSE h[i - 1] \o ss[i]]
      BY <2>3
    <3> DEFINE g == [i \in 1..(k + 1 + 1) |-> IF i <= k + 1 THEN h[i] ELSE Cat(h[k + 1], ss[k + 1 + 1])]
    <3>2. \A i \in 1..(k + 1) : h[i] = IF i = 1 THEN ss[i] ELSE Cat(h[i - 1], ss[i])
      BY <3>1, Zenon
    <3> HIDE DEF Cat
    <3>3. g = [i \in 1..(k + 1 + 1) |-> IF i = 1 THEN ss[i] ELSE Cat(g[i - 1], ss[i])]
      <4>1. ASSUME NEW i \in 1..(k + 1 + 1)
            PROVE  g[i] = IF i = 1 THEN ss[i] ELSE Cat(g[i - 1], ss[i])
        <5>1. CASE i <= k + 1
          <6>1. i \in 1..(k + 1) /\ g[i] = h[i] /\ (i # 1 => g[i - 1] = h[i - 1])
            BY <5>1
          <6> HIDE DEF g
          <6> QED BY <3>2, <6>1
        <5>2. CASE ~(i <= k + 1)
          <6>1. i = k + 1 + 1 /\ g[i] = Cat(h[k + 1], ss[i]) /\ g[i - 1] = h[k + 1] /\ i # 1
            BY <5>2
          <6> HIDE DEF g
          <6> QED BY <6>1
        <5> QED BY <5>1, <5>2
      <4> QED BY <4>1
    <3> HIDE DEF g
    <3>4. g = [i \in 1..(k + 1 + 1) |-> IF i = 1 THEN ss[i] ELSE g[i - 1] \o ss[i]]
      BY <3>3, Zenon DEF Cat
    <3>5. k + 1 \in Nat
      OBVIOUS
    <3> QED BY <3>4, <3>5, Zenon
  <2> DEFINE m == n - 1
  <2>4. m \in Nat /\ m + 1 = n
    BY <1>1, <1>4
  <2> HIDE DEF m
  <2>5. m \in D
    <3> HIDE DEF D
    <3> QED BY <2>2, <2>3, <2>4, Reaches
  <2>6. PICK g : g = F(g)
    BY <2>4, <2>5
  <2>7. flatten = F(flatten)
    BY <2>6, Zenon
  <2>8. \A i \in 1..n : flatten[i] = IF i = 1 THEN ss[i] ELSE Cat(flatten[i - 1], ss[i])
    BY <2>7, Zenon
  <2> HIDE DEF flatten, Q, Cat, e
  <2>9. f[0] = e /\ \A i \in 1..n : f[i] = flatten[i]
    BY <1>1 DEF f
  <2>10. \A i \in 1..n : f[i] = Cat(f[i - 1], ss[i])
    <3> SUFFICES ASSUME NEW i \in 1..n PROVE f[i] = Cat(f[i - 1], ss[i])
      OBVIOUS
    <3>1. CASE i = 1
      BY <1>1, <1>2, <2>8, <2>9, <3>1
    <3>2. CASE i # 1
      BY <1>1, <2>8, <2>9, <3>2
    <3> QED BY <3>1, <3>2
  <2>11. \A i \in 0..n : f[i] \in Q
    <3> DEFINE T == {j \in Nat : j <= n => f[j] \in Q}
    <3>1. 0 \in T
      BY <1>2, <2>9
    <3>2. ASSUME NEW j \in Nat, j \in T PROVE j + 1 \in T
      <4>1. SUFFICES ASSUME j + 1 <= n PROVE f[j + 1] \in Q
        OBVIOUS
      <4>2. j + 1 \in 1..n /\ (j + 1) - 1 = j /\ f[j] \in Q
        BY <1>1, <3>2, <4>1
      <4> QED BY <1>1, <1>2, <2>10, <4>2
    <3>3. \A j \in Nat : j \in T
      <4> HIDE DEF T
      <4> QED BY <3>1, <3>2, Reaches
    <3> QED BY <3>3
  <2>12. FlattenSeq(ss) = f[n]
    BY <1>1, <1>4, <2>1, <2>9
  <2> QED BY <2>9, <2>10, <2>11, <2>12, Zenon DEF Joins, n, e, Q, Cat
<1> QED BY <1>3, <1>4

\* Joining sequences makes a sequence.
LEMMA FlattenType ==
    ASSUME NEW S, NEW ss \in Seq(Seq(S))
    PROVE  FlattenSeq(ss) \in Seq(S)
<1>1. PICK f : Joins(f, ss, S) /\ FlattenSeq(ss) = f[Len(ss)]
  BY FlattenJoins
<1>2. Len(ss) \in 0..Len(ss)
  BY LenProperties
<1> QED BY <1>1, <1>2, Zenon DEF Joins

\* There is one way to join them.
LEMMA FlattenIs ==
    ASSUME NEW S, NEW ss \in Seq(Seq(S)), NEW g, Joins(g, ss, S)
    PROVE  FlattenSeq(ss) = g[Len(ss)]
<1> DEFINE n == Len(ss)  Cat(x, y) == x \o y
<1>1. PICK f : Joins(f, ss, S) /\ FlattenSeq(ss) = f[Len(ss)]
  BY FlattenJoins
<1>2. n \in Nat
  BY LenProperties
<1>3. f[0] = g[0] /\ \A i \in 1..n : f[i] = Cat(f[i - 1], ss[i]) /\ g[i] = Cat(g[i - 1], ss[i])
  BY <1>1, Zenon DEF Joins
<1> DEFINE T == {j \in Nat : j <= n => f[j] = g[j]}
<1> HIDE DEF n, Cat
<1>4. 0 \in T
  BY <1>3
<1>5. ASSUME NEW j \in Nat, j \in T PROVE j + 1 \in T
  <2>1. SUFFICES ASSUME j + 1 <= n PROVE f[j + 1] = g[j + 1]
    OBVIOUS
  <2>2. j + 1 \in 1..n /\ (j + 1) - 1 = j /\ f[j] = g[j]
    BY <1>2, <1>5, <2>1
  <2> QED BY <1>3, <2>2
<1>6. n \in T
  <2> HIDE DEF T
  <2> QED BY <1>2, <1>4, <1>5, Reaches
<1> QED BY <1>1, <1>2, <1>6 DEF n

\* n copies of a sequence.
LEMMA CopiesType ==
    ASSUME NEW S, NEW s \in Seq(S), NEW n \in Nat
    PROVE  Copies(n, s) \in Seq(S)
<1> DEFINE ss == [i \in 1..n |-> s]
<1>1. ss \in Seq(Seq(S))
  BY SeqDef
<1> HIDE DEF ss
<1>2. FlattenSeq(ss) \in Seq(S)
  BY <1>1, FlattenType
<1> QED BY <1>2 DEF Copies, ss

\* Every table entry is a sequence of numbers.
LEMMA TableTypes ==
    ASSUME NEW type \in DOMAIN PrimitivesRead
    PROVE  PrimitivesRead[type] \in Seq(Nat)
<1>1. <<0>> \in Seq(Nat) /\ <<1>> \in Seq(Nat) /\ <<2>> \in Seq(Nat) /\ <<4>> \in Seq(Nat)
      /\ <<0, 0>> \in Seq(Nat)
  OBVIOUS
<1> DEFINE fours == Copies(3, <<4>>)  twos == Copies(3, <<2>>)  sixes == Copies(6, <<2>>)
<1>2. fours \in Seq(Nat) /\ twos \in Seq(Nat) /\ sixes \in Seq(Nat)
  BY <1>1, CopiesType
<1> HIDE DEF fours, twos, sixes
<1>3. fours \o twos \in Seq(Nat)
  BY <1>2, ConcatProperties
<1>4. Copies(4, twos) \in Seq(Nat) /\ Copies(5, twos) \in Seq(Nat)
  BY <1>2, CopiesType
<1>5. /\ ReadLoc1 \in Seq(Nat) /\ ReadLoc2 \in Seq(Nat) /\ ReadNorm1 \in Seq(Nat)
      /\ ReadTextureUV1 \in Seq(Nat) /\ ReadRot1 \in Seq(Nat) /\ ReadRot2 \in Seq(Nat)
      /\ ReadTransform1 \in Seq(Nat) /\ ReadThumb \in Seq(Nat) /\ ReadFinger \in Seq(Nat)
  BY <1>1, <1>2, <1>3, <1>4, Zenon
     DEF ReadLoc1, ReadLoc2, ReadNorm1, ReadTextureUV1, ReadRot1, ReadRot2, ReadTransform1,
         ReadThumb, ReadFinger, fours, twos, sixes
<1> HIDE DEF fours, twos, sixes
<1> DEFINE R == Seq(Nat)
<1>6. /\ <<0>> \in R /\ <<1>> \in R /\ <<2>> \in R
      /\ ReadLoc1 \in R /\ ReadLoc2 \in R /\ ReadNorm1 \in R
      /\ ReadTextureUV1 \in R /\ ReadRot1 \in R /\ ReadRot2 \in R
      /\ ReadTransform1 \in R /\ ReadThumb \in R /\ ReadFinger \in R
  BY <1>1, <1>5
<1> DEFINE zero == <<0>>  one == <<1>>  two == <<2>>
<1>7. PrimitivesRead =
        [VarUint |-> zero, Time1 |-> two, Boolean |-> one, Float16 |-> two,
         Loc1 |-> ReadLoc1, Loc2 |-> ReadLoc2, Norm1 |-> ReadNorm1,
         TextureUV1 |-> ReadTextureUV1, Rot1 |-> ReadRot1, Rot2 |-> ReadRot2,
         Transform1 |-> ReadTransform1, Thumb |-> ReadThumb, Finger |-> ReadFinger]
  BY DEF PrimitivesRead
<1>8. zero \in R /\ one \in R /\ two \in R
  BY <1>6
<1> HIDE DEF zero, one, two, R
<1>9. PrimitivesRead[type] \in R
  BY <1>6, <1>7, <1>8, SMTT(30)
<1> QED BY <1>9 DEF R

\* The types of the fields are in the table.
LEMMA FieldTypes ==
    ASSUME NEW kind \in DOMAIN ReadFields
    PROVE  /\ Len(ReadFields[kind]) \in Nat
           /\ \A i \in 1..Len(ReadFields[kind]) : ReadFields[kind][i].type \in DOMAIN PrimitivesRead
<1> DEFINE names == DOMAIN PrimitivesRead
           OK(fields) == /\ Len(fields) \in Nat
                         /\ \A i \in 1..Len(fields) : fields[i].type \in names
<1>1. /\ "VarUint" \in names /\ "Time1" \in names /\ "Boolean" \in names /\ "Float16" \in names
      /\ "Loc1" \in names /\ "Loc2" \in names /\ "Norm1" \in names /\ "TextureUV1" \in names
      /\ "Rot1" \in names /\ "Rot2" \in names /\ "Transform1" \in names /\ "Thumb" \in names
      /\ "Finger" \in names
  BY DEF PrimitivesRead
<1> HIDE DEF names
<1>2. OK(ReadHead1) /\ OK(ReadHand1) /\ OK(ReadMesh1) /\ OK(ReadHeadIPD1) /\ OK(ReadObject1)
  BY <1>1 DEF ReadHead1, ReadHand1, ReadMesh1, ReadHeadIPD1, ReadObject1, Item, Items
<1>3. OK(ReadHand2)
  BY <1>1, SMTT(30) DEF ReadHand2, Item
<1> HIDE DEF OK
<1>4. OK(ReadFields[kind])
  BY <1>2, <1>3 DEF ReadFields
<1> QED BY <1>4 DEF OK, names

-----------------------------------------------------------------------------
(* Reads one after the other.  Each of the three functions made of Repeat  *)
(* defines its run recursively: what satisfies the equation exists by      *)
(* induction, so the run does, and RunMoves is about any such run.         *)

\* A read with another value.
LEMMA Revalued ==
    ASSUME NEW s, NEW r, At(s, r), NEW x, NEW t, t = [r EXCEPT !.value = x]
    PROVE  /\ At(s, t) /\ t.pos = r.pos /\ t.count = r.count /\ t.value = x
           /\ t.threw <=> r.threw
<1>1. t = Read(r.pos, r.count, r.threw, x) /\ At(s, t)
  BY Changed
<1>2. t.pos = r.pos /\ t.count = r.count /\ t.threw = r.threw /\ t.value = x
  BY <1>1, Fields
<1> QED BY <1>1, <1>2

\* It moves as far.
LEMMA MovesRevalued ==
    ASSUME NEW s, NEW r, NEW t, Moves(s, r, t), NEW x
    PROVE  Moves(s, r, [t EXCEPT !.value = x])
<1> DEFINE u == [t EXCEPT !.value = x]
<1>1. u = [t EXCEPT !.value = x] /\ At(s, t)
  BY DEF Moves
<1> HIDE DEF u
<1>2. At(s, u) /\ u.pos = t.pos /\ u.count = t.count /\ (u.threw <=> t.threw)
  BY <1>1, Revalued
<1>3. Moves(s, r, u)
  BY <1>2 DEF Moves
<1> QED BY <1>3 DEF u

\* A step after a read: it moves, or the exception stays.
LEMMA ThenMoves ==
    ASSUME NEW s, NEW r, At(s, r), NEW b, NEW t, Moves(s, r, b), Moves(s, b, t)
    PROVE  Moves(s, r, Then(b, t))
<1>1. CASE b.threw
  BY <1>1 DEF Then
<1>2. CASE ~b.threw
  <2>1. Moves(s, r, t)
    BY <1>2, MovesFurther
  <2> DEFINE x == Append(b.value, t.value)
  <2>2. Then(b, t) = [t EXCEPT !.value = x]
    BY <1>2 DEF Then
  <2> HIDE DEF x
  <2> QED BY <2>1, <2>2, MovesRevalued
<1> QED BY <1>1, <1>2

\* f is what n reads from r come to, one after the other, and g what each
\* of them gives.
Runs(f, n, r, g) ==
    /\ f[0] = [r EXCEPT !.value = <<>>]
    /\ \A i \in 1..n : f[i] = Then(f[i - 1], g[i])

\* A run moves, whatever its steps are.
LEMMA RunMoves ==
    ASSUME NEW s, NEW n \in Nat, NEW r, At(s, r), NEW f, NEW g,
           Runs(f, n, r, g),
           \A i \in 1..n : At(s, f[i - 1]) => Moves(s, f[i - 1], g[i])
    PROVE  Moves(s, r, f[n])
<1> DEFINE T == {i \in Nat : i <= n => Moves(s, r, f[i])}
<1>1. Moves(s, r, r)
  BY DEF Moves, At
<1>2. 0 \in T
  <2>1. Moves(s, r, [r EXCEPT !.value = <<>>])
    BY <1>1, MovesRevalued
  <2>2. Moves(s, r, f[0])
    BY <2>1, Zenon DEF Runs
  <2> QED BY <2>2
<1>3. ASSUME NEW i \in Nat, i \in T PROVE i + 1 \in T
  <2>1. SUFFICES ASSUME i + 1 <= n PROVE Moves(s, r, f[i + 1])
    OBVIOUS
  <2>2. i + 1 \in 1..n /\ (i + 1) - 1 = i /\ Moves(s, r, f[i])
    BY <1>3, <2>1
  <2>3. At(s, f[i])
    BY <2>2 DEF Moves
  <2>4. f[i + 1] = Then(f[i], g[i + 1]) /\ Moves(s, f[i], g[i + 1])
    BY <2>2, <2>3 DEF Runs
  <2> QED BY <2>2, <2>4, ThenMoves
<1>4. n \in T
  <2> HIDE DEF T
  <2> QED BY <1>2, <1>3, Reaches
<1> QED BY <1>4

\* A field is read by a run of n reads.
FieldReads(type, s, r, n) ==
    \E f, g :
        /\ Runs(f, n, r, g)
        /\ \A i \in 1..n : g[i] = DeserializePrimitive(s, f[i - 1], PrimitivesRead[type][i])
        /\ DeserializeField(type, s, r) = f[n]

\* DeserializeField makes a run.
LEMMA FieldRun ==
    ASSUME NEW type \in DOMAIN PrimitivesRead, NEW s, NEW r
    PROVE  FieldReads(type, s, r, Len(PrimitivesRead[type]))
<1> DEFINE n == Len(PrimitivesRead[type])
           start == [r EXCEPT !.value = <<>>]
           Step(p, i) == DeserializePrimitive(s, p, PrimitivesRead[type][i])
<1>1. n \in Nat
  BY TableTypes, LenProperties
<1> DEFINE F(f) == [i \in 0..n |-> IF i = 0 THEN start ELSE Then(f[i - 1], Step(f[i - 1], i))]
           run == CHOOSE f : f = F(f)
           D == {k \in Nat : \E f :
                   f = [i \in 0..k |-> IF i = 0 THEN start ELSE Then(f[i - 1], Step(f[i - 1], i))]}
<1>2. DeserializeField(type, s, r) = run[n]
  BY Zenon DEF DeserializeField, Repeat
<1> HIDE DEF Step, start, n
<1>3. 0 \in D
  <2> DEFINE f == [i \in 0..0 |-> start]
  <2>1. f = [i \in 0..0 |-> IF i = 0 THEN start ELSE Then(f[i - 1], Step(f[i - 1], i))]
    OBVIOUS
  <2> QED BY <2>1
<1>4. ASSUME NEW k \in Nat, k \in D PROVE k + 1 \in D
  <2>1. PICK f : f = [i \in 0..k |-> IF i = 0 THEN start ELSE Then(f[i - 1], Step(f[i - 1], i))]
    BY <1>4
  <2> DEFINE g == [i \in 0..(k + 1) |-> IF i <= k THEN f[i] ELSE Then(f[k], Step(f[k], k + 1))]
  <2>2. ASSUME NEW i \in 0..(k + 1)
        PROVE  g[i] = IF i = 0 THEN start ELSE Then(g[i - 1], Step(g[i - 1], i))
    <3>1. CASE i <= k
      <4>1. i \in 0..k /\ g[i] = f[i] /\ (i # 0 => g[i - 1] = f[i - 1])
        BY <3>1
      <4> HIDE DEF g
      <4> QED BY <2>1, <4>1
    <3>2. CASE ~(i <= k)
      <4>1. i = k + 1 /\ i # 0 /\ g[i] = Then(f[k], Step(f[k], i)) /\ g[i - 1] = f[k]
        BY <3>2
      <4> HIDE DEF g
      <4> QED BY <4>1
    <3> QED BY <3>1, <3>2
  <2>3. g = [i \in 0..(k + 1) |-> IF i = 0 THEN start ELSE Then(g[i - 1], Step(g[i - 1], i))]
    BY <2>2
  <2> HIDE DEF g
  <2> QED BY <2>3
<1>5. n \in D
  <2> HIDE DEF D
  <2> QED BY <1>1, <1>3, <1>4, Reaches
<1>6. PICK f : f = F(f)
  BY <1>5
<1>7. run = F(run)
  BY <1>6, Zenon
<1> HIDE DEF run
<1> DEFINE g == [i \in 1..n |-> Step(run[i - 1], i)]
<1>8. run[0] = start /\ \A i \in 1..n : run[i] = Then(run[i - 1], g[i])
  BY <1>1, <1>7
<1>9. \A i \in 1..n : g[i] = Step(run[i - 1], i)
  OBVIOUS
<1> HIDE DEF g
<1>10. Runs(run, n, r, g)
  BY <1>8, Zenon DEF Runs, start
<1> QED BY <1>2, <1>9, <1>10, Zenon DEF FieldReads, Step, n

\* A vector is read by its length and a run of n reads.
VectorRead(type, s, r, n) ==
    \E f, g :
        /\ Runs(f, n, DeserializeVarUint(s, r), g)
        /\ \A i \in 1..n : g[i] = DeserializeField(type, s, f[i - 1])
        /\ DeserializeVector(type, s, r) = f[n]

\* DeserializeVector makes one after its length.
LEMMA VectorRun ==
    ASSUME NEW type, NEW s, NEW r, NEW size, size = DeserializeVarUint(s, r), ~size.threw,
           NEW n \in Nat, n = IF size.value <= Len(s) THEN size.value ELSE Len(s) + 1
    PROVE  VectorRead(type, s, r, n)
<1> DEFINE start == [size EXCEPT !.value = <<>>]
           Step(p, i) == DeserializeField(type, s, p)
<1>1. n \in Nat
  OBVIOUS
<1> DEFINE F(f) == [i \in 0..n |-> IF i = 0 THEN start ELSE Then(f[i - 1], Step(f[i - 1], i))]
           run == CHOOSE f : f = F(f)
           D == {k \in Nat : \E f :
                   f = [i \in 0..k |-> IF i = 0 THEN start ELSE Then(f[i - 1], Step(f[i - 1], i))]}
<1>2. DeserializeVector(type, s, r) = run[n]
  BY Zenon DEF DeserializeVector, Repeat
<1> HIDE DEF Step, start
<1>3. 0 \in D
  <2> DEFINE f == [i \in 0..0 |-> start]
  <2>1. f = [i \in 0..0 |-> IF i = 0 THEN start ELSE Then(f[i - 1], Step(f[i - 1], i))]
    OBVIOUS
  <2> QED BY <2>1
<1>4. ASSUME NEW k \in Nat, k \in D PROVE k + 1 \in D
  <2>1. PICK f : f = [i \in 0..k |-> IF i = 0 THEN start ELSE Then(f[i - 1], Step(f[i - 1], i))]
    BY <1>4
  <2> DEFINE g == [i \in 0..(k + 1) |-> IF i <= k THEN f[i] ELSE Then(f[k], Step(f[k], k + 1))]
  <2>2. ASSUME NEW i \in 0..(k + 1)
        PROVE  g[i] = IF i = 0 THEN start ELSE Then(g[i - 1], Step(g[i - 1], i))
    <3>1. CASE i <= k
      <4>1. i \in 0..k /\ g[i] = f[i] /\ (i # 0 => g[i - 1] = f[i - 1])
        BY <3>1
      <4> HIDE DEF g
      <4> QED BY <2>1, <4>1
    <3>2. CASE ~(i <= k)
      <4>1. i = k + 1 /\ i # 0 /\ g[i] = Then(f[k], Step(f[k], i)) /\ g[i - 1] = f[k]
        BY <3>2
      <4> HIDE DEF g
      <4> QED BY <4>1
    <3> QED BY <3>1, <3>2
  <2>3. g = [i \in 0..(k + 1) |-> IF i = 0 THEN start ELSE Then(g[i - 1], Step(g[i - 1], i))]
    BY <2>2
  <2> HIDE DEF g
  <2> QED BY <2>3
<1>5. n \in D
  <2> HIDE DEF D
  <2> QED BY <1>1, <1>3, <1>4, Reaches
<1>6. PICK f : f = F(f)
  BY <1>5
<1>7. run = F(run)
  BY <1>6, Zenon
<1> HIDE DEF run
<1> DEFINE g == [i \in 1..n |-> Step(run[i - 1], i)]
<1>8. run[0] = start /\ \A i \in 1..n : run[i] = Then(run[i - 1], g[i])
  BY <1>1, <1>7
<1>9. \A i \in 1..n : g[i] = Step(run[i - 1], i)
  OBVIOUS
<1> HIDE DEF g
<1>10. Runs(run, n, size, g)
  BY <1>8, Zenon DEF Runs, start
<1>11. size = DeserializeVarUint(s, r)
  OBVIOUS
<1> QED BY <1>2, <1>9, <1>10, <1>11, Zenon DEF VectorRead, Step

\* The i-th field of an object of some kind.
FieldRead(kind, s, p, i) ==
    IF ReadFields[kind][i].many THEN DeserializeVector(ReadFields[kind][i].type, s, p)
    ELSE DeserializeField(ReadFields[kind][i].type, s, p)

\* The fields are read by a run of n reads.
FieldsRead(kind, s, r, n) ==
    \E f, g :
        /\ Runs(f, n, r, g)
        /\ \A i \in 1..n : g[i] = FieldRead(kind, s, f[i - 1], i)
        /\ DeserializeFields(kind, s, r) = Assembled(kind, f[n])

\* DeserializeFields makes one of a kind's fields.
LEMMA FieldsRun ==
    ASSUME NEW kind \in DOMAIN ReadFields, NEW s, NEW r
    PROVE  FieldsRead(kind, s, r, Len(ReadFields[kind]))
<1> DEFINE n == Len(ReadFields[kind])
           start == [r EXCEPT !.value = <<>>]
           Step(p, i) == FieldRead(kind, s, p, i)
<1>1. n \in Nat
  BY FieldTypes
<1> DEFINE F(f) == [i \in 0..n |-> IF i = 0 THEN start ELSE Then(f[i - 1], Step(f[i - 1], i))]
           run == CHOOSE f : f = F(f)
           D == {k \in Nat : \E f :
                   f = [i \in 0..k |-> IF i = 0 THEN start ELSE Then(f[i - 1], Step(f[i - 1], i))]}
<1>2. DeserializeFields(kind, s, r) = Assembled(kind, run[n])
  BY Zenon DEF DeserializeFields, FieldRead, Repeat
<1> HIDE DEF Step, start, n
<1>3. 0 \in D
  <2> DEFINE f == [i \in 0..0 |-> start]
  <2>1. f = [i \in 0..0 |-> IF i = 0 THEN start ELSE Then(f[i - 1], Step(f[i - 1], i))]
    OBVIOUS
  <2> QED BY <2>1
<1>4. ASSUME NEW k \in Nat, k \in D PROVE k + 1 \in D
  <2>1. PICK f : f = [i \in 0..k |-> IF i = 0 THEN start ELSE Then(f[i - 1], Step(f[i - 1], i))]
    BY <1>4
  <2> DEFINE g == [i \in 0..(k + 1) |-> IF i <= k THEN f[i] ELSE Then(f[k], Step(f[k], k + 1))]
  <2>2. ASSUME NEW i \in 0..(k + 1)
        PROVE  g[i] = IF i = 0 THEN start ELSE Then(g[i - 1], Step(g[i - 1], i))
    <3>1. CASE i <= k
      <4>1. i \in 0..k /\ g[i] = f[i] /\ (i # 0 => g[i - 1] = f[i - 1])
        BY <3>1
      <4> HIDE DEF g
      <4> QED BY <2>1, <4>1
    <3>2. CASE ~(i <= k)
      <4>1. i = k + 1 /\ i # 0 /\ g[i] = Then(f[k], Step(f[k], i)) /\ g[i - 1] = f[k]
        BY <3>2
      <4> HIDE DEF g
      <4> QED BY <4>1
    <3> QED BY <3>1, <3>2
  <2>3. g = [i \in 0..(k + 1) |-> IF i = 0 THEN start ELSE Then(g[i - 1], Step(g[i - 1], i))]
    BY <2>2
  <2> HIDE DEF g
  <2> QED BY <2>3
<1>5. n \in D
  <2> HIDE DEF D
  <2> QED BY <1>1, <1>3, <1>4, Reaches
<1>6. PICK f : f = F(f)
  BY <1>5
<1>7. run = F(run)
  BY <1>6, Zenon
<1> HIDE DEF run
<1> DEFINE g == [i \in 1..n |-> Step(run[i - 1], i)]
<1>8. run[0] = start /\ \A i \in 1..n : run[i] = Then(run[i - 1], g[i])
  BY <1>1, <1>7
<1>9. \A i \in 1..n : g[i] = Step(run[i - 1], i)
  OBVIOUS
<1> HIDE DEF g
<1>10. Runs(run, n, r, g)
  BY <1>8, Zenon DEF Runs, start
<1> QED BY <1>2, <1>9, <1>10, Zenon DEF FieldsRead, Step, n

\* A field.
LEMMA FieldMoves ==
    ASSUME NEW s, IsData(s), NEW r, At(s, r), NEW type \in DOMAIN PrimitivesRead
    PROVE  Moves(s, r, DeserializeField(type, s, r))
<1> DEFINE n == Len(PrimitivesRead[type])
<1>1. n \in Nat /\ \A i \in 1..n : PrimitivesRead[type][i] \in Nat
  BY TableTypes, LenProperties, ElementOfSeq
<1>2. PICK f, g : /\ Runs(f, n, r, g)
                  /\ \A i \in 1..n : g[i] = DeserializePrimitive(s, f[i - 1], PrimitivesRead[type][i])
                  /\ DeserializeField(type, s, r) = f[n]
  <2>1. FieldReads(type, s, r, n)
    BY FieldRun, Zenon
  <2> QED BY <2>1, Zenon DEF FieldReads
<1> HIDE DEF n
<1>3. \A i \in 1..n : At(s, f[i - 1]) => Moves(s, f[i - 1], g[i])
  BY <1>1, <1>2, PrimitiveMoves
<1> QED BY <1>1, <1>2, <1>3, RunMoves

\* A vector.
LEMMA VectorMoves ==
    ASSUME NEW s, IsData(s), NEW r, At(s, r), NEW type \in DOMAIN PrimitivesRead
    PROVE  Moves(s, r, DeserializeVector(type, s, r))
<1> DEFINE v == DeserializeVector(type, s, r)  size == DeserializeVarUint(s, r)
           n == IF size.value <= Len(s) THEN size.value ELSE Len(s) + 1
<1>1. Moves(s, r, size) /\ At(s, size) /\ (~size.threw => size.value \in Nat)
  BY VarUintMoves DEF Moves
<1>2. CASE size.threw
  <2>1. v = size
    BY <1>2, Zenon DEF DeserializeVector
  <2> HIDE DEF size, v
  <2> QED BY <1>1, <2>1 DEF v
<1>3. CASE ~size.threw
  <2> HIDE DEF size
  <2>1. n \in Nat
    BY <1>1, <1>3, LenProperties DEF IsData
  <2> HIDE DEF n
  <2>2. PICK f, g : /\ Runs(f, n, size, g)
                    /\ \A i \in 1..n : g[i] = DeserializeField(type, s, f[i - 1])
                    /\ v = f[n]
    <3>1. size = DeserializeVarUint(s, r)
      BY DEF size
    <3>2. n = IF size.value <= Len(s) THEN size.value ELSE Len(s) + 1
      BY DEF n
    <3>3. VectorRead(type, s, r, n)
      BY <1>3, <2>1, <3>1, <3>2, VectorRun, Zenon
    <3> QED BY <3>1, <3>3, Zenon DEF VectorRead
  <2> HIDE DEF v
  <2>3. \A i \in 1..n : At(s, f[i - 1]) => Moves(s, f[i - 1], g[i])
    BY <2>2, FieldMoves
  <2>4. Moves(s, size, f[n])
    BY <1>1, <2>1, <2>2, <2>3, RunMoves
  <2>5. Moves(s, r, v)
    BY <1>1, <1>3, <2>2, <2>4, MovesFurther
  <2> QED BY <2>5 DEF v
<1> QED BY <1>2, <1>3

\* The kind is put in the record.
LEMMA WithKind ==
    ASSUME NEW kind, NEW g, NEW v, v = With(g, "kind", kind)
    PROVE  v.kind = kind /\ "kind" \in DOMAIN v
<1>1. v = [n \in DOMAIN g \cup {"kind"} |-> IF n = "kind" THEN kind ELSE g[n]]
  BY DEF With
<1>2. "kind" \in DOMAIN v /\ v["kind"] = kind
  BY <1>1
<1> QED BY <1>2

\* Making the record moves nothing.
LEMMA AssembledMoves ==
    ASSUME NEW s, NEW r, NEW all, Moves(s, r, all), NEW kind
    PROVE  /\ Moves(s, r, Assembled(kind, all))
           /\ ~Assembled(kind, all).threw =>
                /\ Assembled(kind, all).value.kind = kind
                /\ "kind" \in DOMAIN Assembled(kind, all).value
<1> DEFINE a == Assembled(kind, all)
           fields == ReadFields[kind]
           names  == {fields[i].name : i \in DOMAIN fields}
           g == [m \in names |-> all.value[CHOOSE i \in DOMAIN fields : fields[i].name = m]]
           x == With(g, "kind", kind)
<1>1. a = IF all.threw THEN all ELSE [all EXCEPT !.value = x]
  BY Zenon DEF Assembled
<1> HIDE DEF a, g
<1>2. x.kind = kind /\ "kind" \in DOMAIN x
  BY WithKind
<1> HIDE DEF x
<1>3. Moves(s, r, [all EXCEPT !.value = x]) /\ [all EXCEPT !.value = x].value = x
  <2>1. PICK t : t = [all EXCEPT !.value = x]
    OBVIOUS
  <2>2. t.value = x
    BY <2>1, Revalued DEF Moves
  <2> QED BY <2>1, <2>2, MovesRevalued
<1>4. CASE all.threw
  BY <1>1, <1>4 DEF a
<1>5. CASE ~all.threw
  <2>1. Moves(s, r, a) /\ a.value = x
    BY <1>1, <1>3, <1>5, Zenon
  <2> QED BY <1>2, <2>1 DEF a
<1> QED BY <1>4, <1>5

\* The fields of a kind.
LEMMA FieldsMove ==
    ASSUME NEW s, IsData(s), NEW r, At(s, r), NEW kind \in DOMAIN ReadFields
    PROVE  /\ Moves(s, r, DeserializeFields(kind, s, r))
           /\ ~DeserializeFields(kind, s, r).threw =>
                /\ DeserializeFields(kind, s, r).value.kind = kind
                /\ "kind" \in DOMAIN DeserializeFields(kind, s, r).value
<1> DEFINE n == Len(ReadFields[kind])
<1>1. n \in Nat /\ \A i \in 1..n : ReadFields[kind][i].type \in DOMAIN PrimitivesRead
  BY FieldTypes
<1> HIDE DEF n
<1>2. PICK f, g : /\ Runs(f, n, r, g)
                  /\ \A i \in 1..n : g[i] = FieldRead(kind, s, f[i - 1], i)
                  /\ DeserializeFields(kind, s, r) = Assembled(kind, f[n])
  <2>1. kind \in DOMAIN ReadFields
    OBVIOUS
  <2>2. FieldsRead(kind, s, r, n)
    BY <2>1, FieldsRun, Zenon DEF n
  <2> QED BY <2>2, Zenon DEF FieldsRead
<1> HIDE DEF n
<1>3. \A i \in 1..n : At(s, f[i - 1]) => Moves(s, f[i - 1], g[i])
  BY <1>1, <1>2, VectorMoves, FieldMoves DEF FieldRead
<1>4. Moves(s, r, f[n])
  BY <1>1, <1>2, <1>3, RunMoves
<1> QED BY <1>2, <1>4, AssembledMoves

-----------------------------------------------------------------------------
(* One object.                                                             *)

\* What Decode makes of position p, of nested for the positions further on.
ObjectAt(s, p, nested) ==
    LET tag  == DeserializeVarUint(s, Read(p, 0, FALSE, 0))
        kind == KindOf(tag.value)
        blob == DeserializeBlob(s, tag)
    IN  IF tag.threw \/ tag.value = 0 THEN Thrown(tag)
        ELSE IF kind = "Unknown"
        THEN [blob EXCEPT !.value = [kind |-> kind, tag |-> tag.value, data |-> @]]
        ELSE DecodeKnown(kind, s, tag, nested)

\* The position is further on than p, unless there were no octets.
MovesOn(s, p, o) == p <= o.pos /\ (p < Len(s) => p < o.pos)

\* What is said of it: the position is within the data; unless the octets hold
\* a VarUint close to 2^64 it is further on than p, and the octets counted for
\* an object are not a negative number; for a HeadIPD1 (which a Head1 may
\* decode) they are those that it took, whatever the octets.
Sound(s, p, o) ==
    /\ At(s, o)
    /\ ~Wrapping(s) => /\ MovesOn(s, p, o)
                       /\ ~o.threw => p < o.pos /\ o.count \in Nat
    /\ ~o.threw /\ o.value.kind = "HeadIPD1" => o.count = o.pos - p

Within(s, p) == p \in 0..Len(s)

\* All that is decoded further on than p is sound.
Further(s, p, nested) == \A n \in (p + 1)..Len(s) : Sound(s, n, nested[n])

\* Records changed in one field.
LEMMA Rebuilt ==
    ASSUME NEW r, IsRead(r), r.threw \in BOOLEAN, NEW x, NEW y
    PROVE  /\ [r EXCEPT !.count = y] = Read(r.pos, y, r.threw, r.value)
           /\ [r EXCEPT !.pos = x] = Read(x, r.count, r.threw, r.value)
<1> DEFINE pos == r.pos  count == r.count  threw == r.threw  val == r.value
<1>1. r = [pos |-> pos, count |-> count, threw |-> threw, value |-> val]
  BY DEF IsRead, Read
<1> HIDE DEF pos, count, threw, val
<1>2. [r EXCEPT !.count = y] = Read(pos, y, threw, val)
  BY <1>1 DEF Read
<1>3. [r EXCEPT !.pos = x] = Read(x, count, threw, val)
  BY <1>1 DEF Read
<1> QED BY <1>2, <1>3, Zenon DEF pos, count, threw, val

\* A read with another count.
LEMMA Recounted ==
    ASSUME NEW s, NEW r, At(s, r), NEW y \in Int, NEW t, t = [r EXCEPT !.count = y]
    PROVE  /\ At(s, t) /\ t.pos = r.pos /\ t.count = y /\ t.value = r.value
           /\ t.threw <=> r.threw
<1>1. t = Read(r.pos, y, r.threw, r.value)
  BY Rebuilt DEF At
<1>2. /\ t.pos = r.pos /\ t.count = y /\ t.threw = r.threw /\ t.value = r.value /\ IsRead(t)
  BY <1>1, Fields
<1> QED BY <1>2 DEF At

\* A read with another position.
LEMMA Placed ==
    ASSUME NEW s, NEW r, At(s, r), NEW x \in Nat, x <= Len(s), NEW t, t = [r EXCEPT !.pos = x]
    PROVE  /\ At(s, t) /\ t.pos = x /\ t.count = r.count /\ t.value = r.value
           /\ t.threw <=> r.threw
<1>1. t = Read(x, r.count, r.threw, r.value)
  BY Rebuilt DEF At
<1>2. /\ t.pos = x /\ t.count = r.count /\ t.threw = r.threw /\ t.value = r.value /\ IsRead(t)
  BY <1>1, Fields
<1> QED BY <1>2 DEF At

\* An exception with another count.
LEMMA ThrownCounted ==
    ASSUME NEW s, NEW r, At(s, r), NEW y \in Int, NEW t,
           t = [r EXCEPT !.threw = TRUE, !.count = y]
    PROVE  At(s, t) /\ t.pos = r.pos /\ t.threw
<1> DEFINE u == [r EXCEPT !.count = y]
<1>1. t = Thrown(u)
  <2>1. r = Read(r.pos, r.count, r.threw, r.value)
    BY DEF At, IsRead
  <2> QED BY <2>1 DEF Thrown, Read
<1>2. At(s, u) /\ u.pos = r.pos
  BY Recounted
<1> HIDE DEF u
<1>3. At(s, Thrown(u)) /\ Thrown(u).threw /\ Thrown(u).pos = u.pos
  BY <1>2, Changed
<1> QED BY <1>1, <1>2, <1>3

-----------------------------------------------------------------------------
(* The optional part, and what is left of the object.                      *)

\* The empty optional part leaves the kind.
LEMMA BlankKind ==
    ASSUME NEW kind, NEW v, v.kind = kind, "kind" \in DOMAIN v
    PROVE  Blank(kind, v).kind = kind /\ "kind" \in DOMAIN Blank(kind, v)
<1>1. ASSUME NEW name, name # "kind", NEW w, w = With(v, name, <<>>)
      PROVE  w.kind = kind /\ "kind" \in DOMAIN w
  <2>1. w = [n \in DOMAIN v \cup {name} |-> IF n = name THEN <<>> ELSE v[n]]
    BY <1>1 DEF With
  <2>2. "kind" \in DOMAIN w /\ w["kind"] = v["kind"]
    BY <1>1, <2>1
  <2> QED BY <2>2
<1> DEFINE w == Blank(kind, v)
<1>2. w = v \/ w = With(v, "parent", <<>>) \/ w = With(v, "ipd", <<>>)
  BY DEF Blank
<1> HIDE DEF w
<1>3. "parent" # "kind" /\ "ipd" # "kind"
  OBVIOUS
<1>4. w.kind = kind /\ "kind" \in DOMAIN w
  BY <1>1, <1>2, <1>3
<1> QED BY <1>4 DEF w

\* The parent of an Object1.
LEMMA ParentMoves ==
    ASSUME NEW s, NEW r, NEW parent, At(s, r), Moves(s, r, parent), "kind" \in DOMAIN r.value
    PROVE  /\ Moves(s, r, WithParent(r, parent))
           /\ ~WithParent(r, parent).threw => WithParent(r, parent).value.kind = r.value.kind
<1> DEFINE w == WithParent(r, parent)
           x == [r.value EXCEPT !.parent = <<parent.value>>]
<1>1. w = IF parent.threw THEN parent ELSE [parent EXCEPT !.value = x]
  BY Zenon DEF WithParent
<1> HIDE DEF w
<1>2. x.kind = r.value.kind
  OBVIOUS
<1> HIDE DEF x
<1>3. Moves(s, r, [parent EXCEPT !.value = x]) /\ [parent EXCEPT !.value = x].value = x
  <2>1. PICK t : t = [parent EXCEPT !.value = x]
    OBVIOUS
  <2>2. t.value = x
    BY <2>1, Revalued DEF Moves
  <2> QED BY <2>1, <2>2, MovesRevalued
<1>4. CASE parent.threw
  BY <1>1, <1>4 DEF w
<1>5. CASE ~parent.threw
  <2>1. Moves(s, r, w) /\ w.value = x
    BY <1>1, <1>3, <1>5, Zenon
  <2> QED BY <1>2, <2>1 DEF w
<1> QED BY <1>4, <1>5

\* What is counted from r to t is what the position has moved by.
InStep(r, t) == t.count - t.pos = r.count - r.pos

\* The HeadIPD1 in a Head1.
LEMMA IPDMoves ==
    ASSUME NEW s, NEW r, NEW ipd, At(s, r), ~r.threw, Sound(s, r.pos, ipd), "kind" \in DOMAIN r.value
    PROVE  /\ At(s, WithIPD(r, ipd)) /\ (~Wrapping(s) => r.pos <= WithIPD(r, ipd).pos)
           /\ ~WithIPD(r, ipd).threw =>
                InStep(r, WithIPD(r, ipd)) /\ WithIPD(r, ipd).value.kind = r.value.kind
<1> DEFINE w == WithIPD(r, ipd)
           c == ipd.count + r.count
           x == [r.value EXCEPT !.ipd = <<ipd.value.ipd>>]
<1>1. w = IF ipd.threw \/ ipd.value.kind # "HeadIPD1" THEN [ipd EXCEPT !.threw = TRUE, !.count = c]
          ELSE [ipd EXCEPT !.count = c, !.value = x]
  BY Zenon DEF WithIPD
<1>2. x.kind = r.value.kind
  OBVIOUS
<1>3. c \in Int /\ At(s, ipd)
  BY DEF Sound, At
<1>6. ~Wrapping(s) => r.pos <= ipd.pos
  BY DEF Sound, MovesOn
<1> HIDE DEF w, x
<1>4. CASE ipd.threw \/ ipd.value.kind # "HeadIPD1"
  <2>1. w = [ipd EXCEPT !.threw = TRUE, !.count = c]
    BY <1>1, <1>4, Zenon
  <2> HIDE DEF c
  <2>2. At(s, w) /\ w.threw /\ w.pos = ipd.pos
    BY <1>3, <2>1, ThrownCounted
  <2> QED BY <1>6, <2>2 DEF w
<1>5. CASE ~(ipd.threw \/ ipd.value.kind # "HeadIPD1")
  <2>1. w = [ipd EXCEPT !.count = c, !.value = x]
    BY <1>1, <1>5, Zenon
  <2> DEFINE u == [ipd EXCEPT !.count = c]
  <2>2. w = [u EXCEPT !.value = x]
    BY <2>1
  <2>3. ipd.count = ipd.pos - r.pos
    BY <1>5 DEF Sound
  <2>4. c - ipd.pos = r.count - r.pos
    BY <1>3, <2>3 DEF At
  <2> HIDE DEF c
  <2>5. At(s, u) /\ u.pos = ipd.pos /\ u.count = c /\ (u.threw <=> ipd.threw)
    BY <1>3, Recounted
  <2> HIDE DEF u
  <2>6. At(s, w) /\ w.pos = ipd.pos /\ w.count = c /\ (w.threw <=> ipd.threw) /\ w.value = x
    BY <2>2, <2>5, Revalued
  <2>7. InStep(r, w)
    BY <2>4, <2>6 DEF InStep
  <2> QED BY <1>2, <1>6, <2>6, <2>7 DEF w
<1> QED BY <1>4, <1>5

\* Either of them, or neither.
LEMMA OptionalMoves ==
    ASSUME NEW s, IsData(s), NEW kind, NEW length, At(s, length),
           NEW r, Moves(s, length, r), ~r.threw => r.value.kind = kind /\ "kind" \in DOMAIN r.value,
           NEW p \in Nat, p < length.pos,
           NEW nested, Further(s, p, nested),
           NEW v, v = WithOptional(kind, s, length, r, nested)
    PROVE  /\ At(s, v) /\ (~Wrapping(s) => length.pos <= v.pos)
           /\ ~v.threw => InStep(length, v) /\ v.value.kind = kind
<1> DEFINE x == Blank(kind, r.value)
           known == [r EXCEPT !.value = x]
           optional == DecodeOptional(kind, s, known, nested)
<1>1. v = IF r.threw THEN r
          ELSE IF known.count - length.count < length.value THEN optional ELSE known
  BY Zenon DEF WithOptional
<1>2. CASE r.threw
  <2>1. v = r
    BY <1>1, <1>2, Zenon
  <2> QED BY <1>2, <2>1 DEF Moves
<1>3. CASE ~r.threw
  <2>1. x.kind = kind /\ "kind" \in DOMAIN x
    BY <1>3, BlankKind
  <2>2. optional = CASE kind = "Object1" -> WithParent(known, DeserializeField("VarUint", s, known))
                     [] kind = "Head1"   -> WithIPD(known, nested[known.pos])
                     [] OTHER            -> known
    BY Zenon DEF DecodeOptional
  <2> HIDE DEF x
  <2>3. At(s, r)
    BY DEF Moves
  <2>4. Moves(s, length, known) /\ At(s, known) /\ ~known.threw /\ known.value = x
    <3>1. Moves(s, length, known)
      BY MovesRevalued
    <3>2. known = [r EXCEPT !.value = x]
      OBVIOUS
    <3> HIDE DEF known
    <3>3. At(s, known) /\ (known.threw <=> r.threw) /\ known.value = x
      BY <2>3, <3>2, Revalued
    <3> QED BY <1>3, <3>1, <3>3
  <2> HIDE DEF known, optional
  <2>5. CASE v = known
    BY <2>1, <2>4, <2>5 DEF Moves, InStep
  <2>6. CASE v = optional /\ kind = "Object1"
    <3> DEFINE parent == DeserializeField("VarUint", s, known)
    <3>1. optional = WithParent(known, parent)
      BY <2>2, <2>6
    <3>2. "VarUint" \in DOMAIN PrimitivesRead
      BY DEF PrimitivesRead
    <3>3. Moves(s, known, parent)
      BY <2>4, <3>2, FieldMoves
    <3> HIDE DEF parent
    <3>4. Moves(s, known, optional) /\ (~optional.threw => optional.value.kind = kind)
      BY <2>1, <2>4, <3>1, <3>3, ParentMoves
    <3>5. Moves(s, length, v) /\ At(s, v)
      BY <2>4, <2>6, <3>4, MovesFurther DEF Moves
    <3> QED BY <2>6, <3>4, <3>5 DEF Moves, InStep
  <2>7. CASE v = optional /\ kind = "Head1"
    <3> DEFINE ipd == nested[known.pos]
    <3>1. optional = WithIPD(known, ipd)
      BY <2>2, <2>7
    <3>2. known.pos \in (p + 1)..Len(s)
      <4>1. known.pos \in Nat /\ known.pos <= Len(s) /\ length.pos <= known.pos /\ length.pos \in Nat
            /\ Len(s) \in Nat
        BY <2>4, LenProperties DEF Moves, At, IsData
      <4> QED BY <4>1
    <3>3. Sound(s, known.pos, ipd)
      BY <3>2 DEF Further
    <3> HIDE DEF ipd
    <3>4. At(s, optional) /\ (~Wrapping(s) => known.pos <= optional.pos)
          /\ (~optional.threw => InStep(known, optional) /\ optional.value.kind = kind)
      BY <2>1, <2>4, <3>1, <3>3, IPDMoves
    <3>5. ~optional.threw => InStep(length, optional)
      BY <2>4, <3>4 DEF InStep, Moves
    <3>6. ~Wrapping(s) => length.pos <= optional.pos
      BY <2>4, <3>4 DEF Moves, At
    <3> QED BY <2>7, <3>4, <3>5, <3>6
  <2>8. v = known \/ (v = optional /\ kind = "Object1") \/ (v = optional /\ kind = "Head1")
    BY <1>1, <1>3, <2>2
  <2> QED BY <2>5, <2>6, <2>7, <2>8
<1> QED BY <1>2, <1>3

\* The octets are counted from the position b, where the length field is.
LEMMA FinishSound ==
    ASSUME NEW s, IsData(s), NEW kind, NEW b \in Nat, NEW length, At(s, length),
           length.value \in Nat, length.value # 0, b < length.pos, length.count = length.pos - b,
           ~Wrapping(s) => length.value <= Huge,
           NEW r, At(s, r), ~Wrapping(s) => length.pos <= r.pos,
           ~r.threw => InStep(length, r) /\ r.value.kind = kind,
           NEW v, v = Finish(kind, s, length, r)
    PROVE  /\ At(s, v)
           /\ ~Wrapping(s) => b < v.pos /\ (~v.threw => v.count \in Nat)
           /\ ~v.threw => /\ v.value.kind = kind
                          /\ kind \notin {"Head1", "Object1"} => v.count = v.pos - b
<1> DEFINE sg == Signed(length.value)
           d == Discarded(kind, sg, length.count, r.count)
           skipped == r.pos + d
           total == length.count + sg
<1>1. \/ v = r
      \/ v = Thrown(r)
      \/ ~r.threw /\ skipped \in 0..Len(s) /\ v = [r EXCEPT !.pos = skipped, !.count = total]
  BY DEF Finish
<1>2. ~Wrapping(s) => b < r.pos
  BY DEF At
<1>3. /\ r.pos \in Nat /\ r.count \in Int /\ r.pos <= Len(s) /\ Len(s) \in Nat
      /\ length.pos \in Nat /\ length.count \in Nat
      /\ ~r.threw => r.count = r.pos - b
  <2>1. /\ r.pos \in Nat /\ r.count \in Int /\ r.pos <= Len(s) /\ Len(s) \in Nat
        /\ length.pos \in Nat /\ length.count \in Int
    BY LenProperties DEF At, IsData
  <2> QED BY <2>1 DEF InStep
<1>4. CASE v = Thrown(r)
  <2>1. At(s, Thrown(r)) /\ Thrown(r).threw /\ Thrown(r).pos = r.pos
    BY Changed
  <2> QED BY <1>2, <1>4, <2>1
<1>5. CASE v = r
  <2>1. ~Wrapping(s) /\ ~r.threw => r.count \in Nat
    BY <1>2, <1>3
  <2> QED BY <1>2, <1>3, <1>5, <2>1
<1>6. CASE ~r.threw /\ skipped \in 0..Len(s) /\ v = [r EXCEPT !.pos = skipped, !.count = total]
  <2>1. sg \in Int /\ (~Wrapping(s) => sg \in Nat /\ sg # 0)
    <3> DEFINE n == length.value
    <3>1. n \in Nat /\ n # 0 /\ (~Wrapping(s) => n <= Huge)
      OBVIOUS
    <3> HIDE DEF n
    <3>2. Signed(n) \in Int /\ (~Wrapping(s) => Signed(n) \in Nat /\ Signed(n) # 0)
      BY <3>1 DEF Signed, Huge, SizeModulus
    <3> QED BY <3>2 DEF n
  <2>2. /\ kind \in {"Head1", "Object1"} => d = sg - r.count
        /\ kind \notin {"Head1", "Object1"} => d = sg - (r.count - length.count)
    BY Zenon DEF Discarded
  <2> HIDE DEF sg, d
  <2>3. total \in Int /\ (~Wrapping(s) => total \in Nat)
    BY <1>3, <2>1
  <2>4. /\ ~Wrapping(s) => b < skipped
        /\ kind \notin {"Head1", "Object1"} => total = skipped - b
    <3>1. CASE kind \in {"Head1", "Object1"}
      <4>1. skipped = b + sg
        BY <1>3, <1>6, <2>1, <2>2, <3>1
      <4> QED BY <2>1, <3>1, <4>1
    <3>2. CASE kind \notin {"Head1", "Object1"}
      <4>1. skipped = b + length.count + sg
        BY <1>3, <1>6, <2>1, <2>2, <3>2
      <4> QED BY <1>3, <2>1, <3>2, <4>1
    <3> QED BY <3>1, <3>2
  <2>5. skipped \in Nat /\ skipped <= Len(s)
    BY <1>3, <1>6
  <2> HIDE DEF skipped, total
  <2>6. PICK u : u = [r EXCEPT !.pos = skipped]
    OBVIOUS
  <2>7. v = [u EXCEPT !.count = total]
    BY <1>6, <2>6
  <2>8. At(s, u) /\ u.pos = skipped /\ u.value = r.value
    BY <2>5, <2>6, Placed
  <2>9. At(s, v) /\ v.pos = skipped /\ v.count = total /\ v.value = r.value
    BY <2>3, <2>7, <2>8, Recounted
  <2> QED BY <1>6, <2>3, <2>4, <2>9
<1> QED BY <1>1, <1>4, <1>5, <1>6

\* An object of a known kind.
LEMMA KnownSound ==
    ASSUME NEW s, IsData(s), NEW kind \in DOMAIN ReadFields, NEW p \in Nat,
           NEW tag, At(s, tag), p < tag.pos, tag.count = tag.pos - p,
           NEW nested, Further(s, p, nested)
    PROVE  Sound(s, p, DecodeKnown(kind, s, tag, nested))
<1> DEFINE v == DecodeKnown(kind, s, tag, nested)
           zero == [tag EXCEPT !.count = 0]
           length == DeserializeVarUint(s, zero)
           required == DeserializeFields(kind, s, length)
           r == WithOptional(kind, s, length, required, nested)
           body == DecodeBody(kind, s, length, nested)
           total == body.count + tag.count
           b == tag.pos
<1>1. v = [body EXCEPT !.count = total]
  BY Zenon DEF DecodeKnown
<1>2. body = IF length.threw \/ length.value = 0 THEN Thrown(length)
             ELSE Finish(kind, s, length, r)
  BY Zenon DEF DecodeBody
<1>3. zero = [tag EXCEPT !.count = 0]
  OBVIOUS
<1> HIDE DEF zero
<1>4. At(s, zero) /\ zero.pos = b /\ zero.count = 0
  BY <1>3, Recounted
<1>5. b \in Nat /\ tag.count \in Int /\ p < b
  BY DEF At
<1>6. Moves(s, zero, length) /\ (~length.threw => length.value \in Nat /\ b < length.pos)
  BY <1>4, VarUintMoves
<1>7. /\ At(s, length)
      /\ ~length.threw => length.count = length.pos - b
  BY <1>4, <1>5, <1>6 DEF Moves, At
<1>14. ~Wrapping(s) /\ ~length.threw => length.value <= Huge
  BY <1>4, SmallRead
<1> HIDE DEF length
<1>8. /\ Moves(s, length, required)
      /\ ~required.threw => required.value.kind = kind /\ "kind" \in DOMAIN required.value
  BY <1>7, FieldsMove
<1> HIDE DEF required, body
<1>9. /\ At(s, body)
      /\ ~Wrapping(s) => b <= body.pos /\ (~body.threw => b < body.pos /\ body.count \in Nat)
      /\ ~body.threw => /\ body.value.kind = kind
                        /\ kind \notin {"Head1", "Object1"} => body.count = body.pos - b
  <2>1. CASE length.threw \/ length.value = 0
    <3>1. body = Thrown(length)
      BY <1>2, <2>1, Zenon
    <3>2. At(s, Thrown(length)) /\ Thrown(length).threw /\ Thrown(length).pos = length.pos
      BY <1>7, Changed
    <3> QED BY <1>4, <1>6, <3>1, <3>2 DEF Moves
  <2>2. CASE ~(length.threw \/ length.value = 0)
    <3>1. body = Finish(kind, s, length, r)
      BY <1>2, <2>2, Zenon
    <3>2. p < length.pos /\ length.value \in Nat /\ length.value # 0 /\ b < length.pos
          /\ length.count = length.pos - b /\ ~length.threw
      BY <1>5, <1>6, <1>7, <2>2 DEF At
    <3>3. r = WithOptional(kind, s, length, required, nested)
      OBVIOUS
    <3> HIDE DEF r, b
    <3>4. /\ At(s, r) /\ (~Wrapping(s) => length.pos <= r.pos)
          /\ ~r.threw => InStep(length, r) /\ r.value.kind = kind
      BY <1>7, <1>8, <3>3, <3>2, OptionalMoves
    <3>7. ~Wrapping(s) => length.value <= Huge
      BY <1>14, <3>2
    <3>5. /\ At(s, body)
          /\ ~Wrapping(s) => b < body.pos /\ (~body.threw => body.count \in Nat)
          /\ ~body.threw => /\ body.value.kind = kind
                            /\ kind \notin {"Head1", "Object1"} => body.count = body.pos - b
      BY <1>5, <1>7, <3>1, <3>2, <3>4, <3>7, FinishSound
    <3>6. ~Wrapping(s) => b <= body.pos
      BY <1>5, <3>5 DEF At
    <3> QED BY <3>5, <3>6
  <2> QED BY <2>1, <2>2
<1>10. total \in Int
  BY <1>5, <1>9 DEF At
<1>11. /\ At(s, v) /\ v.pos = body.pos /\ v.count = total
       /\ (v.threw <=> body.threw) /\ v.value = body.value
  <2> HIDE DEF total, v
  <2> QED BY <1>1, <1>9, <1>10, Recounted
<1> HIDE DEF v
<1>12. body.pos \in Nat /\ tag.count \in Nat /\ tag.count = b - p
  BY <1>5, <1>9 DEF At
<1>13. ~Wrapping(s) => /\ p <= v.pos /\ p < v.pos
                       /\ ~v.threw => v.count \in Nat
  BY <1>5, <1>9, <1>11, <1>12
<1>15. ~v.threw /\ v.value.kind = "HeadIPD1" => v.count = v.pos - p
  BY <1>5, <1>9, <1>11, <1>12
<1> QED BY <1>11, <1>13, <1>15 DEF Sound, MovesOn, v

\* An object of any kind.
LEMMA OneSound ==
    ASSUME NEW s, IsData(s), NEW p, Within(s, p),
           NEW nested, Further(s, p, nested)
    PROVE  Sound(s, p, ObjectAt(s, p, nested))
<1> DEFINE start == Read(p, 0, FALSE, 0)
           v == ObjectAt(s, p, nested)
           tag == DeserializeVarUint(s, start)
           kind == KindOf(tag.value)
           blob == DeserializeBlob(s, tag)
           x == [kind |-> kind, tag |-> tag.value, data |-> blob.value]
<1>1. v = IF tag.threw \/ tag.value = 0 THEN Thrown(tag)
          ELSE IF kind = "Unknown" THEN [blob EXCEPT !.value = x]
          ELSE DecodeKnown(kind, s, tag, nested)
  BY Zenon DEF ObjectAt
<1>2. p \in Nat /\ p <= Len(s)
  BY LenProperties DEF Within, IsData
<1>3. At(s, start) /\ start.pos = p /\ start.count = 0
  BY <1>2, SMT DEF At, IsRead, Read
<1> HIDE DEF v, start
<1>4. Moves(s, start, tag) /\ (~tag.threw => p < tag.pos) /\ (p < Len(s) => p < tag.pos)
  BY <1>3, VarUintMoves
<1>5. kind = "Unknown" \/ kind \in DOMAIN ReadFields
  BY DEF KindOf, ReadFields
<1>6. At(s, tag) /\ (~tag.threw => tag.count = tag.pos - p)
  BY <1>2, <1>3, <1>4 DEF Moves, At
<1> HIDE DEF tag
<1>7. Moves(s, tag, blob)
  BY <1>6, BlobMoves
<1> HIDE DEF blob
<1>8. CASE tag.threw \/ tag.value = 0
  <2>1. v = Thrown(tag)
    BY <1>1, <1>8, Zenon
  <2>2. At(s, Thrown(tag)) /\ Thrown(tag).threw /\ Thrown(tag).pos = tag.pos
    BY <1>6, Changed
  <2>3. p <= tag.pos /\ (p < Len(s) => p < tag.pos)
    BY <1>3, <1>4 DEF Moves
  <2> QED BY <2>1, <2>2, <2>3 DEF Sound, MovesOn, v
<1>9. CASE ~(tag.threw \/ tag.value = 0) /\ kind = "Unknown"
  <2>1. v = [blob EXCEPT !.value = x]
    BY <1>1, <1>9, Zenon
  <2>2. x.kind # "HeadIPD1"
    BY <1>9
  <2> HIDE DEF x
  <2>3. At(s, v) /\ v.pos = blob.pos /\ v.count = blob.count /\ v.value = x /\ (v.threw <=> blob.threw)
    <3>1. At(s, blob)
      BY <1>7 DEF Moves
    <3> QED BY <2>1, <3>1, Revalued
  <2>4. ASSUME ~v.threw PROVE p < v.pos /\ v.count \in Nat
    <3>1. /\ blob.pos \in Nat /\ blob.count \in Int /\ tag.pos <= blob.pos /\ tag.pos \in Nat
          /\ blob.count - blob.pos = tag.count - tag.pos /\ tag.count = tag.pos - p /\ p < tag.pos
      BY <1>4, <1>6, <1>7, <1>9, <2>3, <2>4 DEF Moves, At
    <3> QED BY <1>2, <2>3, <3>1
  <2>5. p < v.pos /\ p <= v.pos
    BY <1>2, <1>4, <1>6, <1>7, <1>9, <2>3 DEF Moves, At
  <2> QED BY <2>2, <2>3, <2>4, <2>5 DEF Sound, MovesOn, v
<1>10. CASE ~(tag.threw \/ tag.value = 0) /\ kind # "Unknown"
  <2>1. v = DecodeKnown(kind, s, tag, nested)
    BY <1>1, <1>10, Zenon
  <2>2. p < tag.pos /\ tag.count = tag.pos - p /\ kind \in DOMAIN ReadFields
    BY <1>4, <1>5, <1>6, <1>10
  <2> HIDE DEF kind
  <2>3. Sound(s, p, v)
    BY <1>2, <1>6, <2>1, <2>2, KnownSound
  <2> QED BY <2>3 DEF v
<1> QED BY <1>8, <1>9, <1>10

-----------------------------------------------------------------------------
(* Decode, of what Decode makes of the positions further on: the function  *)
(* it defines exists, as each of its values is made of later ones.         *)

\* The recursion of Decode, unrolled once.
LEMMA DecodeEquation ==
    ASSUME NEW s, IsData(s), NEW p \in 0..Len(s)
    PROVE  Decode(s, p) = ObjectAt(s, p, [n \in (p + 1)..Len(s) |-> Decode(s, n)])
<1> DEFINE N == Len(s)
           F(f) == [q \in 0..N |-> ObjectAt(s, q, [n \in (q + 1)..N |-> f[n]])]
           object == CHOOSE f : f = F(f)
           D == {k \in Nat : \E f : f = [q \in k..N |-> ObjectAt(s, q, [n \in (q + 1)..N |-> f[n]])]}
<1>1. N \in Nat
  BY LenProperties DEF IsData
<1>2. \A q \in 0..N : Decode(s, q) = object[q]
  BY Zenon DEF Decode, ObjectAt
<1> HIDE DEF N
<1>3. N + 1 \in D
  <2> DEFINE f == [q \in (N + 1)..N |-> 0]
  <2>1. (N + 1)..N = {} /\ N + 1 \in Nat
    BY <1>1
  <2>2. f = [q \in (N + 1)..N |-> ObjectAt(s, q, [n \in (q + 1)..N |-> f[n]])]
    BY <2>1
  <2> QED BY <2>1, <2>2
<1>4. ASSUME NEW k \in 0..N, k + 1 \in D PROVE k \in D
  <2>1. PICK f : f = [q \in (k + 1)..N |-> ObjectAt(s, q, [n \in (q + 1)..N |-> f[n]])]
    BY <1>4
  <2> DEFINE Onwards(h, q) == [n \in (q + 1)..N |-> h[n]]
             g == [q \in k..N |-> IF q = k THEN ObjectAt(s, k, Onwards(f, k)) ELSE f[q]]
  <2>2. ASSUME NEW q \in k..N PROVE g[q] = ObjectAt(s, q, Onwards(g, q))
    <3>1. \A n \in (q + 1)..N : g[n] = f[n]
      BY <1>1
    <3>2. Onwards(g, q) = Onwards(f, q)
      BY <3>1
    <3>3. CASE q = k
      BY <3>2, <3>3
    <3>4. CASE q # k
      <4>1. q \in (k + 1)..N /\ g[q] = f[q]
        BY <1>1, <3>4
      <4>2. f[q] = ObjectAt(s, q, Onwards(f, q))
        BY <2>1, <4>1, Zenon
      <4> HIDE DEF g, Onwards
      <4> QED BY <3>2, <4>1, <4>2
    <3> QED BY <3>3, <3>4
  <2>3. g = [q \in k..N |-> ObjectAt(s, q, Onwards(g, q))]
    <3> DEFINE h == [q \in k..N |-> ObjectAt(s, q, Onwards(g, q))]
    <3>1. \A q \in k..N : g[q] = h[q]
      BY <2>2, Zenon
    <3>2. g = [q \in k..N |-> g[q]]
      OBVIOUS
    <3> HIDE DEF g
    <3> QED BY <3>1, <3>2, Zenon
  <2> HIDE DEF g
  <2>4. k \in Nat
    OBVIOUS
  <2> QED BY <2>3, <2>4, Zenon
<1>5. \A k \in 0..(N + 1) : k \in D
  <2>1. ASSUME NEW k \in 0..(N + 1), \A j \in 0..(N + 1) : j > k => j \in D PROVE k \in D
    <3>1. CASE k = N + 1
      BY <1>3, <3>1
    <3>2. CASE k # N + 1
      <4>1. k \in 0..N /\ k + 1 \in 0..(N + 1) /\ k + 1 > k
        BY <1>1, <3>2
      <4> HIDE DEF D
      <4> QED BY <1>4, <2>1, <4>1
    <3> QED BY <3>1, <3>2
  <2>2. N + 1 \in Nat
    BY <1>1
  <2> HIDE DEF D
  <2> QED BY <2>1, <2>2, DownFrom
<1>6. PICK f : f = F(f)
  <2>1. 0 \in D
    BY <1>1, <1>5
  <2> QED BY <2>1, Zenon
<1>7. object = F(object)
  BY <1>6, Zenon
<1> HIDE DEF object
<1>8. object[p] = ObjectAt(s, p, [n \in (p + 1)..N |-> object[n]])
  BY <1>7, Zenon DEF N
<1>9. \A n \in (p + 1)..N : object[n] = Decode(s, n)
  BY <1>1, <1>2 DEF N
<1>10. [n \in (p + 1)..N |-> object[n]] = [n \in (p + 1)..N |-> Decode(s, n)]
  BY <1>9, Zenon
<1> QED BY <1>2, <1>8, <1>10, Zenon DEF N

\* Whatever the octets and wherever the object: an exception or an object leaves
\* the position within the data, also where the sum in AdvanceReadLength wraps
\* (data_buffer.cpp:788), and the octets of a HeadIPD1 are counted as they are,
\* as a Head1 relies upon.  The position is further on unless the octets hold a
\* VarUint close to 2^64, although octets not understood may make it go back
\* within the object (gs_decoder.cpp:250 and 579).
THEOREM DecodeSound ==
    ASSUME NEW s, IsData(s)
    PROVE  \A p \in 0..Len(s) : Sound(s, p, Decode(s, p))
<1> DEFINE D == {p \in 0..Len(s) : Sound(s, p, Decode(s, p))}
<1>1. Len(s) \in Nat
  BY LenProperties DEF IsData
<1>2. ASSUME NEW p \in 0..Len(s), \A n \in 0..Len(s) : n > p => n \in D PROVE p \in D
  <2> DEFINE nested == [n \in (p + 1)..Len(s) |-> Decode(s, n)]
  <2>1. ASSUME NEW n \in (p + 1)..Len(s) PROVE Sound(s, n, nested[n])
    <3>1. n \in 0..Len(s) /\ n > p
      BY <1>1
    <3>2. Sound(s, n, Decode(s, n))
      BY <1>2, <3>1
    <3> QED BY <3>2, Zenon
  <2>2. Further(s, p, nested)
    BY <2>1, Zenon DEF Further
  <2>3. Decode(s, p) = ObjectAt(s, p, nested)
    BY DecodeEquation, Zenon
  <2> HIDE DEF nested
  <2>4. Within(s, p)
    BY Zenon DEF Within
  <2>5. Sound(s, p, Decode(s, p))
    BY <2>2, <2>3, <2>4, OneSound, Zenon
  <2> QED BY <2>5, Zenon
<1>3. \A p \in 0..Len(s) : p \in D
  <2> HIDE DEF D
  <2> QED BY <1>1, <1>2, DownFrom
<1> QED BY <1>3, Zenon

-----------------------------------------------------------------------------
(* Decoding the whole buffer.                                              *)

\* The objects that may be in what is decoded.
Values(s) == {Decode(s, p).value : p \in 0..Len(s)}

\* f[i] is what the first i iterations have made of the octets from p on.
Steps(s, p, f) ==
    /\ f[0] = Read(p, 0, FALSE, <<>>)
    /\ \A i \in 1..Len(s) : f[i] = OneMore(s, f[i - 1])

\* DecodeObjects is the last of them: its recursion unrolled.
LEMMA ObjectsRun ==
    ASSUME NEW s, IsData(s), NEW p
    PROVE  \E f : Steps(s, p, f) /\ DecodeObjects(s, p) = f[Len(s)]
<1> DEFINE n == Len(s)
           start == Read(p, 0, FALSE, <<>>)
           Step(r) == OneMore(s, r)
           F(f) == [i \in 0..n |-> IF i = 0 THEN start ELSE Step(f[i - 1])]
           after == CHOOSE f : f = F(f)
           D == {k \in Nat : \E f : f = [i \in 0..k |-> IF i = 0 THEN start ELSE Step(f[i - 1])]}
<1>1. n \in Nat
  BY LenProperties DEF IsData
<1>2. DecodeObjects(s, p) = after[n]
  BY Zenon DEF DecodeObjects
<1> HIDE DEF Step, start, n
<1>3. 0 \in D
  <2> DEFINE f == [i \in 0..0 |-> start]
  <2>1. f = [i \in 0..0 |-> IF i = 0 THEN start ELSE Step(f[i - 1])]
    OBVIOUS
  <2> QED BY <2>1
<1>4. ASSUME NEW k \in Nat, k \in D PROVE k + 1 \in D
  <2>1. PICK f : f = [i \in 0..k |-> IF i = 0 THEN start ELSE Step(f[i - 1])]
    BY <1>4
  <2> DEFINE g == [i \in 0..(k + 1) |-> IF i <= k THEN f[i] ELSE Step(f[k])]
  <2>2. ASSUME NEW i \in 0..(k + 1)
        PROVE  g[i] = IF i = 0 THEN start ELSE Step(g[i - 1])
    <3>1. CASE i <= k
      <4>1. i \in 0..k /\ g[i] = f[i] /\ (i # 0 => g[i - 1] = f[i - 1])
        BY <3>1
      <4> HIDE DEF g
      <4> QED BY <2>1, <4>1
    <3>2. CASE ~(i <= k)
      <4>1. i = k + 1 /\ i # 0 /\ g[i] = Step(f[k]) /\ g[i - 1] = f[k]
        BY <3>2
      <4> HIDE DEF g
      <4> QED BY <4>1
    <3> QED BY <3>1, <3>2
  <2>3. g = [i \in 0..(k + 1) |-> IF i = 0 THEN start ELSE Step(g[i - 1])]
    BY <2>2
  <2> HIDE DEF g
  <2> QED BY <2>3
<1>5. n \in D
  <2> HIDE DEF D
  <2> QED BY <1>1, <1>3, <1>4, Reaches
<1>6. PICK f : f = F(f)
  BY <1>5
<1>7. after = F(after)
  BY <1>6, Zenon
<1> HIDE DEF after
<1>8. after[0] = start /\ \A i \in 1..n : after[i] = Step(after[i - 1])
  BY <1>1, <1>7
<1>9. Steps(s, p, after)
  BY <1>8, Zenon DEF Steps, start, n, Step
<1> QED BY <1>2, <1>9, Zenon DEF n

\* One iteration of the loop, which stays within the data.
LEMMA OneMoreSound ==
    ASSUME NEW s, IsData(s), NEW r, At(s, r), r.value \in Seq(Values(s)),
           NEW t, t = OneMore(s, r), NEW o, o = Decode(s, r.pos)
    PROVE  /\ At(s, t) /\ t.value \in Seq(Values(s)) /\ Sound(s, r.pos, o)
           /\ Ended(s, r) => t = r
           /\ ~Ended(s, r) => t.pos = o.pos /\ (t.threw <=> o.threw)
           /\ ~Ended(s, r) /\ o.threw => t.count = r.count /\ t.value = r.value
           /\ ~Ended(s, r) /\ ~o.threw =>
                t.count = r.count + o.count /\ t.value = Append(r.value, o.value)
<1> DEFINE V == Values(s)
           all == Append(r.value, o.value)
           c == r.count + o.count
<1>1. t = IF Ended(s, r) THEN r
          ELSE IF o.threw THEN Read(o.pos, r.count, TRUE, r.value)
          ELSE Read(o.pos, c, FALSE, all)
  BY Zenon DEF OneMore, Pushed
<1>2. r.pos \in 0..Len(s)
  BY LenProperties DEF At, IsData
<1>3. o.value \in V /\ Sound(s, r.pos, o)
  BY <1>2, DecodeSound, Zenon DEF Values
<1>4. At(s, o)
  BY <1>3 DEF Sound
<1>5. all \in Seq(V)
  <2> DEFINE x == o.value  y == r.value
  <2>1. x \in V /\ y \in Seq(V)
    BY <1>3
  <2> HIDE DEF V, x, y
  <2>2. Append(y, x) \in Seq(V)
    BY <2>1, AppendProperties
  <2> QED BY <2>2 DEF x, y
<1>6. c \in Int /\ r.count \in Int /\ o.pos \in Nat /\ o.pos <= Len(s)
  BY <1>4 DEF At
<1> HIDE DEF V, all, c
<1>7. CASE Ended(s, r)
  BY <1>1, <1>3, <1>7 DEF V
<1>8. CASE ~Ended(s, r) /\ o.threw
  <2>1. t = Read(o.pos, r.count, TRUE, r.value)
    BY <1>1, <1>8, Zenon
  <2>2. t.pos = o.pos /\ t.count = r.count /\ t.threw = TRUE /\ t.value = r.value /\ IsRead(t)
    BY <2>1, SMT DEF Read, IsRead
  <2>3. At(s, t)
    BY <1>6, <2>2 DEF At
  <2> QED BY <1>3, <1>8, <2>2, <2>3 DEF V
<1>9. CASE ~Ended(s, r) /\ ~o.threw
  <2>1. t = Read(o.pos, c, FALSE, all)
    BY <1>1, <1>9, Zenon
  <2>2. t.pos = o.pos /\ t.count = c /\ t.threw = FALSE /\ t.value = all /\ IsRead(t)
    BY <2>1, SMT DEF Read, IsRead
  <2>3. At(s, t)
    BY <1>6, <2>2 DEF At
  <2> QED BY <1>3, <1>5, <1>9, <2>2, <2>3 DEF V, c, all
<1> QED BY <1>7, <1>8, <1>9

\* Every iteration stays within the data.
LEMMA StepsSound ==
    ASSUME NEW s, IsData(s), NEW p \in 0..Len(s), NEW f, Steps(s, p, f)
    PROVE  \A i \in 0..Len(s) : At(s, f[i]) /\ f[i].value \in Seq(Values(s))
<1> DEFINE Good(t) == At(s, t) /\ t.value \in Seq(Values(s))
           D == {i \in Nat : Good(f[i])}
<1>1. Len(s) \in Nat
  BY LenProperties DEF IsData
<1>2. 0 \in D
  <2>1. f[0] = Read(p, 0, FALSE, <<>>) /\ p \in Nat /\ p <= Len(s)
    BY <1>1 DEF Steps
  <2>2. At(s, f[0]) /\ f[0].value = <<>>
    BY <2>1, SMT DEF At, IsRead, Read
  <2>3. <<>> \in Seq(Values(s))
    BY EmptySeq
  <2> QED BY <2>2, <2>3
<1>3. ASSUME NEW k \in Nat, k < Len(s) /\ k \in D PROVE k + 1 \in D
  <2>1. k + 1 \in 1..Len(s) /\ (k + 1) - 1 = k
    BY <1>1, <1>3
  <2>2. f[k + 1] = OneMore(s, f[k])
    BY <2>1 DEF Steps
  <2>3. Good(f[k])
    BY <1>3
  <2>4. Good(f[k + 1])
    BY <2>2, <2>3, OneMoreSound
  <2> HIDE DEF Good
  <2> QED BY <2>4
<1>4. \A k \in 0..Len(s) : k \in D
  <2> HIDE DEF D
  <2> QED BY <1>1, <1>2, <1>3, UpTo
<1> QED BY <1>4

\* A loop that has ended stays where it is.
LEMMA StaysEnded ==
    ASSUME NEW s, IsData(s), NEW p, NEW f, Steps(s, p, f),
           NEW k \in 0..Len(s), Ended(s, f[k])
    PROVE  \A i \in k..Len(s) : f[i] = f[k]
<1> DEFINE D == {i \in Nat : i >= k => f[i] = f[k]}
<1>1. Len(s) \in Nat
  BY LenProperties DEF IsData
<1>2. 0 \in D
  OBVIOUS
<1>3. ASSUME NEW i \in Nat, i < Len(s) /\ i \in D PROVE i + 1 \in D
  <2>1. CASE i + 1 > k
    <3>1. f[i] = f[k] /\ i + 1 \in 1..Len(s) /\ (i + 1) - 1 = i
      BY <1>1, <1>3, <2>1
    <3>2. f[i + 1] = OneMore(s, f[i])
      BY <3>1 DEF Steps
    <3>3. OneMore(s, f[k]) = f[k]
      BY Zenon DEF OneMore
    <3> QED BY <3>1, <3>2, <3>3
  <2>2. CASE ~(i + 1 > k)
    BY <2>2
  <2> QED BY <2>1, <2>2
<1>4. \A i \in 0..Len(s) : i \in D
  <2> HIDE DEF D
  <2> QED BY <1>1, <1>2, <1>3, UpTo
<1> QED BY <1>1, <1>4

\* Decoding to the end of any octets leaves the position within them.
LEMMA ObjectsSound ==
    ASSUME NEW s, IsData(s)
    PROVE  \A p \in 0..Len(s) :
             At(s, DecodeObjects(s, p)) /\ DecodeObjects(s, p).value \in Seq(Values(s))
<1> SUFFICES ASSUME NEW p \in 0..Len(s)
             PROVE  At(s, DecodeObjects(s, p)) /\ DecodeObjects(s, p).value \in Seq(Values(s))
  OBVIOUS
<1>1. PICK f : Steps(s, p, f) /\ DecodeObjects(s, p) = f[Len(s)]
  BY ObjectsRun
<1>2. Len(s) \in 0..Len(s)
  BY LenProperties DEF IsData
<1>3. At(s, f[Len(s)]) /\ f[Len(s)].value \in Seq(Values(s))
  BY <1>1, <1>2, StepsSound
<1> QED BY <1>1, <1>3

-----------------------------------------------------------------------------
(* Octet strings one after the other, and where each of them stands.       *)

\* Joining what is joined of two, or of many.
LEMMA FlattenConcat ==
    ASSUME NEW S, NEW a \in Seq(Seq(S)), NEW b \in Seq(Seq(S))
    PROVE  FlattenSeq(a \o b) = FlattenSeq(a) \o FlattenSeq(b)
<1> DEFINE m == Len(a)  n == Len(b)  Q == Seq(S)  e == <<>>
           Cat(x, y) == x \o y
           c == a \o b
<1>1. PICK f : Joins(f, a, S) /\ FlattenSeq(a) = f[m]
  BY FlattenJoins, Zenon
<1>2. PICK g : Joins(g, b, S) /\ FlattenSeq(b) = g[n]
  BY FlattenJoins, Zenon
<1>3. m \in Nat /\ n \in Nat
  BY LenProperties
<1>4. /\ c \in Seq(Seq(S)) /\ Len(c) = m + n
      /\ \A i \in 1..(m + n) : c[i] = IF i <= m THEN a[i] ELSE b[i - m]
  BY ConcatProperties, Zenon
<1>5. /\ f[0] = e /\ \A i \in 0..m : f[i] \in Q
      /\ \A i \in 1..m : f[i] = Cat(f[i - 1], a[i])
  BY <1>1, Zenon DEF Joins
<1>6. /\ g[0] = e /\ \A i \in 0..n : g[i] \in Q
      /\ \A i \in 1..n : g[i] = Cat(g[i - 1], b[i])
  BY <1>2, Zenon DEF Joins
<1>7. \A x, y, z \in Q : Cat(Cat(x, y), z) = Cat(x, Cat(y, z))
  BY ConcatAssociative
<1>8. \A x, y \in Q : Cat(x, y) \in Q /\ Cat(x, e) = x
  BY ConcatProperties, ConcatEmptySeq
<1>9. \A i \in 1..n : b[i] \in Q
  BY ElementOfSeq
<1> DEFINE h == [i \in 0..(m + n) |-> IF i <= m THEN f[i] ELSE Cat(f[m], g[i - m])]
<1> HIDE DEF m, n, Q, Cat, c, e
<1>10. h[0] = e /\ \A i \in 0..(m + n) : h[i] \in Q
  BY <1>3, <1>5, <1>6, <1>8
<1>11. ASSUME NEW i \in 1..(m + n) PROVE h[i] = Cat(h[i - 1], c[i])
  <2>1. CASE i <= m
    <3>1. i \in 1..m /\ h[i] = f[i] /\ h[i - 1] = f[i - 1] /\ c[i] = a[i]
      BY <1>3, <1>4, <2>1
    <3> HIDE DEF h
    <3> QED BY <1>5, <3>1
  <2>2. CASE ~(i <= m)
    <3>1. /\ i - m \in 1..n /\ c[i] = b[i - m] /\ h[i] = Cat(f[m], g[i - m])
          /\ f[m] \in Q /\ g[(i - m) - 1] \in Q
      BY <1>3, <1>4, <1>5, <1>6, <2>2
    <3>2. h[i - 1] = Cat(f[m], g[(i - m) - 1])
      <4>1. CASE i - 1 <= m
        <5>1. i - 1 = m /\ (i - m) - 1 = 0 /\ m \in 0..(m + n) /\ m <= m
          BY <1>3, <2>2, <4>1
        <5>2. h[m] = f[m]
          BY <5>1
        <5> HIDE DEF h
        <5> QED BY <1>6, <1>8, <3>1, <5>1, <5>2
      <4>2. CASE ~(i - 1 <= m)
        <5>1. i - 1 \in 0..(m + n) /\ (i - 1) - m = (i - m) - 1
          BY <1>3, <2>2, <4>2
        <5> QED BY <4>2, <5>1
      <4> QED BY <4>1, <4>2
    <3> HIDE DEF h
    <3>3. g[i - m] = Cat(g[(i - m) - 1], b[i - m]) /\ b[i - m] \in Q
      BY <1>6, <1>9, <3>1
    <3>4. Cat(Cat(f[m], g[(i - m) - 1]), b[i - m]) = Cat(f[m], Cat(g[(i - m) - 1], b[i - m]))
      BY <1>7, <3>1, <3>3
    <3> QED BY <3>1, <3>2, <3>3, <3>4
  <2> QED BY <2>1, <2>2
<1>12. h[m + n] = Cat(f[m], g[n])
  <2>1. CASE n = 0
    <3>1. m + n = m /\ m \in 0..(m + n) /\ m <= m /\ g[n] = e /\ f[m] \in Q
      BY <1>3, <1>5, <1>6, <2>1
    <3> QED BY <1>8, <3>1
  <2>2. CASE n # 0
    <3>1. m + n \in 0..(m + n) /\ ~(m + n <= m) /\ (m + n) - m = n
      BY <1>3, <2>2
    <3> QED BY <3>1
  <2> QED BY <2>1, <2>2
<1> HIDE DEF h
<1>13. Joins(h, c, S)
  <2>1. /\ h[0] = <<>> /\ (\A i \in 0..Len(c) : h[i] \in Seq(S))
        /\ (\A i \in 1..Len(c) : h[i] = h[i - 1] \o c[i])
    BY <1>4, <1>10, <1>11, Zenon DEF Cat, Q, e
  <2> QED BY <2>1, Zenon DEF Joins
<1>14. FlattenSeq(c) = h[m + n]
  <2>1. FlattenSeq(c) = h[Len(c)]
    BY <1>4, <1>13, FlattenIs
  <2> QED BY <1>4, <2>1
<1> QED BY <1>1, <1>2, <1>12, <1>14, Zenon DEF Cat, c

\* A sequence of one.
LEMMA FlattenOne ==
    ASSUME NEW S, NEW x \in Seq(S)
    PROVE  FlattenSeq(<<x>>) = x
<1>1. <<x>> \in Seq(Seq(S)) /\ Len(<<x>>) = 1 /\ <<x>>[1] = x
  OBVIOUS
<1>2. PICK f : Joins(f, <<x>>, S) /\ FlattenSeq(<<x>>) = f[Len(<<x>>)]
  BY <1>1, FlattenJoins, Zenon
<1> DEFINE Cat(a, b) == a \o b  e == <<>>
<1>3. f[0] = e /\ \A i \in 1..1 : f[i] = Cat(f[i - 1], <<x>>[i])
  BY <1>1, <1>2, Zenon DEF Joins
<1>4. Cat(e, x) = x
  BY ConcatEmptySeq
<1> HIDE DEF Cat, e
<1>5. f[1] = Cat(e, x)
  BY <1>1, <1>3
<1> QED BY <1>1, <1>2, <1>4, <1>5

\* Joining what has been joined, and joining it all.
LEMMA FlattenNested ==
    ASSUME NEW S, NEW ss \in Seq(Seq(Seq(S)))
    PROVE  FlattenSeq(FlattenSeq(ss)) = FlattenSeq([i \in 1..Len(ss) |-> FlattenSeq(ss[i])])
<1> DEFINE n == Len(ss)  Q == Seq(S)  R == Seq(Seq(S))
           Flat(x) == FlattenSeq(x)
           Cat(x, y) == x \o y
           e == <<>>
           each == [i \in 1..n |-> Flat(ss[i])]
<1>1. n \in Nat /\ \A i \in 1..n : ss[i] \in R
  BY LenProperties, ElementOfSeq
<1>2. PICK g : Joins(g, ss, Seq(S)) /\ Flat(ss) = g[n]
  BY FlattenJoins, Zenon
<1>3. /\ g[0] = e /\ \A i \in 0..n : g[i] \in R
      /\ \A i \in 1..n : g[i] = Cat(g[i - 1], ss[i])
  BY <1>2, Zenon DEF Joins
<1>4. \A x \in R : Flat(x) \in Q
  BY FlattenType
<1>5. \A x, y \in R : Flat(Cat(x, y)) = Cat(Flat(x), Flat(y))
  BY FlattenConcat
<1>6. Flat(e) = e
  BY FlattenNone
<1>7. each \in Seq(Q) /\ Len(each) = n
  <2> HIDE DEF n, Flat, Q, R
  <2>1. \A i \in 1..n : Flat(ss[i]) \in Q
    BY <1>1, <1>4
  <2> QED BY <1>1, <2>1, SeqDef
<1> DEFINE f == [i \in 0..n |-> Flat(g[i])]
<1> HIDE DEF n, Q, R, Flat, Cat, e
<1>8. f[0] = e /\ \A i \in 0..n : f[i] \in Q
  BY <1>1, <1>3, <1>4, <1>6
<1>9. \A i \in 1..n : f[i] = Cat(f[i - 1], each[i])
  <2> SUFFICES ASSUME NEW i \in 1..n PROVE f[i] = Cat(f[i - 1], each[i])
    OBVIOUS
  <2>1. i \in 0..n /\ i - 1 \in 0..n
    BY <1>1
  <2>2. f[i] = Flat(g[i]) /\ f[i - 1] = Flat(g[i - 1]) /\ each[i] = Flat(ss[i])
    BY <2>1
  <2>3. g[i] = Cat(g[i - 1], ss[i]) /\ g[i - 1] \in R /\ ss[i] \in R
    BY <1>1, <1>3, <2>1
  <2> HIDE DEF f, each
  <2> QED BY <1>5, <2>2, <2>3
<1>10. f[n] = Flat(Flat(ss))
  BY <1>1, <1>2
<1> HIDE DEF f, each
<1>11. Joins(f, each, S)
  <2>1. /\ f[0] = <<>> /\ (\A i \in 0..Len(each) : f[i] \in Seq(S))
        /\ (\A i \in 1..Len(each) : f[i] = f[i - 1] \o each[i])
    BY <1>7, <1>8, <1>9, Zenon DEF Cat, Q, e
  <2> QED BY <2>1, Zenon DEF Joins
<1>12. FlattenSeq(each) = f[Len(each)]
  BY <1>7, <1>11, FlattenIs DEF Q
<1>13. f[Len(each)] = f[n]
  BY <1>7
<1> QED BY <1>10, <1>12, <1>13, Zenon DEF each, Flat, n

\* What cuts two strings off cuts off the first or the second.
LEMMA CutInParts ==
    ASSUME NEW a \in Seq(Byte), NEW b \in Seq(Byte), NEW s \in Seq(Byte), NEW p \in Nat,
           StandsCut(a \o b, s, p)
    PROVE  StandsCut(a, s, p) \/ (StandsAt(a, s, p) /\ StandsCut(b, s, p + Len(a)))
<1> DEFINE m == Len(a)  n == Len(b)  l == Len(s)  t == a \o b
<1>1. m \in Nat /\ n \in Nat /\ l \in Nat
  BY LenProperties
<1>2. /\ Len(t) = m + n
      /\ \A i \in 1..(m + n) : t[i] = IF i <= m THEN a[i] ELSE b[i - m]
  BY ConcatProperties, Zenon
<1>3. StandsCut(a, s, p) \/ (StandsAt(a, s, p) /\ l < p + m + n)
  BY StandsInParts
<1>4. p <= l /\ l < p + (m + n) /\ \A i \in 1..(l - p) : s[p + i] = t[i]
  BY <1>2, Zenon DEF StandsCut, l
<1> HIDE DEF m, n, l, t
<1>5. ASSUME StandsAt(a, s, p) PROVE StandsCut(b, s, p + m)
  <2>1. p + m <= l /\ l < (p + m) + n
    BY <1>1, <1>4, <1>5 DEF StandsAt, m, l
  <2>2. \A i \in 1..(l - (p + m)) : s[(p + m) + i] = b[i]
    <3> SUFFICES ASSUME NEW i \in 1..(l - (p + m)) PROVE s[(p + m) + i] = b[i]
      OBVIOUS
    <3>1. /\ m + i \in 1..(m + n) /\ ~(m + i <= m) /\ (m + i) - m = i
          /\ (p + m) + i = p + (m + i) /\ m + i \in 1..(l - p)
      BY <1>1, <2>1
    <3> QED BY <1>2, <1>4, <3>1
  <2> QED BY <2>1, <2>2 DEF StandsCut, l, n
<1> QED BY <1>3, <1>5 DEF m

\* Where each of the first k octet strings stands, one after the other: the
\* i-th ends at ends[i].
LaidTo(ss, s, p, k, ends) ==
    /\ ends[0] = p
    /\ \A i \in 0..k : ends[i] \in Nat
    /\ \A i \in 1..k : StandsAt(ss[i], s, ends[i - 1]) /\ ends[i] = ends[i - 1] + Len(ss[i])

\* All of them stand.
Laid(ss, s, p, ends) ==
    LaidTo(ss, s, p, Len(ss), ends) /\ ends[Len(ss)] = p + Len(FlattenSeq(ss))

\* The k-th is cut off.
LaidCut(ss, s, p, k, ends) ==
    /\ k \in 1..Len(ss)
    /\ LaidTo(ss, s, p, k - 1, ends)
    /\ StandsCut(ss[k], s, ends[k - 1])

\* Where the parts of a joined string stand.
LEMMA JoinsLaid ==
    ASSUME NEW s \in Seq(Byte), NEW p \in Nat, NEW ss \in Seq(Seq(Byte)),
           NEW f, Joins(f, ss, Byte), NEW n \in 0..Len(ss), StandsAt(f[n], s, p),
           NEW ends, ends = [i \in 0..n |-> p + Len(f[i])]
    PROVE  LaidTo(ss, s, p, n, ends) /\ ends[n] = p + Len(f[n])
<1> DEFINE Q == Seq(Byte)  e == <<>>
           Cat(x, y) == x \o y
           Size(x) == Len(x)
           Holds(x, q) == StandsAt(x, s, q)
<1>1. n \in Nat /\ Len(ss) \in Nat /\ n <= Len(ss)
  BY LenProperties
<1>2. \A i \in 1..n : ss[i] \in Q
  BY <1>1, ElementOfSeq
<1>3. /\ f[0] = e /\ \A i \in 0..n : f[i] \in Q
      /\ \A i \in 1..n : f[i] = Cat(f[i - 1], ss[i])
  <2>1. /\ f[0] = e /\ \A i \in 0..Len(ss) : f[i] \in Q
        /\ \A i \in 1..Len(ss) : f[i] = Cat(f[i - 1], ss[i])
    BY Zenon DEF Joins
  <2> HIDE DEF Q, Cat, e
  <2> QED BY <1>1, <2>1
<1>4. /\ Size(e) = 0 /\ \A x \in Q : Size(x) \in Nat
      /\ \A x, y \in Q : Size(Cat(x, y)) = Size(x) + Size(y)
  BY LenProperties, ConcatProperties
<1>5. \A x, y \in Q : Holds(Cat(x, y), p) => Holds(x, p) /\ Holds(y, p + Size(x))
  BY StandsInParts
<1>6. Holds(f[n], p) /\ ends = [i \in 0..n |-> p + Size(f[i])]
  OBVIOUS
<1> HIDE DEF Q, e, Cat, Size, Holds
<1>7. \A i \in 0..n : Holds(f[i], p)
  <2> DEFINE T == {k \in 0..n : Holds(f[k], p)}
  <2>1. ASSUME NEW k \in 0..n, \A j \in 0..n : j > k => j \in T PROVE k \in T
    <3>1. CASE k = n
      BY <1>6, <3>1
    <3>2. CASE k # n
      <4>1. k + 1 \in 1..n /\ k + 1 \in 0..n /\ k + 1 > k /\ (k + 1) - 1 = k
        BY <1>1, <3>2
      <4>2. Holds(f[k + 1], p)
        BY <2>1, <4>1
      <4>3. f[k + 1] = Cat(f[k], ss[k + 1]) /\ f[k] \in Q /\ ss[k + 1] \in Q
        BY <1>2, <1>3, <4>1
      <4> QED BY <1>5, <4>2, <4>3
    <3> QED BY <3>1, <3>2
  <2>2. \A k \in 0..n : k \in T
    <3> HIDE DEF T
    <3> QED BY <1>1, <2>1, DownFrom
  <2> QED BY <2>2
<1>8. ends[0] = p /\ ends[n] = p + Size(f[n]) /\ \A i \in 0..n : ends[i] \in Nat
  <2>1. 0 \in 0..n /\ n \in 0..n /\ p + 0 = p
    BY <1>1
  <2>2. \A i \in 0..n : ends[i] = p + Size(f[i])
    BY <1>6
  <2>3. \A i \in 0..n : Size(f[i]) \in Nat
    BY <1>3, <1>4
  <2>4. Size(f[0]) = 0
    BY <1>3, <1>4
  <2>5. ends[0] = p + Size(f[0]) /\ ends[n] = p + Size(f[n])
    BY <2>1, <2>2, Zenon
  <2>6. ends[0] = p
    BY <2>1, <2>4, <2>5
  <2>7. \A i \in 0..n : p + Size(f[i]) \in Nat
    BY <2>3
  <2>8. \A i \in 0..n : ends[i] \in Nat
    BY <2>2, <2>7, Zenon
  <2> QED BY <2>5, <2>6, <2>8
<1>9. ASSUME NEW i \in 1..n
      PROVE  Holds(ss[i], ends[i - 1]) /\ ends[i] = ends[i - 1] + Size(ss[i])
  <2>1. i \in 0..n /\ i - 1 \in 0..n
    BY <1>1
  <2>2. f[i] = Cat(f[i - 1], ss[i]) /\ f[i - 1] \in Q /\ ss[i] \in Q /\ Holds(f[i], p)
    BY <1>2, <1>3, <1>7, <2>1
  <2>3. ends[i] = p + Size(f[i]) /\ ends[i - 1] = p + Size(f[i - 1])
    BY <1>6, <2>1
  <2>4. Holds(ss[i], p + Size(f[i - 1]))
    BY <1>5, <2>2
  <2>5. Size(f[i]) = Size(f[i - 1]) + Size(ss[i]) /\ Size(f[i - 1]) \in Nat /\ Size(ss[i]) \in Nat
    BY <1>4, <2>2
  <2> QED BY <2>3, <2>4, <2>5
<1>10. LaidTo(ss, s, p, n, ends)
  BY <1>8, <1>9, Zenon DEF LaidTo, Size, Holds
<1> QED BY <1>8, <1>10 DEF Size

\* A joined string stands where its parts do, one after the other.
LEMMA FlattenStands ==
    ASSUME NEW s \in Seq(Byte), NEW p \in Nat, NEW ss \in Seq(Seq(Byte)),
           StandsAt(FlattenSeq(ss), s, p)
    PROVE  \E ends : Laid(ss, s, p, ends)
<1> DEFINE n == Len(ss)
<1>1. PICK f : Joins(f, ss, Byte) /\ FlattenSeq(ss) = f[n]
  BY FlattenJoins, Zenon
<1>2. n \in 0..Len(ss) /\ StandsAt(f[n], s, p)
  BY <1>1, LenProperties
<1> HIDE DEF n
<1>3. PICK ends : ends = [i \in 0..n |-> p + Len(f[i])]
  OBVIOUS
<1>4. LaidTo(ss, s, p, n, ends) /\ ends[n] = p + Len(f[n])
  BY <1>1, <1>2, <1>3, JoinsLaid
<1> QED BY <1>1, <1>4, Zenon DEF Laid, n

\* One that is cut off has a part that is cut off, after parts that are not.
LEMMA FlattenCut ==
    ASSUME NEW s \in Seq(Byte), NEW p \in Nat, NEW ss \in Seq(Seq(Byte)),
           StandsCut(FlattenSeq(ss), s, p)
    PROVE  \E k, ends : LaidCut(ss, s, p, k, ends)
<1> DEFINE n == Len(ss)  Q == Seq(Byte)
           Cat(x, y) == x \o y
           e == <<>>
<1>1. PICK f : Joins(f, ss, Byte) /\ FlattenSeq(ss) = f[n]
  BY FlattenJoins, Zenon
<1>2. n \in Nat /\ \A i \in 1..n : ss[i] \in Q
  BY LenProperties, ElementOfSeq
<1>3. /\ f[0] = e /\ \A i \in 0..n : f[i] \in Q
      /\ \A i \in 1..n : f[i] = Cat(f[i - 1], ss[i])
  BY <1>1, Zenon DEF Joins
<1> DEFINE T == {j \in Nat : ~StandsCut(f[j], s, p)}
<1>4. PICK k \in Nat : k <= n /\ StandsCut(f[k], s, p) /\ \A j \in Nat : j < k => ~StandsCut(f[j], s, p)
  <2>1. n \in Nat /\ n \notin T
    BY <1>1, <1>2
  <2>2. \E k \in Nat : k <= n /\ k \notin T /\ \A j \in Nat : j < k => j \in T
    <3> HIDE DEF T, n
    <3> QED BY <2>1, LeastOutside
  <2> QED BY <2>2
<1>5. k # 0
  <2>1. ~StandsCut(e, s, p)
    <3>1. Len(s) \in Nat /\ Len(e) = 0
      BY LenProperties
    <3> HIDE DEF e
    <3> QED BY <3>1 DEF StandsCut
  <2> QED BY <1>3, <1>4, <2>1
<1>6. k \in 1..n /\ k - 1 \in 0..n /\ k - 1 \in Nat /\ k - 1 < k
  BY <1>2, <1>4, <1>5
<1> DEFINE a == f[k - 1]  b == ss[k]
<1>7. a \in Q /\ b \in Q /\ f[k] = Cat(a, b) /\ StandsCut(f[k], s, p) /\ ~StandsCut(a, s, p)
  BY <1>2, <1>3, <1>4, <1>6
<1> HIDE DEF a, b, n
<1>8. StandsAt(a, s, p) /\ StandsCut(b, s, p + Len(a))
  BY <1>7, CutInParts
<1>9. PICK ends : ends = [i \in 0..(k - 1) |-> p + Len(f[i])]
  OBVIOUS
<1>10. LaidTo(ss, s, p, k - 1, ends) /\ ends[k - 1] = p + Len(f[k - 1])
  <2> DEFINE j == k - 1
  <2>1. j \in 0..Len(ss) /\ StandsAt(f[j], s, p) /\ ends = [i \in 0..j |-> p + Len(f[i])]
    BY <1>6, <1>8, <1>9 DEF a, n
  <2> HIDE DEF j
  <2>2. LaidTo(ss, s, p, j, ends) /\ ends[j] = p + Len(f[j])
    BY <1>1, <2>1, JoinsLaid
  <2> QED BY <2>2 DEF j
<1>11. StandsCut(ss[k], s, ends[k - 1])
  BY <1>8, <1>10, Zenon DEF a, b
<1> QED BY <1>6, <1>10, <1>11, Zenon DEF LaidCut, n

\* None of the octet strings joined is empty.
LEMMA FlattenLonger ==
    ASSUME NEW ss \in Seq(Strings)
    PROVE  /\ ss \in Seq(Seq(Byte)) /\ IsData(FlattenSeq(ss))
           /\ Len(FlattenSeq(ss)) \in Nat /\ Len(ss) \in Nat /\ Len(ss) <= Len(FlattenSeq(ss))
<1> DEFINE n == Len(ss)  Cat(x, y) == x \o y  Size(x) == Len(x)  Q == Seq(Byte)
<1>1. n \in Nat /\ \A i \in 1..n : ss[i] \in Strings
  BY LenProperties, ElementOfSeq
<1>2. ss \in Seq(Seq(Byte))
  <2>1. Strings \subseteq Seq(Byte)
    BY DEF Strings
  <2> QED BY <2>1, SeqMonotonic
<1>3. PICK f : Joins(f, ss, Byte) /\ FlattenSeq(ss) = f[n]
  BY <1>2, FlattenJoins, Zenon
<1>4. /\ \A i \in 0..n : f[i] \in Q
      /\ \A i \in 1..n : f[i] = Cat(f[i - 1], ss[i])
  BY <1>3, Zenon DEF Joins
<1>5. /\ \A x \in Q : Size(x) \in Nat
      /\ \A x, y \in Q : Size(Cat(x, y)) = Size(x) + Size(y)
  BY LenProperties, ConcatProperties
<1>6. \A x \in Strings : x \in Q /\ Size(x) # 0
  BY EmptySeq DEF Strings
<1> DEFINE T == {j \in Nat : j <= n => j <= Size(f[j])}
<1> HIDE DEF n, Cat, Size, Q
<1>7. 0 \in T
  BY <1>1, <1>4, <1>5
<1>8. ASSUME NEW j \in Nat, j \in T PROVE j + 1 \in T
  <2>1. SUFFICES ASSUME j + 1 <= n PROVE j + 1 <= Size(f[j + 1])
    OBVIOUS
  <2>2. j + 1 \in 1..n /\ j \in 0..n /\ (j + 1) - 1 = j /\ j <= Size(f[j])
    BY <1>1, <1>8, <2>1
  <2>3. f[j + 1] = Cat(f[j], ss[j + 1]) /\ f[j] \in Q /\ ss[j + 1] \in Q /\ Size(ss[j + 1]) # 0
    BY <1>1, <1>4, <1>6, <2>2
  <2>4. /\ Size(f[j + 1]) = Size(f[j]) + Size(ss[j + 1])
        /\ Size(f[j]) \in Nat /\ Size(ss[j + 1]) \in Nat
    BY <1>5, <2>3
  <2> QED BY <2>2, <2>3, <2>4
<1>9. n \in T
  <2> HIDE DEF T
  <2> QED BY <1>1, <1>7, <1>8, Reaches
<1>10. n \in 0..n
  BY <1>1
<1> QED BY <1>1, <1>2, <1>3, <1>4, <1>5, <1>9, <1>10 DEF n, Size, Q, IsData

-----------------------------------------------------------------------------
(* What has been written is read: numbers and plain octets.                *)

\* A read that has not thrown.
Got(t, pos, count, x) == t = Read(pos, count, FALSE, x)

\* The fields of such a read.
LEMMA GotFields ==
    ASSUME NEW t, NEW pos, NEW count, NEW x, Got(t, pos, count, x)
    PROVE  t.pos = pos /\ t.count = count /\ ~t.threw /\ t.value = x
  BY DEF Got, Read

NumberOctets(n) == FlattenSeq(SerializeVarUint(n))

\* The octets of a number: one at least.
LEMMA NumberShape ==
    ASSUME NEW n, IsNumber(n)
    PROVE  /\ SerializeVarUint(n) \in Seq(Strings) /\ Len(SerializeVarUint(n)) # 0
           /\ IsData(NumberOctets(n)) /\ Len(NumberOctets(n)) \in Nat \ {0}
           /\ NumberOctets(n) = Joined(VarUintPieces(WordOf(n)))
<1>1. WordOf(n) \in Word
  BY SmallNumbers DEF IsNumber
<1>2. IsInteger(SerializeVarUint(n))
  BY <1>1, IntegerPieces DEF SerializeVarUint
<1>3. /\ SerializeVarUint(n) \in Seq(Strings) /\ Len(SerializeVarUint(n)) # 0
      /\ NumberOctets(n) = Joined(SerializeVarUint(n))
  BY <1>2, IntegerShape, Zenon DEF NumberOctets
<1>4. /\ IsData(NumberOctets(n)) /\ Len(NumberOctets(n)) \in Nat
      /\ Len(SerializeVarUint(n)) \in Nat /\ Len(SerializeVarUint(n)) <= Len(NumberOctets(n))
  BY <1>3, FlattenLonger, Zenon DEF NumberOctets
<1>5. Len(NumberOctets(n)) # 0
  <2> DEFINE a == Len(SerializeVarUint(n))  b == Len(NumberOctets(n))
  <2>1. a \in Nat /\ b \in Nat /\ a <= b /\ a # 0
    BY <1>3, <1>4, Zenon
  <2> HIDE DEF a, b
  <2>2. b # 0
    BY <2>1
  <2> QED BY <2>2 DEF b
<1> QED BY <1>3, <1>4, <1>5, Zenon DEF SerializeVarUint

\* A number is read where its octets stand.
LEMMA NumberGiven ==
    ASSUME NEW s, IsData(s), NEW n, IsNumber(n),
           NEW pos \in Nat, NEW count \in Int, NEW x, NEW r, Got(r, pos, count, x),
           NEW l, l = Len(NumberOctets(n)), StandsAt(NumberOctets(n), s, pos)
    PROVE  Got(DeserializeVarUint(s, r), pos + l, count + l, n)
<1> DEFINE v == ReadVarUint(s, pos)  w == WordOf(n)
<1>1. w \in Word /\ NumberOf(w) = n
  BY SmallNumbers DEF IsNumber
<1>2. s \in Seq(Int)
  BY BytesAreInts DEF IsData
<1>3. NumberOctets(n) = Joined(VarUintPieces(w))
  BY NumberShape, Zenon
<1>4. v = [threw |-> FALSE, pos |-> pos + l, value |-> w]
  BY <1>1, <1>2, <1>3, VarUintRoundTrip, Zenon
<1>5. r.pos = pos /\ r.count = count
  BY GotFields
<1>6. l \in Nat
  BY NumberShape
<1> HIDE DEF v, w
<1>7. ~v.threw /\ v.pos = pos + l /\ v.value = w
  BY <1>4
<1>8. DeserializeVarUint(s, r) = Read(v.pos, r.count + v.pos - r.pos, FALSE, NumberOf(v.value))
  BY <1>5, <1>7, Zenon DEF DeserializeVarUint, Counted, v
<1>9. r.count + v.pos - r.pos = count + l
  BY <1>5, <1>6, <1>7
<1> QED BY <1>1, <1>7, <1>8, <1>9, Zenon DEF Got

\* One octet, several times.
Repeated(n, x) == [i \in 1..n |-> x]

\* The octets of a plain primitive.
LEMMA RepeatedShape ==
    ASSUME NEW n \in Nat \ {0}, NEW x \in Byte
    PROVE  Repeated(n, x) \in Strings /\ Len(Repeated(n, x)) = n /\ IsData(Repeated(n, x))
<1>1. Repeated(n, x) \in Seq(Byte) /\ Len(Repeated(n, x)) = n
  BY SeqDef DEF Repeated
<1>2. Repeated(n, x) # <<>>
  BY <1>1
<1> QED BY <1>1, <1>2 DEF Strings, IsData

\* It is read where they stand.
LEMMA PlainGiven ==
    ASSUME NEW s, IsData(s), NEW n \in Nat \ {0}, NEW y \in Byte,
           NEW pos \in Nat, NEW count \in Int, NEW x, NEW r, Got(r, pos, count, x),
           StandsAt(Repeated(n, y), s, pos)
    PROVE  Got(DeserializePlain(s, r, n), pos + n, count + n, y)
<1>1. r.pos = pos /\ r.count = count
  BY GotFields
<1>2. pos + n <= Len(s) /\ \A i \in 1..n : s[pos + i] = y
  BY RepeatedShape DEF StandsAt, Repeated
<1>3. Len(s) \in Nat
  BY LenProperties DEF IsData
<1>4. ~(pos + n > Len(s))
  BY <1>2, <1>3
<1> DEFINE t == Take(s, pos, n)
<1>5. \A i \in 1..n : t[i] = y
  BY <1>2 DEF Take
<1>6. 1 \in 1..n
  OBVIOUS
<1> HIDE DEF t
<1>7. t[1] = y /\ \A i \in 1..n : t[i] = t[1]
  BY <1>5, <1>6
<1>8. DeserializePlain(s, r, n) =
        Read(pos + n, count + n, FALSE, IF \A i \in 1..n : t[i] = t[1] THEN t[1] ELSE Garbled)
  BY <1>1, <1>4, Zenon DEF DeserializePlain, t
<1> QED BY <1>7, <1>8, Zenon DEF Got

PrimitiveOctets(octets, x) == FlattenSeq(SerializePrimitive(octets, x))

\* The octets of a primitive.
LEMMA PrimitiveShape ==
    ASSUME NEW octets \in Nat, NEW x, IsPrimitive(octets, x)
    PROVE  /\ SerializePrimitive(octets, x) \in Seq(Strings) /\ Len(SerializePrimitive(octets, x)) # 0
           /\ IsData(PrimitiveOctets(octets, x)) /\ Len(PrimitiveOctets(octets, x)) \in Nat \ {0}
           /\ octets # 0 => PrimitiveOctets(octets, x) = Repeated(octets, x)
<1>1. CASE octets = 0
  <2>1. IsNumber(x) /\ SerializePrimitive(octets, x) = SerializeVarUint(x)
    BY <1>1, Zenon DEF IsPrimitive, SerializePrimitive
  <2> QED BY <1>1, <2>1, NumberShape, Zenon DEF PrimitiveOctets, NumberOctets
<1>2. CASE octets # 0
  <2> DEFINE y == Repeated(octets, x)
  <2>1. x \in Byte /\ SerializePrimitive(octets, x) = <<y>>
    BY <1>2, Zenon DEF IsPrimitive, SerializePrimitive, Repeated
  <2>2. y \in Strings /\ Len(y) = octets /\ IsData(y)
    BY <1>2, <2>1, RepeatedShape
  <2>3. FlattenSeq(<<y>>) = y
    BY <2>2, FlattenOne DEF IsData
  <2> HIDE DEF y
  <2>4. <<y>> \in Seq(Strings) /\ Len(<<y>>) # 0
    BY <2>2
  <2> QED BY <1>2, <2>1, <2>2, <2>3, <2>4 DEF PrimitiveOctets, y
<1> QED BY <1>1, <1>2

\* A primitive is read where its octets stand.
LEMMA PrimitiveGiven ==
    ASSUME NEW s, IsData(s), NEW octets \in Nat, NEW y, IsPrimitive(octets, y),
           NEW pos \in Nat, NEW count \in Int, NEW x, NEW r, Got(r, pos, count, x),
           NEW l, l = Len(PrimitiveOctets(octets, y)), StandsAt(PrimitiveOctets(octets, y), s, pos)
    PROVE  Got(DeserializePrimitive(s, r, octets), pos + l, count + l, y)
<1>1. CASE octets = 0
  <2>1. IsNumber(y) /\ PrimitiveOctets(octets, y) = NumberOctets(y)
    BY <1>1, Zenon DEF IsPrimitive, SerializePrimitive, PrimitiveOctets, NumberOctets
  <2>2. l = Len(NumberOctets(y)) /\ StandsAt(NumberOctets(y), s, pos)
    BY <2>1, Zenon
  <2>3. Got(DeserializeVarUint(s, r), pos + l, count + l, y)
    BY <2>1, <2>2, NumberGiven
  <2> QED BY <1>1, <2>3, Zenon DEF DeserializePrimitive
<1>2. CASE octets # 0
  <2>1. y \in Byte /\ PrimitiveOctets(octets, y) = Repeated(octets, y)
    BY <1>2, PrimitiveShape, Zenon DEF IsPrimitive
  <2>2. Len(Repeated(octets, y)) = octets
    BY <1>2, <2>1, RepeatedShape
  <2>3. l = octets /\ StandsAt(Repeated(octets, y), s, pos)
    BY <2>1, <2>2, Zenon
  <2>4. Got(DeserializePlain(s, r, octets), pos + octets, count + octets, y)
    BY <1>2, <2>1, <2>3, PlainGiven
  <2> QED BY <1>2, <2>3, <2>4, Zenon DEF DeserializePrimitive
<1> QED BY <1>1, <1>2

-----------------------------------------------------------------------------
(* What has been written is read: fields and vectors.                      *)

\* Such a read with another value.
LEMMA GotRevalued ==
    ASSUME NEW t, NEW pos, NEW count, NEW x, Got(t, pos, count, x), NEW y,
           NEW u, u = [t EXCEPT !.value = y]
    PROVE  Got(u, pos, count, y)
<1> DEFINE no == FALSE
<1>1. t = [pos |-> pos, count |-> count, threw |-> no, value |-> x]
  BY DEF Got, Read
<1> HIDE DEF no
<1>2. u = [pos |-> pos, count |-> count, threw |-> no, value |-> y]
  BY <1>1
<1> QED BY <1>2, Zenon DEF Got, Read, no

\* The i-th of the reads gives the i-th value of x and ends at ends[i].
Yields(n, f, g, ends, x) ==
    \A i \in 1..n : \A c \in Int : \A z :
        Got(f[i - 1], ends[i - 1], c, z) => Got(g[i], ends[i], c + (ends[i] - ends[i - 1]), x[i])

\* A run whose steps all give a value gives the sequence of them.
LEMMA RunGives ==
    ASSUME NEW n \in Nat, NEW pos \in Nat, NEW count \in Int, NEW y, NEW r, Got(r, pos, count, y),
           NEW f, NEW g, Runs(f, n, r, g),
           NEW ends, ends[0] = pos, \A i \in 0..n : ends[i] \in Nat, NEW x,
           Yields(n, f, g, ends, x)
    PROVE  Got(f[n], ends[n], count + (ends[n] - pos), [i \in 1..n |-> x[i]])
<1> DEFINE some(k) == [i \in 1..k |-> x[i]]
           C(k) == count + (ends[k] - pos)
           T == {k \in Nat : k <= n => Got(f[k], ends[k], C(k), some(k))}
           e == <<>>
<1>1. f[0] = [r EXCEPT !.value = e] /\ \A i \in 1..n : f[i] = Then(f[i - 1], g[i])
  BY Zenon DEF Runs
<1>2. 0 \in T
  <2>1. some(0) = e
    OBVIOUS
  <2>2. C(0) = count /\ ends[0] = pos
    OBVIOUS
  <2>3. Got(f[0], pos, count, e)
    <3> HIDE DEF e
    <3>1. f[0] = [r EXCEPT !.value = e]
      BY <1>1
    <3> QED BY <3>1, GotRevalued
  <2> HIDE DEF some, C, e
  <2>4. Got(f[0], ends[0], C(0), some(0))
    BY <2>1, <2>2, <2>3, Zenon
  <2> QED BY <2>4
<1>3. ASSUME NEW k \in Nat, k \in T PROVE k + 1 \in T
  <2>1. SUFFICES ASSUME k + 1 <= n PROVE Got(f[k + 1], ends[k + 1], C(k + 1), some(k + 1))
    OBVIOUS
  <2>2. k + 1 \in 1..n /\ (k + 1) - 1 = k /\ k \in 0..n /\ k + 1 \in 0..n /\ k <= n
    BY <2>1
  <2>3. Got(f[k], ends[k], C(k), some(k))
    BY <1>3, <2>2
  <2>4. C(k) \in Int /\ C(k) + (ends[k + 1] - ends[k]) = C(k + 1)
    BY <2>2
  <2> HIDE DEF C
  <2>5. Got(g[k + 1], ends[k + 1], C(k + 1), x[k + 1])
    <3>1. \A c \in Int : \A z : Got(f[k], ends[k], c, z) =>
                   Got(g[k + 1], ends[k + 1], c + (ends[k + 1] - ends[k]), x[k + 1])
      BY <2>2 DEF Yields
    <3>2. Got(g[k + 1], ends[k + 1], C(k) + (ends[k + 1] - ends[k]), x[k + 1])
      BY <2>3, <2>4, <3>1, Zenon
    <3> QED BY <2>4, <3>2
  <2>6. f[k + 1] = Then(f[k], g[k + 1])
    BY <1>1, <2>2
  <2>7. ~f[k].threw /\ f[k].value = some(k)
    BY <2>3, GotFields
  <2>8. g[k + 1].value = x[k + 1]
    BY <2>5, GotFields
  <2>9. Then(f[k], g[k + 1]) = [g[k + 1] EXCEPT !.value = Append(some(k), x[k + 1])]
    <3> HIDE DEF some
    <3>1. Then(f[k], g[k + 1]) = [g[k + 1] EXCEPT !.value = Append(f[k].value, g[k + 1].value)]
      BY <2>7 DEF Then
    <3> QED BY <2>7, <2>8, <3>1, Zenon
  <2>10. Append(some(k), x[k + 1]) = some(k + 1)
    BY SMT
  <2> HIDE DEF some
  <2>11. f[k + 1] = [g[k + 1] EXCEPT !.value = some(k + 1)]
    BY <2>6, <2>9, <2>10, Zenon
  <2> QED BY <2>5, <2>11, GotRevalued
<1>4. n \in T
  <2> HIDE DEF T
  <2> QED BY <1>2, <1>3, Reaches
<1> QED BY <1>4

\* The tables of the Encoder and of the Decoder are the same, and every field
\* has a primitive.
LEMMA CopiesString ==
    ASSUME NEW s \in Strings, NEW n \in Nat \ {0}
    PROVE  Copies(n, s) \in Strings
<1> DEFINE ss == [i \in 1..n |-> s]  t == FlattenSeq(ss)
<1>1. ss \in Seq(Strings) /\ Len(ss) = n
  BY SeqDef
<1> HIDE DEF ss
<1>2. IsData(t) /\ Len(t) \in Nat /\ Len(ss) <= Len(t)
  BY <1>1, FlattenLonger
<1> HIDE DEF t
<1>3. Len(t) # 0
  BY <1>1, <1>2
<1>4. t # <<>>
  BY <1>3
<1> QED BY <1>2, <1>4 DEF Copies, Strings, IsData, ss, t

\* The two tables, as sequences of numbers.
LEMMA TableStrings ==
    ASSUME NEW type \in DOMAIN PrimitivesRead
    PROVE  PrimitivesRead[type] \in Strings
<1>1. \A x \in {0, 1, 2, 4} : <<x>> \in Strings
  BY DEF Strings, Byte
<1>2. <<0, 0>> \in Strings
  BY DEF Strings, Byte
<1>3. \A a, b \in Strings : a \o b \in Strings
  <2> SUFFICES ASSUME NEW a \in Strings, NEW b \in Strings PROVE a \o b \in Strings
    OBVIOUS
  <2>1. a \in Seq(Byte) /\ b \in Seq(Byte) /\ b # <<>>
    BY DEF Strings
  <2> DEFINE c == a \o b
  <2>2. c \in Seq(Byte) /\ Len(c) = Len(a) + Len(b)
    BY <2>1, ConcatProperties
  <2>3. Len(a) \in Nat /\ Len(b) \in Nat /\ Len(b) # 0
    BY <2>1, LenProperties, EmptySeq
  <2> HIDE DEF c
  <2>4. c # <<>>
    BY <2>2, <2>3
  <2> QED BY <2>2, <2>4 DEF Strings, c
<1> DEFINE fours == Copies(3, <<4>>)  twos == Copies(3, <<2>>)  sixes == Copies(6, <<2>>)
<1>4. fours \in Strings /\ twos \in Strings /\ sixes \in Strings
  BY <1>1, CopiesString
<1> HIDE DEF fours, twos, sixes
<1>5. fours \o twos \in Strings /\ Copies(4, twos) \in Strings /\ Copies(5, twos) \in Strings
  BY <1>3, <1>4, CopiesString
<1> DEFINE zero == <<0>>  one == <<1>>  two == <<2>>
<1>6. /\ ReadLoc1 \in Strings /\ ReadLoc2 \in Strings /\ ReadNorm1 \in Strings
      /\ ReadTextureUV1 \in Strings /\ ReadRot1 \in Strings /\ ReadRot2 \in Strings
      /\ ReadTransform1 \in Strings /\ ReadThumb \in Strings /\ ReadFinger \in Strings
  BY <1>2, <1>4, <1>5, Zenon
     DEF ReadLoc1, ReadLoc2, ReadNorm1, ReadTextureUV1, ReadRot1, ReadRot2, ReadTransform1,
         ReadThumb, ReadFinger, fours, twos, sixes
<1>7. PrimitivesRead =
        [VarUint |-> zero, Time1 |-> two, Boolean |-> one, Float16 |-> two,
         Loc1 |-> ReadLoc1, Loc2 |-> ReadLoc2, Norm1 |-> ReadNorm1,
         TextureUV1 |-> ReadTextureUV1, Rot1 |-> ReadRot1, Rot2 |-> ReadRot2,
         Transform1 |-> ReadTransform1, Thumb |-> ReadThumb, Finger |-> ReadFinger]
  BY DEF PrimitivesRead
<1>8. zero \in Strings /\ one \in Strings /\ two \in Strings
  BY <1>1
<1> HIDE DEF zero, one, two
<1> QED BY <1>6, <1>7, <1>8, SMTT(30)

\* What is read of each type is what is written of it.
LEMMA TablesEqual == Primitives = PrimitivesRead
  BY Zenon DEF Primitives, PrimitivesRead, Loc1, ReadLoc1, Loc2, ReadLoc2, Norm1, ReadNorm1, TextureUV1,
     ReadTextureUV1, Rot1, ReadRot1, Rot2, ReadRot2, Transform1, ReadTransform1, Thumb, ReadThumb,
     Finger, ReadFinger, Times, Copies

Types == DOMAIN Primitives

\* An entry of the tables.
LEMMA Table ==
    ASSUME NEW type \in Types
    PROVE  /\ type \in DOMAIN PrimitivesRead /\ Primitives[type] = PrimitivesRead[type]
           /\ Primitives[type] \in Seq(Nat)
           /\ DOMAIN Primitives[type] = 1..Len(Primitives[type])
           /\ Len(Primitives[type]) \in Nat \ {0}
           /\ \A i \in 1..Len(Primitives[type]) : Primitives[type][i] \in Nat
<1>1. type \in DOMAIN PrimitivesRead /\ Primitives[type] = PrimitivesRead[type]
  BY TablesEqual DEF Types
<1> DEFINE t == Primitives[type]
<1>2. t \in Seq(Byte) /\ t # <<>>
  BY <1>1, TableStrings DEF Strings
<1>3. t \in Seq(Nat)
  <2>1. Byte \subseteq Nat
    BY DEF Byte
  <2> QED BY <1>2, <2>1, SeqMonotonic
<1> HIDE DEF t
<1>4. /\ DOMAIN t = 1..Len(t) /\ Len(t) \in Nat /\ Len(t) # 0 /\ \A i \in 1..Len(t) : t[i] \in Nat
  BY <1>2, <1>3, LenProperties, ElementOfSeq, EmptySeq
<1> QED BY <1>1, <1>3, <1>4 DEF t

FieldOctets(type, x) == FlattenSeq(SerializeField(type, x))

\* The octets of each primitive of a field.
FieldParts(type, x) == [i \in 1..Len(Primitives[type]) |-> PrimitiveOctets(Primitives[type][i], x[i])]

\* The octets of a field.
LEMMA FieldShape ==
    ASSUME NEW type \in Types, NEW x \in FieldValues(type)
    PROVE  /\ SerializeField(type, x) \in Seq(Strings)
           /\ IsData(FieldOctets(type, x)) /\ Len(FieldOctets(type, x)) \in Nat \ {0}
           /\ FieldOctets(type, x) = FlattenSeq(FieldParts(type, x))
           /\ FieldParts(type, x) \in Seq(Strings)
           /\ Len(FieldParts(type, x)) = Len(Primitives[type])
<1> DEFINE table == Primitives[type]  n == Len(table)
           ss == [i \in 1..n |-> SerializePrimitive(table[i], x[i])]
           each == FieldParts(type, x)
<1>1. n \in Nat \ {0} /\ DOMAIN table = 1..n /\ \A i \in 1..n : table[i] \in Nat
  BY Table
<1>2. \A i \in 1..n : IsPrimitive(table[i], x[i])
  BY DEF FieldValues
<1>3. SerializeField(type, x) = FlattenSeq(ss)
  BY <1>1, Zenon DEF SerializeField
<1>4. each = [i \in 1..n |-> FlattenSeq(ss[i])]
  BY Zenon DEF FieldParts, PrimitiveOctets
<1> HIDE DEF n, table, each
<1>5. \A i \in 1..n : /\ SerializePrimitive(table[i], x[i]) \in Seq(Strings)
                      /\ PrimitiveOctets(table[i], x[i]) \in Strings
  <2> SUFFICES ASSUME NEW i \in 1..n
               PROVE  /\ SerializePrimitive(table[i], x[i]) \in Seq(Strings)
                      /\ PrimitiveOctets(table[i], x[i]) \in Strings
    OBVIOUS
  <2> DEFINE t == PrimitiveOctets(table[i], x[i])
  <2>1. /\ SerializePrimitive(table[i], x[i]) \in Seq(Strings)
        /\ IsData(t) /\ Len(t) \in Nat \ {0}
    BY <1>1, <1>2, PrimitiveShape
  <2> HIDE DEF t
  <2>2. t # <<>>
    BY <2>1
  <2> QED BY <2>1, <2>2 DEF IsData, Strings, t
<1>6. ss \in Seq(Seq(Strings)) /\ Len(ss) = n
  BY <1>1, <1>5, SeqDef
<1>7. each \in Seq(Strings) /\ Len(each) = n
  BY <1>1, <1>5, SeqDef DEF FieldParts, each, n, table
<1> HIDE DEF ss
<1>8. FlattenSeq(ss) \in Seq(Strings)
  BY <1>6, FlattenType
<1>9. FlattenSeq(FlattenSeq(ss)) = FlattenSeq(each)
  <2>1. Strings \subseteq Seq(Byte)
    BY DEF Strings
  <2>2. Seq(Strings) \subseteq Seq(Seq(Byte))
    BY <2>1, SeqMonotonic
  <2>3. ss \in Seq(Seq(Seq(Byte)))
    BY <1>6, <2>2, SeqMonotonic
  <2>4. FlattenSeq(FlattenSeq(ss)) = FlattenSeq([i \in 1..Len(ss) |-> FlattenSeq(ss[i])])
    BY <2>3, FlattenNested
  <2> QED BY <1>4, <1>6, <2>4
<1> DEFINE t == FlattenSeq(each)
<1>10. IsData(t) /\ Len(t) \in Nat /\ Len(each) <= Len(t)
  BY <1>7, FlattenLonger
<1> HIDE DEF t
<1>11. Len(t) # 0
  BY <1>1, <1>7, <1>10
<1> QED BY <1>3, <1>7, <1>8, <1>9, <1>10, <1>11 DEF FieldOctets, t, each, n, table

\* Such a read is within the data.
LEMMA GotAt ==
    ASSUME NEW s, NEW pos \in Nat, pos <= Len(s), NEW count \in Int, NEW x, NEW r, Got(r, pos, count, x)
    PROVE  At(s, r) /\ r.pos = pos /\ r.count = count
<1> DEFINE no == FALSE
<1>1. r = Read(pos, count, no, x) /\ no \in BOOLEAN
  BY DEF Got
<1> HIDE DEF no
<1>2. r.pos = pos /\ r.count = count /\ r.threw = no /\ IsRead(r)
  BY <1>1, Fields
<1> QED BY <1>1, <1>2 DEF At

\* Once a read has thrown nothing more is read.
LEMMA RunCut ==
    ASSUME NEW n \in Nat, NEW k \in 1..n, NEW r, NEW f, NEW g, Runs(f, n, r, g),
           ~f[k - 1].threw, NEW s, At(s, g[k]), g[k].threw
    PROVE  f[n].threw
<1> DEFINE T == {i \in Nat : k + i <= n => f[k + i].threw}
<1>1. \A i \in 1..n : f[i] = Then(f[i - 1], g[i])
  BY DEF Runs
<1>2. f[k].threw
  <2>1. f[k] = Then(f[k - 1], g[k])
    BY <1>1
  <2> DEFINE x == Append(f[k - 1].value, g[k].value)
  <2>2. f[k] = [g[k] EXCEPT !.value = x]
    BY <2>1 DEF Then
  <2> HIDE DEF x
  <2> QED BY <2>2, Revalued
<1>3. 0 \in T
  BY <1>2
<1>4. ASSUME NEW i \in Nat, i \in T PROVE i + 1 \in T
  <2>1. SUFFICES ASSUME k + (i + 1) <= n PROVE f[k + (i + 1)].threw
    OBVIOUS
  <2>2. /\ k + (i + 1) \in 1..n /\ (k + (i + 1)) - 1 = k + i /\ f[k + i].threw
    BY <1>4, <2>1
  <2> DEFINE j == k + (i + 1)  h == k + i
  <2>3. f[j] = Then(f[h], g[j])
    BY <1>1, <2>2
  <2> HIDE DEF j, h
  <2>4. f[j] = f[h]
    BY <2>2, <2>3 DEF Then, h
  <2> QED BY <2>2, <2>4 DEF j, h
<1>5. n - k \in T /\ n - k \in Nat /\ k + (n - k) = n
  <2>1. n - k \in Nat /\ k + (n - k) = n
    OBVIOUS
  <2> HIDE DEF T
  <2> QED BY <1>3, <1>4, <2>1, Reaches
<1> QED BY <1>5

\* The n reads of the primitives of a field.
FieldRuns(type, s, r, n, f, g) ==
    /\ Runs(f, n, r, g)
    /\ \A i \in 1..n : g[i] = DeserializePrimitive(s, f[i - 1], Primitives[type][i])

\* The first k of them.
LEMMA FieldSome ==
    ASSUME NEW s, IsData(s), NEW type \in Types, NEW y \in FieldValues(type),
           NEW pos \in Nat, NEW count \in Int, NEW x, NEW r, Got(r, pos, count, x),
           NEW n, n = Len(Primitives[type]),
           NEW f, NEW g, FieldRuns(type, s, r, n, f, g),
           NEW k \in 0..n, NEW ends, LaidTo(FieldParts(type, y), s, pos, k, ends)
    PROVE  Got(f[k], ends[k], count + (ends[k] - pos), [i \in 1..k |-> y[i]])
<1> DEFINE table == Primitives[type]  ss == FieldParts(type, y)
<1>1. n \in Nat \ {0} /\ k \in Nat /\ k <= n /\ \A i \in 1..n : table[i] \in Nat
  BY Table
<1>2. /\ ends[0] = pos /\ \A i \in 0..k : ends[i] \in Nat
      /\ \A i \in 1..k : StandsAt(ss[i], s, ends[i - 1]) /\ ends[i] = ends[i - 1] + Len(ss[i])
  BY Zenon DEF LaidTo
<1>3. \A i \in 1..n : IsPrimitive(table[i], y[i]) /\ ss[i] = PrimitiveOctets(table[i], y[i])
  BY DEF FieldValues, FieldParts
<1>4. Runs(f, n, r, g) /\ \A i \in 1..n : g[i] = DeserializePrimitive(s, f[i - 1], table[i])
  BY Zenon DEF FieldRuns
<1> HIDE DEF table, ss
<1>5. ASSUME NEW i \in 1..k, NEW c \in Int, NEW z, Got(f[i - 1], ends[i - 1], c, z)
      PROVE  Got(g[i], ends[i], c + (ends[i] - ends[i - 1]), y[i])
  <2> DEFINE l == Len(ss[i])  q == ends[i - 1]
  <2>1. q \in Nat /\ ends[i] \in Nat /\ ends[i] = q + l /\ StandsAt(ss[i], s, q) /\ i \in 1..n
    BY <1>1, <1>2
  <2>2. l \in Nat
    BY <1>1, <1>3, <2>1, PrimitiveShape
  <2>3. Got(DeserializePrimitive(s, f[i - 1], table[i]), q + l, c + l, y[i])
    <3>1. /\ l = Len(PrimitiveOctets(table[i], y[i])) /\ StandsAt(PrimitiveOctets(table[i], y[i]), s, q)
          /\ table[i] \in Nat /\ IsPrimitive(table[i], y[i]) /\ q \in Nat /\ Got(f[i - 1], q, c, z)
      BY <1>1, <1>3, <1>5, <2>1
    <3> HIDE DEF l, q
    <3> QED BY <3>1, PrimitiveGiven
  <2>4. g[i] = DeserializePrimitive(s, f[i - 1], table[i])
    BY <1>4, <2>1
  <2>5. c + l = c + (ends[i] - ends[i - 1])
    BY <2>1, <2>2
  <2> HIDE DEF l
  <2> QED BY <2>1, <2>3, <2>4, <2>5
<1>6. Runs(f, k, r, g)
  BY <1>1, <1>4 DEF Runs
<1>7. Yields(k, f, g, ends, y)
  BY <1>5, Zenon DEF Yields
<1> QED BY <1>1, <1>2, <1>6, <1>7, RunGives

\* All of them.
FieldReadBy(type, s, r, f, g) ==
    LET n == Len(Primitives[type])
    IN  FieldRuns(type, s, r, n, f, g) /\ DeserializeField(type, s, r) = f[n]

\* Reading a field is a run.
LEMMA FieldHasRun ==
    ASSUME NEW type \in Types, NEW s, NEW r
    PROVE  \E f, g : FieldReadBy(type, s, r, f, g)
<1>1. type \in DOMAIN PrimitivesRead /\ Primitives[type] = PrimitivesRead[type]
  BY Table
<1>2. FieldReads(type, s, r, Len(PrimitivesRead[type]))
  BY <1>1, FieldRun, Zenon
<1> QED BY <1>1, <1>2, Zenon DEF FieldReads, FieldReadBy, FieldRuns

\* A field is read where its octets stand.
LEMMA FieldGiven ==
    ASSUME NEW s, IsData(s), NEW type \in Types, NEW y \in FieldValues(type),
           NEW pos \in Nat, NEW count \in Int, NEW x, NEW r, Got(r, pos, count, x),
           NEW l, l = Len(FieldOctets(type, y)), StandsAt(FieldOctets(type, y), s, pos)
    PROVE  Got(DeserializeField(type, s, r), pos + l, count + l, y)
<1> DEFINE n == Len(Primitives[type])  ss == FieldParts(type, y)
<1>1. n \in Nat \ {0}
  BY Table
<1>2. PICK f, g : FieldReadBy(type, s, r, f, g)
  BY FieldHasRun
<1>3. FieldRuns(type, s, r, n, f, g) /\ DeserializeField(type, s, r) = f[n]
  BY <1>2, Zenon DEF FieldReadBy
<1>4. /\ ss \in Seq(Strings) /\ Len(ss) = n /\ FieldOctets(type, y) = FlattenSeq(ss)
      /\ l \in Nat
  BY FieldShape
<1>5. PICK ends : Laid(ss, s, pos, ends)
  <2>1. ss \in Seq(Seq(Byte))
    BY <1>4, FlattenLonger
  <2>2. s \in Seq(Byte)
    BY DEF IsData
  <2>3. StandsAt(FlattenSeq(ss), s, pos)
    BY <1>4, Zenon
  <2> HIDE DEF ss
  <2> QED BY <2>1, <2>2, <2>3, FlattenStands
<1>6. LaidTo(FieldParts(type, y), s, pos, n, ends) /\ ends[n] = pos + l
  BY <1>4, <1>5, Zenon DEF Laid
<1>7. y = [i \in 1..n |-> y[i]]
  BY DEF FieldValues
<1>8. n \in 0..n /\ n = Len(Primitives[type])
  BY <1>1
<1> HIDE DEF n, ss
<1>9. Got(f[n], ends[n], count + (ends[n] - pos), [i \in 1..n |-> y[i]])
  BY <1>3, <1>6, <1>8, FieldSome
<1>10. count + (ends[n] - pos) = count + l
  BY <1>4, <1>6
<1> QED BY <1>3, <1>6, <1>7, <1>9, <1>10

-----------------------------------------------------------------------------
(* What has lost its last octets is not read.                              *)

\* An exception is one.
LEMMA ThrownThrew ==
    ASSUME NEW r, IsRead(r)
    PROVE  Thrown(r).threw
  BY DEF IsRead, Read, Thrown

\* A number that is cut off throws.
LEMMA NumberCut ==
    ASSUME NEW s, IsData(s), NEW n, IsNumber(n), NEW r, At(s, r), StandsCut(NumberOctets(n), s, r.pos)
    PROVE  DeserializeVarUint(s, r).threw
<1> DEFINE v == ReadVarUint(s, r.pos)  w == WordOf(n)  u == [r EXCEPT !.pos = v.pos]
<1>1. w \in Word
  BY SmallNumbers DEF IsNumber
<1>2. s \in Seq(Int) /\ r.pos \in Nat
  BY BytesAreInts DEF IsData, At
<1>3. NumberOctets(n) = Joined(VarUintPieces(w))
  BY NumberShape, Zenon
<1>4. v.threw
  BY <1>1, <1>2, <1>3, CutVarIsRefused, Zenon
<1>5. DeserializeVarUint(s, r) = Thrown(u)
  BY <1>4, Zenon DEF DeserializeVarUint, Counted
<1> HIDE DEF v
<1>6. u = Read(v.pos, r.count, r.threw, r.value)
  BY Rebuilt DEF At
<1> HIDE DEF u
<1>7. IsRead(u)
  BY <1>6, Fields
<1> QED BY <1>5, <1>7, ThrownThrew

\* A primitive that is cut off throws.
LEMMA PrimitiveCut ==
    ASSUME NEW s, IsData(s), NEW octets \in Nat, NEW y, IsPrimitive(octets, y),
           NEW r, At(s, r), StandsCut(PrimitiveOctets(octets, y), s, r.pos)
    PROVE  DeserializePrimitive(s, r, octets).threw
<1>1. CASE octets = 0
  <2>1. IsNumber(y) /\ PrimitiveOctets(octets, y) = NumberOctets(y)
    BY <1>1, Zenon DEF IsPrimitive, SerializePrimitive, PrimitiveOctets, NumberOctets
  <2>2. StandsCut(NumberOctets(y), s, r.pos)
    BY <2>1, Zenon
  <2>3. DeserializeVarUint(s, r).threw
    BY <2>1, <2>2, NumberCut
  <2> QED BY <1>1, <2>3, Zenon DEF DeserializePrimitive
<1>2. CASE octets # 0
  <2>1. y \in Byte /\ PrimitiveOctets(octets, y) = Repeated(octets, y)
    BY <1>2, PrimitiveShape, Zenon DEF IsPrimitive
  <2>2. Len(Repeated(octets, y)) = octets
    BY <1>2, <2>1, RepeatedShape
  <2>3. r.pos + octets > Len(s)
    <3>1. Len(s) < r.pos + octets
      BY <2>1, <2>2, Zenon DEF StandsCut
    <3>2. Len(s) \in Nat /\ r.pos \in Nat
      BY LenProperties DEF IsData, At
    <3> QED BY <3>1, <3>2
  <2>4. DeserializePlain(s, r, octets) = Thrown(r)
    BY <2>3, Zenon DEF DeserializePlain
  <2>5. Thrown(r).threw
    BY ThrownThrew DEF At
  <2> QED BY <1>2, <2>4, <2>5, Zenon DEF DeserializePrimitive
<1> QED BY <1>1, <1>2

\* A field that is cut off throws.
LEMMA FieldCut ==
    ASSUME NEW s, IsData(s), NEW type \in Types, NEW y \in FieldValues(type),
           NEW pos \in Nat, NEW count \in Int, NEW x, NEW r, Got(r, pos, count, x),
           StandsCut(FieldOctets(type, y), s, pos)
    PROVE  DeserializeField(type, s, r).threw
<1> DEFINE n == Len(Primitives[type])  ss == FieldParts(type, y)
<1>1. n \in Nat \ {0} /\ \A i \in 1..n : Primitives[type][i] \in Nat
  BY Table
<1>2. PICK f, g : FieldReadBy(type, s, r, f, g)
  BY FieldHasRun
<1>3. FieldRuns(type, s, r, n, f, g) /\ DeserializeField(type, s, r) = f[n]
  BY <1>2, Zenon DEF FieldReadBy
<1>4. /\ ss \in Seq(Strings) /\ Len(ss) = n /\ FieldOctets(type, y) = FlattenSeq(ss)
  BY FieldShape
<1>5. PICK k, ends : LaidCut(ss, s, pos, k, ends)
  <2>1. ss \in Seq(Seq(Byte))
    BY <1>4, FlattenLonger
  <2>2. s \in Seq(Byte)
    BY DEF IsData
  <2>3. StandsCut(FlattenSeq(ss), s, pos)
    BY <1>4, Zenon
  <2> HIDE DEF ss
  <2> QED BY <2>1, <2>2, <2>3, FlattenCut
<1>6. /\ k \in 1..n /\ LaidTo(FieldParts(type, y), s, pos, k - 1, ends)
      /\ StandsCut(ss[k], s, ends[k - 1])
  BY <1>4, <1>5, Zenon DEF LaidCut
<1>7. IsPrimitive(Primitives[type][k], y[k]) /\ ss[k] = PrimitiveOctets(Primitives[type][k], y[k])
  BY <1>6 DEF FieldValues, FieldParts
<1>8. n = Len(Primitives[type])
  OBVIOUS
<1> HIDE DEF n, ss
<1> DEFINE j == k - 1  q == ends[j]  c == count + (q - pos)  o == Primitives[type][k]
<1>9. j \in 0..n /\ j \in Nat /\ o \in Nat
  BY <1>1, <1>6
<1>10. q \in Nat /\ c \in Int
  BY <1>6, <1>9 DEF LaidTo
<1>11. Got(f[j], q, c, [i \in 1..j |-> y[i]])
  <2>1. LaidTo(FieldParts(type, y), s, pos, j, ends)
    BY <1>6
  <2> HIDE DEF j
  <2> QED BY <1>3, <1>8, <1>9, <2>1, FieldSome
<1>12. q <= Len(s)
  BY <1>6 DEF StandsCut
<1> HIDE DEF q, c, o
<1>13. At(s, f[j]) /\ f[j].pos = q /\ ~f[j].threw
  <2> HIDE DEF j
  <2> QED BY <1>10, <1>11, <1>12, GotAt, GotFields
<1>14. g[k] = DeserializePrimitive(s, f[j], o)
  BY <1>3, <1>6 DEF FieldRuns, o
<1>15. g[k].threw
  <2>1. StandsCut(PrimitiveOctets(o, y[k]), s, f[j].pos) /\ IsPrimitive(o, y[k])
    BY <1>6, <1>7, <1>13 DEF o, q
  <2> HIDE DEF j
  <2> QED BY <1>9, <1>13, <1>14, <2>1, PrimitiveCut
<1>16. At(s, g[k])
  <2>1. Moves(s, f[j], DeserializePrimitive(s, f[j], o))
    <3> HIDE DEF j
    <3> QED BY <1>9, <1>13, PrimitiveMoves
  <2> QED BY <1>14, <2>1 DEF Moves
<1>17. Runs(f, n, r, g) /\ ~f[k - 1].threw /\ n \in Nat
  BY <1>1, <1>3, <1>13 DEF FieldRuns
<1> QED BY <1>3, <1>6, <1>15, <1>16, <1>17, RunCut

\* The octets of pieces joined piece by piece.
LEMMA FlattenEach ==
    ASSUME NEW ss \in Seq(Seq(Strings))
    PROVE  /\ FlattenSeq(ss) \in Seq(Strings)
           /\ FlattenSeq(FlattenSeq(ss)) = FlattenSeq([i \in 1..Len(ss) |-> FlattenSeq(ss[i])])
<1>1. Strings \subseteq Seq(Byte)
  BY DEF Strings
<1>2. Seq(Strings) \subseteq Seq(Seq(Byte))
  BY <1>1, SeqMonotonic
<1>3. ss \in Seq(Seq(Seq(Byte)))
  BY <1>2, SeqMonotonic
<1>4. FlattenSeq(FlattenSeq(ss)) = FlattenSeq([i \in 1..Len(ss) |-> FlattenSeq(ss[i])])
  BY <1>3, FlattenNested
<1> QED BY <1>4, FlattenType

\* Two sequences of pieces, one after the other.
LEMMA FlattenBoth ==
    ASSUME NEW a \in Seq(Strings), NEW b \in Seq(Strings)
    PROVE  /\ a \o b \in Seq(Strings) /\ Len(a \o b) = Len(a) + Len(b)
           /\ FlattenSeq(a \o b) = FlattenSeq(a) \o FlattenSeq(b)
           /\ IsData(FlattenSeq(a)) /\ IsData(FlattenSeq(b)) /\ IsData(FlattenSeq(a \o b))
           /\ Len(FlattenSeq(a)) \in Nat /\ Len(FlattenSeq(b)) \in Nat
           /\ Len(FlattenSeq(a \o b)) = Len(FlattenSeq(a)) + Len(FlattenSeq(b))
<1> DEFINE c == a \o b  x == FlattenSeq(a)  y == FlattenSeq(b)
<1>1. /\ a \in Seq(Seq(Byte)) /\ b \in Seq(Seq(Byte))
      /\ IsData(x) /\ IsData(y) /\ Len(x) \in Nat /\ Len(y) \in Nat
  BY FlattenLonger
<1>2. c \in Seq(Strings) /\ Len(c) = Len(a) + Len(b)
  BY ConcatProperties
<1>3. FlattenSeq(c) = x \o y
  BY <1>1, FlattenConcat
<1> HIDE DEF x, y, c
<1>4. IsData(x \o y) /\ Len(x \o y) = Len(x) + Len(y)
  BY <1>1, ConcatProperties DEF IsData
<1> QED BY <1>1, <1>2, <1>3, <1>4, Zenon DEF x, y, c

\* Two strings, one after the other.
LEMMA StandsBoth ==
    ASSUME NEW s, IsData(s), NEW pos \in Nat, NEW a, IsData(a), NEW b, IsData(b),
           StandsAt(a \o b, s, pos)
    PROVE  /\ StandsAt(a, s, pos) /\ StandsAt(b, s, pos + Len(a))
           /\ Len(a) \in Nat /\ Len(b) \in Nat /\ Len(a \o b) = Len(a) + Len(b)
<1>1. s \in Seq(Byte) /\ a \in Seq(Byte) /\ b \in Seq(Byte)
  BY DEF IsData
<1>2. StandsAt(a, s, pos) /\ StandsAt(b, s, pos + Len(a))
  BY <1>1, StandsInParts
<1>3. Len(a) \in Nat /\ Len(b) \in Nat /\ Len(a \o b) = Len(a) + Len(b)
  BY <1>1, ConcatProperties, LenProperties
<1> QED BY <1>2, <1>3

VectorOctets(type, xs) == FlattenSeq(SerializeVector(type, xs))

\* The octets of each of its elements.
VectorParts(type, xs) == [i \in 1..Len(xs) |-> FieldOctets(type, xs[i])]

\* The octets of a vector: its length and its elements.
LEMMA VectorShape ==
    ASSUME NEW type \in Types, NEW xs \in VectorValues(type)
    PROVE  /\ SerializeVector(type, xs) \in Seq(Strings)
           /\ IsData(VectorOctets(type, xs)) /\ Len(VectorOctets(type, xs)) \in Nat \ {0}
           /\ VectorOctets(type, xs) =
                NumberOctets(Len(xs)) \o FlattenSeq(VectorParts(type, xs))
           /\ VectorParts(type, xs) \in Seq(Strings) /\ Len(VectorParts(type, xs)) = Len(xs)
           /\ IsNumber(Len(xs)) /\ \A i \in 1..Len(xs) : xs[i] \in FieldValues(type)
           /\ xs = [i \in 1..Len(xs) |-> xs[i]]
<1> DEFINE n == Len(xs)
           ss == [i \in 1..n |-> SerializeField(type, xs[i])]
           each == VectorParts(type, xs)
           size == SerializeVarUint(n)
<1>1. xs \in Seq(FieldValues(type)) /\ n < Huge
  BY DEF VectorValues
<1>2. /\ n \in Nat /\ DOMAIN xs = 1..n /\ (\A i \in 1..n : xs[i] \in FieldValues(type))
      /\ xs = [i \in 1..n |-> xs[i]]
  <2> DEFINE V == FieldValues(type)
  <2>1. xs \in Seq(V)
    BY <1>1
  <2> HIDE DEF V
  <2>2. /\ n \in Nat /\ DOMAIN xs = 1..n /\ (\A i \in 1..n : xs[i] \in V)
        /\ xs = [i \in 1..n |-> xs[i]]
    BY <2>1, LenProperties, ElementOfSeq
  <2> QED BY <2>2 DEF V
<1>3. IsNumber(n)
  BY <1>1, <1>2 DEF IsNumber
<1>4. SerializeVector(type, xs) = size \o FlattenSeq(ss)
  BY <1>2, Zenon DEF SerializeVector
<1>5. each = [i \in 1..n |-> FlattenSeq(ss[i])]
  BY Zenon DEF VectorParts, FieldOctets
<1> HIDE DEF n, each
<1>6. \A i \in 1..n : SerializeField(type, xs[i]) \in Seq(Strings) /\ FieldOctets(type, xs[i]) \in Strings
  <2> SUFFICES ASSUME NEW i \in 1..n
               PROVE  SerializeField(type, xs[i]) \in Seq(Strings) /\ FieldOctets(type, xs[i]) \in Strings
    OBVIOUS
  <2> DEFINE t == FieldOctets(type, xs[i])
  <2>1. xs[i] \in FieldValues(type)
    BY <1>2
  <2>2. SerializeField(type, xs[i]) \in Seq(Strings) /\ IsData(t) /\ Len(t) \in Nat \ {0}
    BY <2>1, FieldShape
  <2> HIDE DEF t
  <2>3. t # <<>>
    BY <2>2
  <2> QED BY <2>2, <2>3 DEF IsData, Strings, t
<1>7. ss \in Seq(Seq(Strings)) /\ Len(ss) = n
  <2> DEFINE Q == Seq(Strings)  F(i) == SerializeField(type, xs[i])
  <2>1. \A i \in 1..n : F(i) \in Q
    BY <1>6
  <2>2. ss = [i \in 1..n |-> F(i)]
    OBVIOUS
  <2> HIDE DEF Q, F, ss
  <2>3. ss \in [1..n -> Q]
    BY <2>1, <2>2
  <2> QED BY <1>2, <2>3, SeqDef DEF Q
<1>8. each \in Seq(Strings) /\ Len(each) = n
  BY <1>2, <1>6, SeqDef DEF VectorParts, each, n
<1> HIDE DEF ss
<1>9. FlattenSeq(ss) \in Seq(Strings) /\ FlattenSeq(FlattenSeq(ss)) = FlattenSeq(each)
  BY <1>5, <1>7, FlattenEach
<1>10. /\ size \in Seq(Strings) /\ FlattenSeq(size) = NumberOctets(n)
       /\ Len(NumberOctets(n)) \in Nat \ {0}
  BY <1>3, NumberShape DEF NumberOctets
<1> HIDE DEF size
<1>11. /\ SerializeVector(type, xs) \in Seq(Strings)
       /\ VectorOctets(type, xs) = NumberOctets(n) \o FlattenSeq(each)
       /\ IsData(VectorOctets(type, xs))
       /\ Len(VectorOctets(type, xs)) \in Nat \ {0}
  <2>1. /\ SerializeVector(type, xs) \in Seq(Strings)
        /\ VectorOctets(type, xs) = FlattenSeq(size) \o FlattenSeq(FlattenSeq(ss))
        /\ IsData(VectorOctets(type, xs))
        /\ Len(FlattenSeq(size)) \in Nat /\ Len(FlattenSeq(FlattenSeq(ss))) \in Nat
        /\ Len(VectorOctets(type, xs)) = Len(FlattenSeq(size)) + Len(FlattenSeq(FlattenSeq(ss)))
    <3> DEFINE a == size  b == FlattenSeq(ss)  c == SerializeVector(type, xs)
    <3>1. a \in Seq(Strings) /\ b \in Seq(Strings) /\ c = a \o b
      BY <1>4, <1>9, <1>10
    <3>2. VectorOctets(type, xs) = FlattenSeq(c)
      BY DEF VectorOctets
    <3> HIDE DEF a, b, c
    <3>3. /\ a \o b \in Seq(Strings)
          /\ FlattenSeq(a \o b) = FlattenSeq(a) \o FlattenSeq(b)
          /\ IsData(FlattenSeq(a \o b))
          /\ Len(FlattenSeq(a)) \in Nat /\ Len(FlattenSeq(b)) \in Nat
          /\ Len(FlattenSeq(a \o b)) = Len(FlattenSeq(a)) + Len(FlattenSeq(b))
      BY <3>1, FlattenBoth
    <3>4. /\ c \in Seq(Strings)
          /\ VectorOctets(type, xs) = FlattenSeq(a) \o FlattenSeq(b)
          /\ IsData(VectorOctets(type, xs))
          /\ Len(FlattenSeq(a)) \in Nat /\ Len(FlattenSeq(b)) \in Nat
          /\ Len(VectorOctets(type, xs)) = Len(FlattenSeq(a)) + Len(FlattenSeq(b))
      BY <3>1, <3>2, <3>3, Zenon
    <3> QED BY <3>4, Zenon DEF a, b, c
  <2> DEFINE a == Len(FlattenSeq(size))  b == Len(FlattenSeq(FlattenSeq(ss)))
  <2>2. a # 0 /\ a \in Nat /\ b \in Nat /\ Len(VectorOctets(type, xs)) = a + b
    BY <1>10, <2>1
  <2> HIDE DEF a, b
  <2>3. Len(VectorOctets(type, xs)) \in Nat \ {0}
    BY <2>2
  <2> QED BY <1>9, <1>10, <2>1, <2>3, Zenon
<1> QED BY <1>2, <1>3, <1>8, <1>11, Zenon DEF n, each

\* The first k of the n reads of elements that follow the length.
VectorRuns(type, s, r, n, f, g) ==
    /\ Runs(f, n, DeserializeVarUint(s, r), g)
    /\ \A i \in 1..n : g[i] = DeserializeField(type, s, f[i - 1])

\* A vector takes at least an octet for each element.
LEMMA VectorSome ==
    ASSUME NEW s, IsData(s), NEW type \in Types, NEW y \in VectorValues(type),
           NEW pos \in Nat, NEW count \in Int, NEW r,
           Got(DeserializeVarUint(s, r), pos, count, Len(y)),
           NEW n \in Nat, NEW f, NEW g, VectorRuns(type, s, r, n, f, g),
           NEW k \in 0..Len(y), k <= n, NEW ends, LaidTo(VectorParts(type, y), s, pos, k, ends)
    PROVE  Got(f[k], ends[k], count + (ends[k] - pos), [i \in 1..k |-> y[i]])
<1> DEFINE m == Len(y)  ss == VectorParts(type, y)  size == DeserializeVarUint(s, r)
<1>1. /\ \A i \in 1..m : y[i] \in FieldValues(type)
      /\ IsNumber(m)
  BY VectorShape, Zenon
<1>2. m \in Nat /\ k \in Nat /\ k <= m
  BY <1>1 DEF IsNumber
<1>3. /\ ends[0] = pos /\ \A i \in 0..k : ends[i] \in Nat
      /\ \A i \in 1..k : StandsAt(ss[i], s, ends[i - 1]) /\ ends[i] = ends[i - 1] + Len(ss[i])
  BY Zenon DEF LaidTo
<1>4. \A i \in 1..m : ss[i] = FieldOctets(type, y[i])
  BY DEF VectorParts
<1>5. Runs(f, n, size, g) /\ \A i \in 1..n : g[i] = DeserializeField(type, s, f[i - 1])
  BY Zenon DEF VectorRuns
<1>6. Got(size, pos, count, m)
  OBVIOUS
<1> HIDE DEF m, ss, size
<1>7. ASSUME NEW i \in 1..k, NEW c \in Int, NEW z, Got(f[i - 1], ends[i - 1], c, z)
      PROVE  Got(g[i], ends[i], c + (ends[i] - ends[i - 1]), y[i])
  <2> DEFINE l == Len(ss[i])  o == ends[i - 1]
  <2>1. o \in Nat /\ ends[i] \in Nat /\ ends[i] = o + l /\ StandsAt(ss[i], s, o) /\ i \in 1..m /\ i \in 1..n
    BY <1>2, <1>3
  <2>2. l \in Nat /\ y[i] \in FieldValues(type)
    BY <1>1, <1>4, <2>1, FieldShape
  <2>3. Got(DeserializeField(type, s, f[i - 1]), o + l, c + l, y[i])
    <3>1. /\ l = Len(FieldOctets(type, y[i])) /\ StandsAt(FieldOctets(type, y[i]), s, o)
          /\ y[i] \in FieldValues(type) /\ o \in Nat /\ Got(f[i - 1], o, c, z)
      BY <1>4, <1>7, <2>1, <2>2
    <3> HIDE DEF l, o
    <3> QED BY <3>1, FieldGiven
  <2>4. g[i] = DeserializeField(type, s, f[i - 1])
    BY <1>5, <2>1
  <2>5. c + l = c + (ends[i] - ends[i - 1])
    BY <2>1, <2>2
  <2> HIDE DEF l
  <2> QED BY <2>1, <2>3, <2>4, <2>5
<1>8. Runs(f, k, size, g)
  BY <1>2, <1>5 DEF Runs
<1>9. Yields(k, f, g, ends, y)
  BY <1>7, Zenon DEF Yields
<1>10. ends[0] = pos /\ (\A i \in 0..k : ends[i] \in Nat) /\ k \in Nat
  BY <1>2, <1>3
<1> DEFINE z == m
<1>11. Got(size, pos, count, z)
  BY <1>6
<1> HIDE DEF z
<1> QED BY <1>8, <1>9, <1>10, <1>11, RunGives

\* A vector whose length has been read has at most an element for each octet.
LEMMA VectorHasRun ==
    ASSUME NEW type, NEW s, NEW r, NEW m \in Nat, NEW l, l = Len(s), l \in Nat,
           ~DeserializeVarUint(s, r).threw, DeserializeVarUint(s, r).value = m,
           NEW n, n = IF m <= l THEN m ELSE l + 1
    PROVE  n \in Nat /\ VectorRead(type, s, r, n)
<1> DEFINE size == DeserializeVarUint(s, r)
<1>1. n \in Nat
  OBVIOUS
<1>2. ~size.threw /\ n = (IF size.value <= Len(s) THEN size.value ELSE Len(s) + 1)
  OBVIOUS
<1>3. size = DeserializeVarUint(s, r)
  OBVIOUS
<1> HIDE DEF size
<1>4. VectorRead(type, s, r, n)
  BY <1>1, <1>2, <1>3, VectorRun, Zenon
<1> QED BY <1>1, <1>4

\* A vector is read where its octets stand.
LEMMA VectorGiven ==
    ASSUME NEW s, IsData(s), NEW type \in Types, NEW y \in VectorValues(type),
           NEW pos \in Nat, NEW count \in Int, NEW x, NEW r, Got(r, pos, count, x),
           NEW l, l = Len(VectorOctets(type, y)), StandsAt(VectorOctets(type, y), s, pos)
    PROVE  Got(DeserializeVector(type, s, r), pos + l, count + l, y)
<1> DEFINE n == Len(y)  ss == VectorParts(type, y)
           a == Len(NumberOctets(n))  b == Len(FlattenSeq(ss))  q == pos + a  c == count + a
<1>1. /\ IsNumber(n) /\ ss \in Seq(Strings) /\ Len(ss) = n
      /\ VectorOctets(type, y) = NumberOctets(n) \o FlattenSeq(ss)
      /\ y = [i \in 1..n |-> y[i]]
  BY VectorShape, Zenon
<1>2. IsData(NumberOctets(n)) /\ IsData(FlattenSeq(ss)) /\ ss \in Seq(Seq(Byte)) /\ n <= b
  BY <1>1, NumberShape, FlattenLonger
<1>3. /\ StandsAt(NumberOctets(n), s, pos) /\ StandsAt(FlattenSeq(ss), s, q)
      /\ a \in Nat /\ b \in Nat /\ l = a + b
  <2> DEFINE u == NumberOctets(n)  v == FlattenSeq(ss)  w == VectorOctets(type, y)
  <2>1. IsData(u) /\ IsData(v) /\ w = u \o v /\ StandsAt(w, s, pos) /\ l = Len(w)
    BY <1>1, <1>2
  <2> HIDE DEF u, v, w
  <2>2. StandsAt(u \o v, s, pos)
    BY <2>1
  <2>3. /\ StandsAt(u, s, pos) /\ StandsAt(v, s, pos + Len(u))
        /\ Len(u) \in Nat /\ Len(v) \in Nat /\ Len(w) = Len(u) + Len(v)
    BY <2>1, <2>2, StandsBoth
  <2> QED BY <2>1, <2>3, Zenon DEF u, v, w
<1>4. q \in Nat /\ c \in Int
  BY <1>3
<1>5. Got(DeserializeVarUint(s, r), q, c, n)
  BY <1>1, <1>3, NumberGiven
<1>6. n \in Nat /\ n <= Len(s) /\ Len(s) \in Nat
  <2>1. q + b <= Len(s)
    BY <1>3 DEF StandsAt
  <2>2. n \in Nat /\ Len(s) \in Nat
    BY <1>1, LenProperties DEF IsNumber, IsData
  <2> HIDE DEF n, b, q
  <2> QED BY <1>2, <1>3, <1>4, <2>1, <2>2
<1>7. PICK ends : Laid(ss, s, q, ends)
  <2>1. s \in Seq(Byte)
    BY DEF IsData
  <2> HIDE DEF ss, q
  <2> QED BY <1>2, <1>3, <1>4, <2>1, FlattenStands
<1>8. LaidTo(VectorParts(type, y), s, q, n, ends) /\ ends[n] = q + b
  BY <1>1, <1>7, Zenon DEF Laid
<1> HIDE DEF ss, a, b, q, c, n
<1>9. PICK f, g : VectorRuns(type, s, r, n, f, g) /\ DeserializeVector(type, s, r) = f[n]
  <2>1. ~DeserializeVarUint(s, r).threw /\ DeserializeVarUint(s, r).value = n
    BY <1>5, GotFields
  <2>2. n = IF n <= Len(s) THEN n ELSE Len(s) + 1
    BY <1>6
  <2>3. VectorRead(type, s, r, n)
    BY <1>6, <2>1, <2>2, VectorHasRun
  <2> QED BY <2>3, Zenon DEF VectorRead, VectorRuns
<1>10. Got(f[n], ends[n], c + (ends[n] - q), [i \in 1..n |-> y[i]])
  <2>1. n \in 0..Len(y) /\ n <= n /\ n = Len(y)
    BY <1>6 DEF n
  <2>2. Got(DeserializeVarUint(s, r), q, c, Len(y))
    BY <1>5, <2>1
  <2> QED BY <1>4, <1>6, <1>8, <1>9, <2>1, <2>2, VectorSome
<1>11. ends[n] = pos + l /\ c + (ends[n] - q) = count + l
  BY <1>3, <1>8 DEF q, c
<1> QED BY <1>1, <1>9, <1>10, <1>11, Zenon

\* Two strings of which the end is cut off.
LEMMA CutBoth ==
    ASSUME NEW s, IsData(s), NEW pos \in Nat, NEW a, IsData(a), NEW b, IsData(b),
           StandsCut(a \o b, s, pos)
    PROVE  \/ StandsCut(a, s, pos)
           \/ StandsAt(a, s, pos) /\ StandsCut(b, s, pos + Len(a))
  BY CutInParts DEF IsData

\* A vector that is cut off throws.
LEMMA VectorCut ==
    ASSUME NEW s, IsData(s), NEW type \in Types, NEW y \in VectorValues(type),
           NEW pos \in Nat, NEW count \in Int, NEW x, NEW r, Got(r, pos, count, x),
           StandsCut(VectorOctets(type, y), s, pos)
    PROVE  DeserializeVector(type, s, r).threw
<1> DEFINE m == Len(y)  ss == VectorParts(type, y)  size == DeserializeVarUint(s, r)
           a == Len(NumberOctets(m))  q == pos + a  c == count + a
<1>1. /\ IsNumber(m) /\ ss \in Seq(Strings) /\ Len(ss) = m
      /\ VectorOctets(type, y) = NumberOctets(m) \o FlattenSeq(ss)
      /\ \A i \in 1..m : y[i] \in FieldValues(type)
  BY VectorShape, Zenon
<1>2. /\ IsData(NumberOctets(m)) /\ IsData(FlattenSeq(ss)) /\ ss \in Seq(Seq(Byte))
      /\ a \in Nat /\ Len(s) \in Nat /\ m \in Nat
  BY <1>1, NumberShape, FlattenLonger, LenProperties DEF IsData, IsNumber
<1>3. pos <= Len(s)
  BY DEF StandsCut
<1>4. At(s, r) /\ r.pos = pos
  BY <1>3, GotAt
<1>5. \/ StandsCut(NumberOctets(m), s, pos)
      \/ StandsAt(NumberOctets(m), s, pos) /\ StandsCut(FlattenSeq(ss), s, q)
  <2> DEFINE u == NumberOctets(m)  v == FlattenSeq(ss)
  <2>1. IsData(u) /\ IsData(v) /\ StandsCut(u \o v, s, pos)
    BY <1>1, <1>2
  <2> HIDE DEF u, v
  <2>2. StandsCut(u, s, pos) \/ (StandsAt(u, s, pos) /\ StandsCut(v, s, pos + Len(u)))
    BY <2>1, CutBoth
  <2> QED BY <2>2, Zenon DEF u, v
<1>6. CASE StandsCut(NumberOctets(m), s, pos)
  <2>1. size.threw
    BY <1>1, <1>4, <1>6, NumberCut
  <2> QED BY <2>1, Zenon DEF DeserializeVector
<1>7. CASE StandsAt(NumberOctets(m), s, pos) /\ StandsCut(FlattenSeq(ss), s, q)
  <2>1. q \in Nat /\ c \in Int
    BY <1>2
  <2>2. Got(size, q, c, m)
    BY <1>1, <1>7, NumberGiven
  <2>3. ~size.threw /\ size.value = m
    BY <2>2, GotFields
  <2>4. PICK k, ends : LaidCut(ss, s, q, k, ends)
    <3>1. s \in Seq(Byte)
      BY DEF IsData
    <3> HIDE DEF ss, q
    <3> QED BY <1>2, <1>7, <2>1, <3>1, FlattenCut
  <2>5. /\ k \in 1..m /\ LaidTo(VectorParts(type, y), s, q, k - 1, ends)
        /\ StandsCut(ss[k], s, ends[k - 1])
    BY <1>1, <2>4, Zenon DEF LaidCut
  <2>6. y[k] \in FieldValues(type) /\ ss[k] = FieldOctets(type, y[k])
    BY <1>1, <2>5 DEF VectorParts
  <2>7. k - 1 <= Len(s) /\ ends[k - 1] \in Nat /\ ends[k - 1] <= Len(s)
    <3> DEFINE j == k - 1
    <3>1. /\ ends[0] \in Nat /\ \A i \in 0..j : ends[i] \in Nat
          /\ \A i \in 1..j : ends[i] = ends[i - 1] + Len(ss[i])
      BY <2>5, <2>1 DEF LaidTo
    <3>2. \A i \in 1..m : Len(ss[i]) \in Nat \ {0}
      <4> SUFFICES ASSUME NEW i \in 1..m PROVE Len(ss[i]) \in Nat \ {0}
        OBVIOUS
      <4>1. ss[i] = FieldOctets(type, y[i]) /\ y[i] \in FieldValues(type)
        BY <1>1 DEF VectorParts
      <4> QED BY <4>1, FieldShape
    <3>3. j \in Nat /\ j <= m
      BY <1>2, <2>5
    <3>4. ends[j] \in Nat /\ ends[j] <= Len(s)
      BY <2>5, <3>1, <3>3 DEF StandsCut
    <3> DEFINE T == {i \in Nat : i <= j => i <= ends[i]}
    <3> HIDE DEF j, ss, m
    <3>5. 0 \in T
      BY <3>1
    <3>6. ASSUME NEW i \in Nat, i \in T PROVE i + 1 \in T
      <4>1. SUFFICES ASSUME i + 1 <= j PROVE i + 1 <= ends[i + 1]
        OBVIOUS
      <4>2. i + 1 \in 1..j /\ i + 1 \in 1..m /\ (i + 1) - 1 = i /\ i \in 0..j /\ i + 1 \in 0..j
        BY <1>2, <3>3, <4>1
      <4>3. i <= ends[i]
        BY <3>3, <3>6, <4>2
      <4>4. ends[i + 1] = ends[i] + Len(ss[i + 1]) /\ Len(ss[i + 1]) \in Nat \ {0} /\ ends[i] \in Nat
        BY <3>1, <3>2, <4>2
      <4> QED BY <4>2, <4>4, <4>3
    <3>7. j \in T
      <4> HIDE DEF T
      <4> QED BY <3>3, <3>5, <3>6, Reaches
    <3> QED BY <1>2, <3>3, <3>4, <3>7 DEF j
  <2> DEFINE n == IF m <= Len(s) THEN m ELSE Len(s) + 1
  <2>8. PICK f, g : VectorRuns(type, s, r, n, f, g) /\ DeserializeVector(type, s, r) = f[n]
    <3>1. ~DeserializeVarUint(s, r).threw /\ DeserializeVarUint(s, r).value = m
      BY <2>3
    <3>2. n = IF m <= Len(s) THEN m ELSE Len(s) + 1
      OBVIOUS
    <3> HIDE DEF n, m, size
    <3>3. VectorRead(type, s, r, n)
      BY <1>2, <3>1, <3>2, VectorHasRun
    <3> QED BY <3>3, Zenon DEF VectorRead, VectorRuns
  <2>9. n \in Nat /\ k \in 1..n
    BY <1>2, <2>5, <2>7
  <2> DEFINE j == k - 1  o == ends[j]  d == c + (o - q)
  <2>10. j \in 0..Len(y) /\ j <= n /\ j \in Nat
    <3> HIDE DEF n
    <3> QED BY <1>2, <2>5, <2>9
  <2> HIDE DEF n
  <2>11. o \in Nat /\ o <= Len(s) /\ d \in Int
    BY <2>1, <2>7
  <2>12. Got(f[j], o, d, [i \in 1..j |-> y[i]])
    <3>1. LaidTo(VectorParts(type, y), s, q, j, ends)
      BY <2>5
    <3>2. Got(DeserializeVarUint(s, r), q, c, Len(y))
      BY <2>2
    <3> HIDE DEF j, q, c
    <3> QED BY <2>1, <2>8, <2>9, <2>10, <3>1, <3>2, VectorSome
  <2> HIDE DEF o, d
  <2>13. At(s, f[j]) /\ ~f[j].threw
    <3> HIDE DEF j
    <3> QED BY <2>11, <2>12, GotAt, GotFields
  <2>14. g[k] = DeserializeField(type, s, f[j])
    BY <2>8, <2>9 DEF VectorRuns
  <2>15. g[k].threw
    <3>1. StandsCut(FieldOctets(type, y[k]), s, o)
      BY <2>5, <2>6 DEF o
    <3> HIDE DEF j
    <3> QED BY <2>6, <2>11, <2>12, <2>14, <3>1, FieldCut
  <2>16. At(s, g[k])
    <3>1. type \in DOMAIN PrimitivesRead
      BY Table
    <3>2. Moves(s, f[j], DeserializeField(type, s, f[j]))
      <4> HIDE DEF j
      <4> QED BY <2>13, <3>1, FieldMoves
    <3> QED BY <2>14, <3>2 DEF Moves
  <2>17. Runs(f, n, size, g) /\ ~f[k - 1].threw
    BY <2>8, <2>13 DEF VectorRuns
  <2> HIDE DEF size
  <2> QED BY <2>8, <2>9, <2>15, <2>16, <2>17, RunCut
<1> QED BY <1>5, <1>6, <1>7

-----------------------------------------------------------------------------
(* The fields that an object of a kind always has.                         *)

ItemValues(item) ==
    IF item.many THEN VectorValues(item.type) ELSE FieldValues(item.type)

ItemOctets(item, x) ==
    IF item.many THEN VectorOctets(item.type, x) ELSE FieldOctets(item.type, x)

\* v has a value for each of them.
HasRequired(kind, v) ==
    \A i \in 1..Len(ReadFields[kind]) : v[ReadFields[kind][i].name] \in ItemValues(ReadFields[kind][i])

RequiredParts(kind, v) ==
    [i \in 1..Len(ReadFields[kind]) |-> ItemOctets(ReadFields[kind][i], v[ReadFields[kind][i].name])]

RequiredOctets(kind, v) == FlattenSeq(RequiredParts(kind, v))

\* What is made of them.
Required(kind, v) ==
    With([n \in {ReadFields[kind][i].name : i \in DOMAIN ReadFields[kind]} |-> v[n]], "kind", kind)

\* The types of a kind's fields.
LEMMA ItemTypes ==
    ASSUME NEW kind \in DOMAIN ReadFields
    PROVE  /\ Len(ReadFields[kind]) \in Nat /\ DOMAIN ReadFields[kind] = 1..Len(ReadFields[kind])
           /\ \A i \in 1..Len(ReadFields[kind]) : ReadFields[kind][i].type \in Types
<1> DEFINE OK(fields) == DOMAIN fields = 1..Len(fields)
<1>1. /\ OK(ReadHead1) /\ OK(ReadHand1) /\ OK(ReadMesh1) /\ OK(ReadHeadIPD1) /\ OK(ReadObject1)
      /\ OK(ReadHand2)
  BY DEF ReadHead1, ReadHand1, ReadMesh1, ReadHeadIPD1, ReadObject1, ReadHand2
<1> HIDE DEF OK
<1>2. OK(ReadFields[kind])
  BY <1>1 DEF ReadFields
<1>3. Types = DOMAIN PrimitivesRead
  BY TablesEqual DEF Types
<1> QED BY <1>2, <1>3, FieldTypes DEF OK

\* The octets of one of them.
LEMMA ItemShape ==
    ASSUME NEW kind \in DOMAIN ReadFields, NEW v, HasRequired(kind, v), NEW i \in 1..Len(ReadFields[kind])
    PROVE  ItemOctets(ReadFields[kind][i], v[ReadFields[kind][i].name]) \in Strings
<1> DEFINE item == ReadFields[kind][i]  x == v[item.name]  t == ItemOctets(item, x)
<1>1. item.type \in Types
  BY ItemTypes
<1>2. x \in ItemValues(item)
  BY DEF HasRequired
<1> HIDE DEF item, x
<1>3. IsData(t) /\ Len(t) \in Nat \ {0}
  <2>1. CASE item.many
    <3>1. x \in VectorValues(item.type) /\ t = VectorOctets(item.type, x)
      BY <1>2, <2>1 DEF ItemValues, ItemOctets
    <3> HIDE DEF t
    <3> QED BY <1>1, <3>1, VectorShape
  <2>2. CASE ~item.many
    <3>1. x \in FieldValues(item.type) /\ t = FieldOctets(item.type, x)
      BY <1>2, <2>2 DEF ItemValues, ItemOctets
    <3> HIDE DEF t
    <3> QED BY <1>1, <3>1, FieldShape
  <2> QED BY <2>1, <2>2
<1> HIDE DEF t
<1>4. t # <<>>
  BY <1>3
<1> QED BY <1>3, <1>4 DEF IsData, Strings, t, item, x

\* The octets of all of them.
LEMMA RequiredShape ==
    ASSUME NEW kind \in DOMAIN ReadFields, NEW v, HasRequired(kind, v)
    PROVE  /\ RequiredParts(kind, v) \in Seq(Strings)
           /\ Len(RequiredParts(kind, v)) = Len(ReadFields[kind])
           /\ RequiredParts(kind, v) \in Seq(Seq(Byte))
           /\ IsData(RequiredOctets(kind, v)) /\ Len(RequiredOctets(kind, v)) \in Nat
<1> DEFINE n == Len(ReadFields[kind])  ss == RequiredParts(kind, v)
<1>1. n \in Nat
  BY ItemTypes
<1>2. ss \in Seq(Strings) /\ Len(ss) = n
  <2> DEFINE T(i) == ItemOctets(ReadFields[kind][i], v[ReadFields[kind][i].name])
  <2>1. \A i \in 1..n : T(i) \in Strings
    BY ItemShape
  <2>2. ss = [i \in 1..n |-> T(i)]
    BY DEF RequiredParts
  <2> HIDE DEF T, n, ss
  <2> QED BY <1>1, <2>1, <2>2, SeqDef
<1> HIDE DEF ss
<1>3. ss \in Seq(Seq(Byte)) /\ IsData(FlattenSeq(ss)) /\ Len(FlattenSeq(ss)) \in Nat
  BY <1>2, FlattenLonger
<1> QED BY <1>2, <1>3 DEF ss, RequiredOctets

\* One of them is read where its octets stand.
LEMMA ItemGiven ==
    ASSUME NEW s, IsData(s), NEW kind \in DOMAIN ReadFields, NEW i \in 1..Len(ReadFields[kind]),
           NEW y \in ItemValues(ReadFields[kind][i]),
           NEW pos \in Nat, NEW count \in Int, NEW x, NEW r, Got(r, pos, count, x),
           NEW t, t = ItemOctets(ReadFields[kind][i], y),
           NEW l, l = Len(t), StandsAt(t, s, pos)
    PROVE  Got(FieldRead(kind, s, r, i), pos + l, count + l, y) /\ l \in Nat
<1> DEFINE item == ReadFields[kind][i]
<1>1. item.type \in Types
  BY ItemTypes
<1>2. FieldRead(kind, s, r, i) = IF item.many THEN DeserializeVector(item.type, s, r)
                                 ELSE DeserializeField(item.type, s, r)
  BY Zenon DEF FieldRead
<1>3. CASE item.many
  <2>1. y \in VectorValues(item.type) /\ t = VectorOctets(item.type, y)
    BY <1>3, Zenon DEF ItemValues, ItemOctets
  <2>2. FieldRead(kind, s, r, i) = DeserializeVector(item.type, s, r)
    BY <1>2, <1>3, Zenon
  <2> HIDE DEF item
  <2> QED BY <1>1, <2>1, <2>2, VectorGiven, VectorShape
<1>4. CASE ~item.many
  <2>1. y \in FieldValues(item.type) /\ t = FieldOctets(item.type, y)
    BY <1>4, Zenon DEF ItemValues, ItemOctets
  <2>2. FieldRead(kind, s, r, i) = DeserializeField(item.type, s, r)
    BY <1>2, <1>4, Zenon
  <2> HIDE DEF item
  <2> QED BY <1>1, <2>1, <2>2, FieldGiven, FieldShape
<1> QED BY <1>3, <1>4

\* One of them that is cut off throws.
LEMMA ItemCut ==
    ASSUME NEW s, IsData(s), NEW kind \in DOMAIN ReadFields, NEW i \in 1..Len(ReadFields[kind]),
           NEW y \in ItemValues(ReadFields[kind][i]),
           NEW pos \in Nat, NEW count \in Int, NEW x, NEW r, Got(r, pos, count, x), pos <= Len(s),
           NEW t, t = ItemOctets(ReadFields[kind][i], y), StandsCut(t, s, pos)
    PROVE  FieldRead(kind, s, r, i).threw /\ At(s, FieldRead(kind, s, r, i))
<1> DEFINE item == ReadFields[kind][i]
<1>1. item.type \in Types /\ item.type \in DOMAIN PrimitivesRead
  BY ItemTypes, FieldTypes
<1>2. FieldRead(kind, s, r, i) = IF item.many THEN DeserializeVector(item.type, s, r)
                                 ELSE DeserializeField(item.type, s, r)
  BY Zenon DEF FieldRead
<1>3. At(s, r)
  BY GotAt
<1>4. CASE item.many
  <2>1. y \in VectorValues(item.type) /\ t = VectorOctets(item.type, y)
    BY <1>4, Zenon DEF ItemValues, ItemOctets
  <2>2. FieldRead(kind, s, r, i) = DeserializeVector(item.type, s, r)
    BY <1>2, <1>4, Zenon
  <2> HIDE DEF item
  <2>3. Moves(s, r, DeserializeVector(item.type, s, r))
    BY <1>1, <1>3, VectorMoves
  <2> QED BY <1>1, <2>1, <2>2, <2>3, VectorCut DEF Moves
<1>5. CASE ~item.many
  <2>1. y \in FieldValues(item.type) /\ t = FieldOctets(item.type, y)
    BY <1>5, Zenon DEF ItemValues, ItemOctets
  <2>2. FieldRead(kind, s, r, i) = DeserializeField(item.type, s, r)
    BY <1>2, <1>5, Zenon
  <2> HIDE DEF item
  <2>3. Moves(s, r, DeserializeField(item.type, s, r))
    BY <1>1, <1>3, FieldMoves
  <2> QED BY <1>1, <2>1, <2>2, <2>3, FieldCut DEF Moves
<1> QED BY <1>4, <1>5

\* The first k of the n fields.
ItemRuns(kind, s, r, n, f, g) ==
    Runs(f, n, r, g) /\ \A i \in 1..n : g[i] = FieldRead(kind, s, f[i - 1], i)

\* The run that reads them up to the one that is cut off.
LEMMA ItemsSome ==
    ASSUME NEW s, IsData(s), NEW kind \in DOMAIN ReadFields, NEW v, HasRequired(kind, v),
           NEW pos \in Nat, NEW count \in Int, NEW x, NEW r, Got(r, pos, count, x),
           NEW n, n = Len(ReadFields[kind]),
           NEW f, NEW g, ItemRuns(kind, s, r, n, f, g),
           NEW k \in 0..n, NEW ends, LaidTo(RequiredParts(kind, v), s, pos, k, ends)
    PROVE  Got(f[k], ends[k], count + (ends[k] - pos), [i \in 1..k |-> v[ReadFields[kind][i].name]])
<1> DEFINE ss == RequiredParts(kind, v)
           y(i) == v[ReadFields[kind][i].name]
           ys == [i \in 1..n |-> y(i)]
<1>1. n \in Nat /\ k \in Nat /\ k <= n
  BY ItemTypes
<1>2. /\ ends[0] = pos /\ \A i \in 0..k : ends[i] \in Nat
      /\ \A i \in 1..k : StandsAt(ss[i], s, ends[i - 1]) /\ ends[i] = ends[i - 1] + Len(ss[i])
  BY Zenon DEF LaidTo
<1>3. \A i \in 1..n : y(i) \in ItemValues(ReadFields[kind][i]) /\ ss[i] = ItemOctets(ReadFields[kind][i], y(i))
  BY DEF HasRequired, RequiredParts
<1>4. Runs(f, n, r, g) /\ \A i \in 1..n : g[i] = FieldRead(kind, s, f[i - 1], i)
  BY Zenon DEF ItemRuns
<1>5. \A i \in 1..n : ys[i] = y(i)
  OBVIOUS
<1> HIDE DEF ss, y, ys
<1>6. ASSUME NEW i \in 1..k, NEW c \in Int, NEW z, Got(f[i - 1], ends[i - 1], c, z)
      PROVE  Got(g[i], ends[i], c + (ends[i] - ends[i - 1]), ys[i])
  <2> DEFINE t == ss[i]  l == Len(t)  q == ends[i - 1]
  <2>1. q \in Nat /\ ends[i] \in Nat /\ ends[i] = q + l /\ StandsAt(t, s, q) /\ i \in 1..n
    BY <1>1, <1>2
  <2>2. y(i) \in ItemValues(ReadFields[kind][i]) /\ t = ItemOctets(ReadFields[kind][i], y(i))
    BY <1>3, <2>1
  <2>3. Got(FieldRead(kind, s, f[i - 1], i), q + l, c + l, y(i)) /\ l \in Nat
    <3>1. i \in 1..Len(ReadFields[kind]) /\ l = Len(t) /\ Got(f[i - 1], q, c, z)
      BY <1>6, <2>1
    <3> HIDE DEF l, q, t
    <3> QED BY <2>1, <2>2, <3>1, ItemGiven
  <2>4. g[i] = FieldRead(kind, s, f[i - 1], i) /\ ys[i] = y(i)
    BY <1>4, <1>5, <2>1
  <2>5. c + l = c + (ends[i] - ends[i - 1])
    BY <2>1, <2>3
  <2> HIDE DEF l, t
  <2> QED BY <2>1, <2>3, <2>4, <2>5
<1>7. Runs(f, k, r, g)
  BY <1>1, <1>4 DEF Runs
<1>8. Yields(k, f, g, ends, ys)
  BY <1>6, Zenon DEF Yields
<1>9. Got(f[k], ends[k], count + (ends[k] - pos), [i \in 1..k |-> ys[i]])
  <2>1. ends[0] = pos /\ (\A i \in 0..k : ends[i] \in Nat) /\ k \in Nat
    BY <1>1, <1>2
  <2> QED BY <1>7, <1>8, <2>1, RunGives
<1>10. [i \in 1..k |-> ys[i]] = [i \in 1..k |-> y(i)]
  BY <1>1, <1>5
<1> QED BY <1>9, <1>10 DEF y

ItemsReadBy(kind, s, r, f, g) ==
    LET n == Len(ReadFields[kind])
    IN  ItemRuns(kind, s, r, n, f, g) /\ DeserializeFields(kind, s, r) = Assembled(kind, f[n])

\* Reading them is a run.
LEMMA ItemsHaveRun ==
    ASSUME NEW kind \in DOMAIN ReadFields, NEW s, NEW r
    PROVE  \E f, g : ItemsReadBy(kind, s, r, f, g)
<1>1. FieldsRead(kind, s, r, Len(ReadFields[kind]))
  BY FieldsRun, Zenon
<1> QED BY <1>1, Zenon DEF FieldsRead, ItemsReadBy, ItemRuns

\* Their values make the record again.
LEMMA AssembledGiven ==
    ASSUME NEW kind \in DOMAIN ReadFields, NEW v, NEW pos, NEW count, NEW all,
           Got(all, pos, count, [i \in 1..Len(ReadFields[kind]) |-> v[ReadFields[kind][i].name]])
    PROVE  Got(Assembled(kind, all), pos, count, Required(kind, v))
<1> DEFINE fields == ReadFields[kind]
           names  == {fields[i].name : i \in DOMAIN fields}
           Which(m) == CHOOSE i \in DOMAIN fields : fields[i].name = m
           g == [m \in names |-> all.value[Which(m)]]
           h == [m \in names |-> v[m]]
           x == With(g, "kind", kind)
<1>1. Assembled(kind, all) = IF all.threw THEN all ELSE [all EXCEPT !.value = x]
  BY Zenon DEF Assembled
<1>2. ~all.threw /\ all.value = [i \in 1..Len(fields) |-> v[fields[i].name]]
  BY GotFields
<1>3. DOMAIN fields = 1..Len(fields)
  BY ItemTypes
<1>4. \A m \in names : g[m] = v[m]
  <2> SUFFICES ASSUME NEW m \in names PROVE g[m] = v[m]
    OBVIOUS
  <2>1. Which(m) \in DOMAIN fields /\ fields[Which(m)].name = m
    OBVIOUS
  <2> HIDE DEF Which, fields
  <2>2. all.value[Which(m)] = v[m]
    BY <1>2, <1>3, <2>1
  <2> QED BY <2>2
<1>5. g = h
  <2> HIDE DEF names, Which
  <2> QED BY <1>4
<1>6. x = Required(kind, v)
  BY <1>5, Zenon DEF Required
<1> HIDE DEF x
<1>7. Assembled(kind, all) = [all EXCEPT !.value = x]
  BY <1>1, <1>2, Zenon
<1> QED BY <1>6, <1>7, GotRevalued

\* The fields of a kind are read where their octets stand.
LEMMA RequiredGiven ==
    ASSUME NEW s, IsData(s), NEW kind \in DOMAIN ReadFields, NEW v, HasRequired(kind, v),
           NEW pos \in Nat, NEW count \in Int, NEW x, NEW r, Got(r, pos, count, x),
           NEW l, l = Len(RequiredOctets(kind, v)), StandsAt(RequiredOctets(kind, v), s, pos)
    PROVE  Got(DeserializeFields(kind, s, r), pos + l, count + l, Required(kind, v))
<1> DEFINE n == Len(ReadFields[kind])  ss == RequiredParts(kind, v)
<1>1. n \in Nat
  BY ItemTypes
<1>2. PICK f, g : ItemsReadBy(kind, s, r, f, g)
  BY ItemsHaveRun
<1>3. ItemRuns(kind, s, r, n, f, g) /\ DeserializeFields(kind, s, r) = Assembled(kind, f[n])
  BY <1>2, Zenon DEF ItemsReadBy
<1>4. ss \in Seq(Seq(Byte)) /\ Len(ss) = n /\ l \in Nat
  BY RequiredShape
<1>5. PICK ends : Laid(ss, s, pos, ends)
  <2>1. s \in Seq(Byte)
    BY DEF IsData
  <2>2. StandsAt(FlattenSeq(ss), s, pos)
    BY Zenon DEF RequiredOctets
  <2> HIDE DEF ss
  <2> QED BY <1>4, <2>1, <2>2, FlattenStands
<1>6. LaidTo(RequiredParts(kind, v), s, pos, n, ends) /\ ends[n] = pos + l
  BY <1>4, <1>5, Zenon DEF Laid, RequiredOctets
<1>7. n \in 0..n /\ n = Len(ReadFields[kind])
  BY <1>1
<1> HIDE DEF n, ss
<1>8. Got(f[n], ends[n], count + (ends[n] - pos), [i \in 1..n |-> v[ReadFields[kind][i].name]])
  BY <1>3, <1>6, <1>7, ItemsSome
<1>9. count + (ends[n] - pos) = count + l
  BY <1>4, <1>6
<1>10. Got(f[n], pos + l, count + l, [i \in 1..Len(ReadFields[kind]) |-> v[ReadFields[kind][i].name]])
  BY <1>6, <1>7, <1>8, <1>9
<1> QED BY <1>3, <1>10, AssembledGiven

\* They throw when they are cut off.
LEMMA RequiredCut ==
    ASSUME NEW s, IsData(s), NEW kind \in DOMAIN ReadFields, NEW v, HasRequired(kind, v),
           NEW pos \in Nat, NEW count \in Int, NEW x, NEW r, Got(r, pos, count, x),
           StandsCut(RequiredOctets(kind, v), s, pos)
    PROVE  DeserializeFields(kind, s, r).threw
<1> DEFINE n == Len(ReadFields[kind])  ss == RequiredParts(kind, v)
<1>1. n \in Nat
  BY ItemTypes
<1>2. PICK f, g : ItemsReadBy(kind, s, r, f, g)
  BY ItemsHaveRun
<1>3. ItemRuns(kind, s, r, n, f, g) /\ DeserializeFields(kind, s, r) = Assembled(kind, f[n])
  BY <1>2, Zenon DEF ItemsReadBy
<1>4. ss \in Seq(Seq(Byte)) /\ Len(ss) = n
  BY RequiredShape
<1>5. PICK k, ends : LaidCut(ss, s, pos, k, ends)
  <2>1. s \in Seq(Byte)
    BY DEF IsData
  <2>2. StandsCut(FlattenSeq(ss), s, pos)
    BY Zenon DEF RequiredOctets
  <2> HIDE DEF ss
  <2> QED BY <1>4, <2>1, <2>2, FlattenCut
<1>6. /\ k \in 1..n /\ LaidTo(RequiredParts(kind, v), s, pos, k - 1, ends)
      /\ StandsCut(ss[k], s, ends[k - 1])
  BY <1>4, <1>5, Zenon DEF LaidCut
<1> DEFINE y == v[ReadFields[kind][k].name]
<1>7. y \in ItemValues(ReadFields[kind][k]) /\ ss[k] = ItemOctets(ReadFields[kind][k], y)
  BY <1>6 DEF HasRequired, RequiredParts
<1>8. n = Len(ReadFields[kind])
  OBVIOUS
<1> HIDE DEF n, ss, y
<1> DEFINE j == k - 1  q == ends[j]  c == count + (q - pos)
<1>9. j \in 0..n /\ j \in Nat
  BY <1>1, <1>6
<1>10. q \in Nat /\ c \in Int
  BY <1>6, <1>9 DEF LaidTo
<1>11. Got(f[j], q, c, [i \in 1..j |-> v[ReadFields[kind][i].name]])
  <2>1. LaidTo(RequiredParts(kind, v), s, pos, j, ends)
    BY <1>6
  <2> HIDE DEF j
  <2> QED BY <1>3, <1>8, <1>9, <2>1, ItemsSome
<1>12. q <= Len(s)
  BY <1>6 DEF StandsCut
<1>13. StandsCut(ss[k], s, q)
  BY <1>6
<1> HIDE DEF q, c
<1>14. ~f[j].threw
  <2> HIDE DEF j
  <2> QED BY <1>11, GotFields
<1>15. g[k] = FieldRead(kind, s, f[j], k)
  BY <1>3, <1>6 DEF ItemRuns
<1>16. g[k].threw /\ At(s, g[k])
  <2> DEFINE t == ss[k]  z == [i \in 1..j |-> v[ReadFields[kind][i].name]]
  <2>1. t = ItemOctets(ReadFields[kind][k], y) /\ StandsCut(t, s, q) /\ Got(f[j], q, c, z)
    BY <1>7, <1>11, <1>13
  <2>2. k \in 1..Len(ReadFields[kind])
    BY <1>6, <1>8
  <2> HIDE DEF j, t, z
  <2>3. FieldRead(kind, s, f[j], k).threw /\ At(s, FieldRead(kind, s, f[j], k))
    BY <1>7, <1>10, <1>12, <2>1, <2>2, ItemCut
  <2> QED BY <1>15, <2>3
<1>17. Runs(f, n, r, g) /\ ~f[k - 1].threw
  BY <1>3, <1>14 DEF ItemRuns
<1>18. f[n].threw
  BY <1>1, <1>6, <1>16, <1>17, RunCut
<1>19. Assembled(kind, f[n]) = f[n]
  BY <1>18, Zenon DEF Assembled
<1> QED BY <1>3, <1>18, <1>19

-----------------------------------------------------------------------------
(* The lists of fields: those counted, those written and those read.       *)

\* A field that is read, as it is written.
AsWritten(item) ==
    IF item.many THEN Vector(item.name, item.type) ELSE One(item.name, item.type)

\* The optional field that follows those of a Head1 or an Object1.
OptionalOf == [Head1 |-> Optional("ipd", "HeadIPD1"), Object1 |-> Optional("parent", "VarUint")]

\* A tuple is the concatenation of its two parts.
LEMMA Followed ==
    ASSUME NEW S, NEW x \in Seq(S), NEW y \in Seq(S), NEW z \in Seq(S),
           Len(z) = Len(x) + Len(y), \A i \in 1..Len(x) : z[i] = x[i],
           \A i \in 1..Len(y) : z[Len(x) + i] = y[i]
    PROVE  x \o y = z
<1>1. x \o y \in Seq(S) /\ Len(x \o y) = Len(x) + Len(y) /\ Len(x) \in Nat /\ Len(y) \in Nat
  BY ConcatProperties, LenProperties
<1>2. ASSUME NEW i \in 1..Len(z) PROVE (x \o y)[i] = z[i]
  <2>1. CASE i <= Len(x)
    BY <1>1, <2>1, ConcatProperties
  <2>2. CASE i > Len(x)
    <3>1. i - Len(x) \in 1..Len(y) /\ Len(x) + (i - Len(x)) = i
      BY <1>1, <2>2
    <3> QED BY <1>1, <2>2, <3>1, ConcatProperties
  <2> QED BY <1>1, <2>1, <2>2
<1> QED BY <1>1, <1>2, SeqEqual

\* The pass that sizes an object goes through the fields that are written.
LEMMA SizedAsWritten == SizedFields = WrittenFields
<1>1. Hand = <<One("id", "VarUint"), One("time", "Time1"), One("left", "Boolean"),
               One("location", "Loc2"), One("rotation", "Rot2")>>
  <2> DEFINE a == One("id", "VarUint")  b == One("time", "Time1")  c == One("left", "Boolean")
             d == One("location", "Loc2")  e == One("rotation", "Rot2")
  <2>1. Hand = <<a, b>> \o <<c, d, e>>
    BY DEF Hand, Stamp
  <2> HIDE DEF a, b, c, d, e
  <2>2. <<a, b>> \o <<c, d, e>> = <<a, b, c, d, e>>
    <3> DEFINE S == {a, b, c, d, e}
    <3> DEFINE x == <<a, b>>  y == <<c, d, e>>  z == <<a, b, c, d, e>>
    <3>1. x \in Seq(S) /\ y \in Seq(S) /\ z \in Seq(S)
      OBVIOUS
    <3>2. Len(z) = Len(x) + Len(y) /\ \A i \in 1..Len(x) : z[i] = x[i]
      OBVIOUS
    <3>3. \A i \in 1..Len(y) : z[Len(x) + i] = y[i]
      OBVIOUS
    <3> HIDE DEF S, x, y, z
    <3>4. x \o y = z
      BY <3>1, <3>2, <3>3, Followed
    <3> QED BY <3>4 DEF x, y, z
  <2> QED BY <2>1, <2>2 DEF a, b, c, d, e
<1>2. Object1Sized = Object1Written
  <2> DEFINE a == One("id", "VarUint")  b == One("time", "Time1")  c == One("position", "Loc1")
             d == One("rotation", "Rot1")  e == One("scale", "Loc1")  f == One("active", "Boolean")
             g == Optional("parent", "VarUint")
  <2>1. Object1Sized = <<a, b>> \o <<c, d, e, f, g>>
    BY DEF Object1Sized, Stamp
  <2>2. Object1Written = <<a, b, c, d, e, f, g>>
    BY DEF Object1Written
  <2> HIDE DEF a, b, c, d, e, f, g
  <2>3. <<a, b>> \o <<c, d, e, f, g>> = <<a, b, c, d, e, f, g>>
    <3> DEFINE S == {a, b, c, d, e, f, g}
    <3> DEFINE x == <<a, b>>  y == <<c, d, e, f, g>>  z == <<a, b, c, d, e, f, g>>
    <3>1. x \in Seq(S) /\ y \in Seq(S) /\ z \in Seq(S)
      OBVIOUS
    <3>2. Len(z) = Len(x) + Len(y) /\ \A i \in 1..Len(x) : z[i] = x[i]
      OBVIOUS
    <3>3. \A i \in 1..Len(y) : z[Len(x) + i] = y[i]
      OBVIOUS
    <3> HIDE DEF S, x, y, z
    <3>4. x \o y = z
      BY <3>1, <3>2, <3>3, Followed
    <3> QED BY <3>4 DEF x, y, z
  <2> QED BY <2>1, <2>2, <2>3
<1>3. Head1Sized = Head1Written
  <2> DEFINE a == One("id", "VarUint")  b == One("time", "Time1")  c == One("location", "Loc2")
             d == One("rotation", "Rot2")  e == Optional("ipd", "HeadIPD1")
  <2>1. Head1Sized = <<a, b>> \o <<c, d, e>>
    BY DEF Head1Sized, Stamp
  <2>2. Head1Written = <<a, b, c, d, e>>
    BY DEF Head1Written
  <2> HIDE DEF a, b, c, d, e
  <2>3. <<a, b>> \o <<c, d, e>> = <<a, b, c, d, e>>
    <3> DEFINE S == {a, b, c, d, e}
    <3> DEFINE x == <<a, b>>  y == <<c, d, e>>  z == <<a, b, c, d, e>>
    <3>1. x \in Seq(S) /\ y \in Seq(S) /\ z \in Seq(S)
      OBVIOUS
    <3>2. Len(z) = Len(x) + Len(y) /\ \A i \in 1..Len(x) : z[i] = x[i]
      OBVIOUS
    <3>3. \A i \in 1..Len(y) : z[Len(x) + i] = y[i]
      OBVIOUS
    <3> HIDE DEF S, x, y, z
    <3>4. x \o y = z
      BY <3>1, <3>2, <3>3, Followed
    <3> QED BY <3>4 DEF x, y, z
  <2> QED BY <2>1, <2>2, <2>3
<1>4. Hand1Sized = Hand1Written
  BY <1>1 DEF Hand1Sized, Hand1Written
<1>5. Hand2Sized = Hand2Written
  <2> DEFINE a == One("id", "VarUint")  b == One("time", "Time1")  c == One("left", "Boolean")
             d == One("location", "Loc2")  e == One("rotation", "Rot2")
             f == One("wrist", "Transform1")  g == One("thumb", "Thumb")  h == One("index", "Finger")
             i == One("middle", "Finger")  j == One("ring", "Finger")  k == One("pinky", "Finger")
  <2>1. Hand2Sized = <<a, b, c, d, e>> \o <<f, g, h, i, j, k>>
    BY <1>1 DEF Hand2Sized
  <2>2. Hand2Written = <<a, b, c, d, e, f, g, h, i, j, k>>
    BY DEF Hand2Written
  <2> HIDE DEF a, b, c, d, e, f, g, h, i, j, k
  <2>3. <<a, b, c, d, e>> \o <<f, g, h, i, j, k>> = <<a, b, c, d, e, f, g, h, i, j, k>>
    <3> DEFINE S == {a, b, c, d, e, f, g, h, i, j, k}
    <3> DEFINE x == <<a, b, c, d, e>>  y == <<f, g, h, i, j, k>>  z == <<a, b, c, d, e, f, g, h, i, j, k>>
    <3>1. x \in Seq(S) /\ y \in Seq(S) /\ z \in Seq(S)
      OBVIOUS
    <3>2. Len(z) = Len(x) + Len(y) /\ \A n \in 1..Len(x) : z[n] = x[n]
      OBVIOUS
    <3>3. \A n \in 1..Len(y) : z[Len(x) + n] = y[n]
      OBVIOUS
    <3> HIDE DEF S, x, y, z
    <3>4. x \o y = z
      BY <3>1, <3>2, <3>3, Followed
    <3> QED BY <3>4 DEF x, y, z
  <2> QED BY <2>1, <2>2, <2>3
<1>6. Mesh1Sized = Mesh1Written
  BY DEF Mesh1Sized, Mesh1Written
<1> QED BY <1>2, <1>3, <1>4, <1>5, <1>6, Zenon DEF SizedFields, WrittenFields

Known == {"Head1", "Hand1", "Object1", "Mesh1", "Hand2"}

\* The fields that are written are those that are read, and the optional one.
LEMMA WrittenAsRead ==
    ASSUME NEW kind \in Known
    PROVE  LET n == Len(ReadFields[kind])
               w == WrittenFields[kind]
           IN  /\ kind \in DOMAIN ReadFields /\ kind \in DOMAIN WrittenFields /\ n \in Nat
               /\ w = IF kind \in DOMAIN OptionalOf
                      THEN Append([i \in 1..n |-> AsWritten(ReadFields[kind][i])], OptionalOf[kind])
                      ELSE [i \in 1..n |-> AsWritten(ReadFields[kind][i])]
<1> DEFINE Same(w, r) == /\ Len(r) \in Nat /\ w = [i \in 1..Len(r) |-> AsWritten(r[i])]
           More(w, r, o) == /\ Len(r) \in Nat
                            /\ w = Append([i \in 1..Len(r) |-> AsWritten(r[i])], o)
<1>1. Same(Hand1Written, ReadHand1)
  BY DEF Hand1Written, ReadHand1, AsWritten, Item, One
<1>2. Same(Hand2Written, ReadHand2)
  BY DEF Hand2Written, ReadHand2, AsWritten, Item, One
<1>3. Same(Mesh1Written, ReadMesh1)
  BY DEF Mesh1Written, ReadMesh1, AsWritten, Item, Items, One, Vector
<1>4. More(Head1Written, ReadHead1, Optional("ipd", "HeadIPD1"))
  BY DEF Head1Written, ReadHead1, AsWritten, Item, One
<1>5. More(Object1Written, ReadObject1, Optional("parent", "VarUint"))
  BY DEF Object1Written, ReadObject1, AsWritten, Item, One
<1> HIDE DEF Same, More
<1>6. /\ "Head1" \in DOMAIN OptionalOf /\ "Object1" \in DOMAIN OptionalOf
      /\ "Hand1" \notin DOMAIN OptionalOf /\ "Hand2" \notin DOMAIN OptionalOf /\ "Mesh1" \notin DOMAIN OptionalOf
      /\ OptionalOf["Head1"] = Optional("ipd", "HeadIPD1") /\ OptionalOf["Object1"] = Optional("parent", "VarUint")
  BY DEF OptionalOf
<1>7. /\ WrittenFields["Head1"] = Head1Written /\ WrittenFields["Hand1"] = Hand1Written
      /\ WrittenFields["Object1"] = Object1Written /\ WrittenFields["Mesh1"] = Mesh1Written
      /\ WrittenFields["Hand2"] = Hand2Written
      /\ ReadFields["Head1"] = ReadHead1 /\ ReadFields["Hand1"] = ReadHand1
      /\ ReadFields["Object1"] = ReadObject1 /\ ReadFields["Mesh1"] = ReadMesh1
      /\ ReadFields["Hand2"] = ReadHand2
  BY DEF WrittenFields, ReadFields
<1>8. kind \in DOMAIN ReadFields /\ kind \in DOMAIN WrittenFields
  BY DEF WrittenFields, ReadFields, Known
<1>9. IF kind \in DOMAIN OptionalOf THEN More(WrittenFields[kind], ReadFields[kind], OptionalOf[kind])
      ELSE Same(WrittenFields[kind], ReadFields[kind])
  BY <1>1, <1>2, <1>3, <1>4, <1>5, <1>6, <1>7 DEF Known
<1> QED BY <1>8, <1>9, Zenon DEF Same, More

-----------------------------------------------------------------------------
(* A tag, the length of what follows, and what follows.                    *)

Framed(tag, body) == NumberOctets(tag) \o (NumberOctets(Len(body)) \o body)

\* Octets after octets.
LEMMA DataBoth ==
    ASSUME NEW a, IsData(a), NEW b, IsData(b)
    PROVE  /\ IsData(a \o b) /\ Len(a) \in Nat /\ Len(b) \in Nat /\ Len(a \o b) \in Nat
           /\ Len(a \o b) = Len(a) + Len(b)
  BY ConcatProperties, LenProperties DEF IsData

\* The length of the whole.
LEMMA FramedShape ==
    ASSUME NEW tag, IsNumber(tag), NEW body, IsData(body), NEW n, n = Len(body), IsNumber(n)
    PROVE  /\ IsData(Framed(tag, body)) /\ Len(Framed(tag, body)) \in Nat \ {0}
           /\ Len(Framed(tag, body)) = Len(NumberOctets(tag)) + (Len(NumberOctets(n)) + Len(body))
<1> DEFINE a == NumberOctets(tag)  b == NumberOctets(n)
<1>1. IsData(a) /\ IsData(b) /\ Len(a) \in Nat \ {0} /\ Len(b) \in Nat \ {0}
  BY NumberShape
<1>2. Framed(tag, body) = a \o (b \o body)
  BY DEF Framed
<1> HIDE DEF a, b
<1>3. IsData(b \o body) /\ Len(b \o body) = Len(b) + Len(body) /\ Len(body) \in Nat
  BY <1>1, DataBoth
<1>4. IsData(a \o (b \o body)) /\ Len(a \o (b \o body)) = Len(a) + Len(b \o body)
  BY <1>1, <1>3, DataBoth
<1> QED BY <1>1, <1>2, <1>3, <1>4 DEF a, b

\* The pieces of a tag, a length and what follows, and their octets.
LEMMA FramedPieces ==
    ASSUME NEW tag, IsNumber(tag), NEW n, IsNumber(n), NEW pieces \in Seq(Strings),
           n = Len(FlattenSeq(pieces))
    PROVE  LET p == SerializeVarUint(tag) \o SerializeVarUint(n) \o pieces
           IN  /\ p \in Seq(Strings) /\ Len(p) # 0
               /\ FlattenSeq(p) = Framed(tag, FlattenSeq(pieces))
<1> DEFINE a == SerializeVarUint(tag)  b == SerializeVarUint(n)  body == FlattenSeq(pieces)
<1>1. a \in Seq(Strings) /\ b \in Seq(Strings) /\ Len(a) # 0 /\ FlattenSeq(a) = NumberOctets(tag)
      /\ FlattenSeq(b) = NumberOctets(n)
  BY NumberShape DEF NumberOctets
<1>2. Framed(tag, body) = NumberOctets(tag) \o (NumberOctets(n) \o body)
  BY DEF Framed
<1> HIDE DEF a, b
<1>3. a \o b \in Seq(Strings) /\ Len(a \o b) = Len(a) + Len(b) /\ Len(a) \in Nat /\ Len(b) \in Nat
      /\ FlattenSeq(a \o b) = FlattenSeq(a) \o FlattenSeq(b)
      /\ IsData(FlattenSeq(a)) /\ IsData(FlattenSeq(b))
  BY <1>1, FlattenBoth, LenProperties
<1>4. /\ (a \o b) \o pieces \in Seq(Strings) /\ Len((a \o b) \o pieces) = Len(a \o b) + Len(pieces)
      /\ FlattenSeq((a \o b) \o pieces) = FlattenSeq(a \o b) \o body /\ IsData(body)
      /\ Len(pieces) \in Nat
  BY <1>3, FlattenBoth, LenProperties
<1>5. (FlattenSeq(a) \o FlattenSeq(b)) \o body = FlattenSeq(a) \o (FlattenSeq(b) \o body)
  BY <1>3, <1>4, ConcatAssociative DEF IsData
<1> QED BY <1>1, <1>2, <1>3, <1>4, <1>5 DEF a, b

IPDOctets(x) == Framed(TagOf["HeadIPD1"], FieldOctets("Float16", x))

\* Tags are numbers.
LEMMA TagNumbers == \A kind \in Kinds : IsNumber(TagOf[kind])
  BY DEF Kinds, TagOf, IsNumber, Huge

\* A Float16 takes two octets.
LEMMA Float16Octets ==
    ASSUME NEW x \in FieldValues("Float16")
    PROVE  Len(FieldOctets("Float16", x)) = 2
<1>1. "Float16" \in Types /\ Primitives["Float16"] = <<2>>
  BY DEF Types, Primitives
<1>2. IsPrimitive(2, x[1])
  BY <1>1 DEF FieldValues
<1> DEFINE e == Repeated(2, x[1])
<1>3. x[1] \in Byte
  BY <1>2 DEF IsPrimitive
<1>4. e \in Strings /\ Len(e) = 2 /\ PrimitiveOctets(2, x[1]) = e
  <2> DEFINE n == 2  y == x[1]
  <2>1. n \in Nat \ {0} /\ n \in Nat /\ n # 0 /\ IsPrimitive(n, y) /\ y \in Byte /\ n = 2
        /\ e = Repeated(n, y)
    BY <1>2, <1>3
  <2> HIDE DEF n, y, e
  <2>2. Repeated(n, y) \in Strings /\ Len(Repeated(n, y)) = n /\ PrimitiveOctets(n, y) = Repeated(n, y)
    BY <2>1, RepeatedShape, PrimitiveShape
  <2> QED BY <2>1, <2>2 DEF n, y
<1>5. FieldParts("Float16", x) = <<PrimitiveOctets(2, x[1])>>
  BY <1>1 DEF FieldParts
<1>6. FieldOctets("Float16", x) = FlattenSeq(FieldParts("Float16", x))
  BY <1>1, FieldShape
<1> HIDE DEF e
<1>7. e \in Seq(Byte)
  BY <1>4 DEF Strings
<1>8. FlattenSeq(<<e>>) = e
  BY <1>7, FlattenOne
<1> QED BY <1>4, <1>5, <1>6, <1>8

\* The octets of the HeadIPD1 of a Head1.
LEMMA IPDShape ==
    ASSUME NEW x \in FieldValues("Float16")
    PROVE  /\ SerializeHeadIPD1(x) \in Seq(Strings) /\ FlattenSeq(SerializeHeadIPD1(x)) = IPDOctets(x)
           /\ IsData(IPDOctets(x)) /\ Len(IPDOctets(x)) \in Nat \ {0}
           /\ IsNumber(TagOf["HeadIPD1"]) /\ IsNumber(Len(FieldOctets("Float16", x)))
           /\ IsData(FieldOctets("Float16", x))
<1> DEFINE tag == TagOf["HeadIPD1"]  pieces == SerializeField("Float16", x)
           body == FieldOctets("Float16", x)  n == Len(body)
<1>1. "Float16" \in Types
  BY DEF Types, Primitives
<1>2. IsNumber(tag)
  BY TagNumbers DEF Kinds
<1>3. pieces \in Seq(Strings) /\ IsData(body) /\ n \in Nat /\ body = FlattenSeq(pieces)
  BY <1>1, FieldShape DEF FieldOctets
<1>4. IsNumber(n)
  BY Float16Octets DEF IsNumber, Huge
<1>5. SerializeHeadIPD1(x) = SerializeVarUint(tag) \o SerializeVarUint(n) \o pieces
  BY DEF SerializeHeadIPD1, Length, Octets, FieldOctets
<1>6. IPDOctets(x) = Framed(tag, body)
  BY DEF IPDOctets
<1> HIDE DEF tag, pieces, body
<1>7. IsData(Framed(tag, body)) /\ Len(Framed(tag, body)) \in Nat \ {0}
  <2> HIDE DEF n
  <2> QED BY <1>2, <1>3, <1>4, FramedShape DEF n
<1>8. LET p == SerializeVarUint(tag) \o SerializeVarUint(n) \o pieces
      IN  p \in Seq(Strings) /\ FlattenSeq(p) = Framed(tag, FlattenSeq(pieces))
  <2>1. n = Len(FlattenSeq(pieces))
    BY <1>3
  <2> HIDE DEF n
  <2> QED BY <1>2, <1>3, <1>4, <2>1, FramedPieces
<1> QED BY <1>2, <1>3, <1>4, <1>5, <1>6, <1>7, <1>8 DEF tag, body

\* The octets of the optional part.
OptionalOctets(kind, v) ==
    CASE kind = "Head1"   -> IF v.ipd = <<>> THEN <<>> ELSE IPDOctets(v.ipd[1])
      [] kind = "Object1" -> IF v.parent = <<>> THEN <<>> ELSE FieldOctets("VarUint", v.parent[1])
      [] OTHER            -> <<>>

\* The octets of an optional part.
LEMMA OptionalShape ==
    ASSUME NEW kind \in DOMAIN OptionalOf, NEW v,
           v[OptionalOf[kind].name] \in ValuesOf(OptionalOf[kind])
    PROVE  /\ Serialize(OptionalOf[kind], v) \in Seq(Strings)
           /\ FlattenSeq(Serialize(OptionalOf[kind], v)) = OptionalOctets(kind, v)
           /\ IsData(OptionalOctets(kind, v))
<1> DEFINE f == OptionalOf[kind]  x == v[f.name]
<1>1. CASE kind = "Head1"
  <2>1. f.form = "optional" /\ f.type = "HeadIPD1" /\ x = v.ipd
    BY <1>1 DEF OptionalOf, Optional
  <2>2. x \in Seq(FieldValues("Float16")) /\ Len(x) <= 1
    BY <2>1 DEF ValuesOf, OptionalValues
  <2>3. Serialize(f, v) = IF x = <<>> THEN <<>> ELSE SerializeHeadIPD1(x[1])
    BY <2>1 DEF Serialize
  <2>4. OptionalOctets(kind, v) = IF x = <<>> THEN <<>> ELSE IPDOctets(x[1])
    BY <1>1, <2>1 DEF OptionalOctets
  <2> HIDE DEF f, x
  <2>5. CASE x = <<>>
    BY <2>3, <2>4, <2>5, FlattenNone, EmptySeq DEF f, IsData
  <2>6. CASE x # <<>>
    <3>1. x[1] \in FieldValues("Float16")
      BY <2>2, <2>6, EmptySeq, LenProperties, ElementOfSeq
    <3> QED BY <2>3, <2>4, <2>6, <3>1, IPDShape DEF f
  <2> QED BY <2>5, <2>6
<1>2. CASE kind = "Object1"
  <2>1. f.form = "optional" /\ f.type = "VarUint" /\ x = v.parent
    BY <1>2 DEF OptionalOf, Optional
  <2>2. x \in Seq(FieldValues("VarUint")) /\ Len(x) <= 1
    BY <2>1 DEF ValuesOf, OptionalValues
  <2>3. Serialize(f, v) = IF x = <<>> THEN <<>> ELSE SerializeField("VarUint", x[1])
    BY <2>1 DEF Serialize
  <2>4. OptionalOctets(kind, v) = IF x = <<>> THEN <<>> ELSE FieldOctets("VarUint", x[1])
    BY <1>2, <2>1 DEF OptionalOctets
  <2>5. "VarUint" \in Types
    BY DEF Types, Primitives
  <2> HIDE DEF f, x
  <2>6. CASE x = <<>>
    BY <2>3, <2>4, <2>6, FlattenNone, EmptySeq DEF f, IsData
  <2>7. CASE x # <<>>
    <3>1. x[1] \in FieldValues("VarUint")
      BY <2>2, <2>7, EmptySeq, LenProperties, ElementOfSeq
    <3> QED BY <2>3, <2>4, <2>5, <2>7, <3>1, FieldShape DEF f, FieldOctets
  <2> QED BY <2>6, <2>7
<1> QED BY <1>1, <1>2 DEF OptionalOf

\* The pieces written of one field.
LEMMA ItemPieces ==
    ASSUME NEW item, item.type \in Types,
           NEW v, NEW f, f = AsWritten(item), v[f.name] \in ValuesOf(f)
    PROVE  /\ v[item.name] \in ItemValues(item) /\ f.name = item.name
           /\ Serialize(f, v) \in Seq(Strings)
           /\ FlattenSeq(Serialize(f, v)) = ItemOctets(item, v[item.name])
<1> DEFINE x == v[item.name]
<1>1. f.name = item.name /\ f.type = item.type /\ f.form = IF item.many THEN "vector" ELSE "one"
  BY DEF AsWritten, One, Vector
<1>2. CASE item.many
  <2>1. x \in VectorValues(item.type)
    BY <1>1, <1>2 DEF ValuesOf
  <2>2. Serialize(f, v) = SerializeVector(item.type, x)
    BY <1>1, <1>2 DEF Serialize
  <2>3. ItemOctets(item, x) = FlattenSeq(SerializeVector(item.type, x)) /\ x \in ItemValues(item)
    BY <1>2, <2>1 DEF ItemOctets, VectorOctets, ItemValues
  <2> QED BY <1>1, <2>1, <2>2, <2>3, VectorShape
<1>3. CASE ~item.many
  <2>1. x \in FieldValues(item.type)
    BY <1>1, <1>3 DEF ValuesOf
  <2>2. Serialize(f, v) = SerializeField(item.type, x)
    BY <1>1, <1>3 DEF Serialize
  <2>3. ItemOctets(item, x) = FlattenSeq(SerializeField(item.type, x)) /\ x \in ItemValues(item)
    BY <1>3, <2>1 DEF ItemOctets, FieldOctets, ItemValues
  <2> QED BY <1>1, <2>1, <2>2, <2>3, FieldShape
<1> QED BY <1>2, <1>3

\* Each field that is written.
LEMMA WrittenEach ==
    ASSUME NEW kind \in Known, NEW r, r = ReadFields[kind], NEW w, w = WrittenFields[kind], NEW n, n = Len(r)
    PROVE  /\ kind \in DOMAIN ReadFields /\ n \in Nat /\ DOMAIN r = 1..n
           /\ \A i \in 1..n : i \in DOMAIN w /\ w[i] = AsWritten(r[i])
           /\ kind \notin DOMAIN OptionalOf => DOMAIN w = 1..n
           /\ kind \in DOMAIN OptionalOf => DOMAIN w = 1..(n + 1) /\ w[n + 1] = OptionalOf[kind]
<1> DEFINE o == OptionalOf[kind]  base == [i \in 1..n |-> AsWritten(r[i])]
<1>1. kind \in DOMAIN ReadFields /\ n \in Nat /\ DOMAIN r = 1..n
      /\ w = IF kind \in DOMAIN OptionalOf THEN Append(base, o) ELSE base
  BY WrittenAsRead, ItemTypes
<1> HIDE DEF o
<1>2. Len(base) = n /\ DOMAIN base = 1..n /\ \A i \in 1..n : base[i] = AsWritten(r[i])
  BY <1>1
<1>3. base \in Seq({AsWritten(r[i]) : i \in 1..n} \cup {o})
  <2> DEFINE S == {AsWritten(r[i]) : i \in 1..n} \cup {o}  A(i) == AsWritten(r[i])
  <2>1. \A i \in 1..n : A(i) \in S
    OBVIOUS
  <2>2. base = [i \in 1..n |-> A(i)]
    OBVIOUS
  <2> HIDE DEF S, A, base
  <2>3. base \in [1..n -> S]
    BY <2>1, <2>2
  <2> QED BY <1>1, <2>3, SeqDef DEF S
<1> HIDE DEF base
<1>4. CASE kind \in DOMAIN OptionalOf
  <2>1. Len(Append(base, o)) = n + 1 /\ DOMAIN Append(base, o) = 1..(n + 1) /\ Append(base, o)[n + 1] = o
        /\ \A i \in 1..n : Append(base, o)[i] = base[i]
    <3> DEFINE S == {AsWritten(r[i]) : i \in 1..n} \cup {o}
    <3>1. base \in Seq(S) /\ o \in S
      BY <1>3
    <3> HIDE DEF S
    <3>2. Append(base, o) \in Seq(S) /\ Len(Append(base, o)) = n + 1 /\ Append(base, o)[n + 1] = o
          /\ \A i \in 1..n : Append(base, o)[i] = base[i]
      BY <1>2, <3>1, AppendProperties
    <3> QED BY <3>2, LenProperties
  <2>2. w = Append(base, o)
    BY <1>1, <1>4
  <2>3. DOMAIN w = 1..(n + 1) /\ w[n + 1] = o /\ \A i \in 1..n : w[i] = base[i]
    BY <2>1, <2>2
  <2>4. \A i \in 1..n : i \in 1..(n + 1)
    BY <1>1
  <2> QED BY <1>2, <1>4, <1>1, <2>3, <2>4 DEF o
<1>5. CASE kind \notin DOMAIN OptionalOf
  BY <1>1, <1>2, <1>5
<1> QED BY <1>4, <1>5, <1>1 DEF o

\* What the fields of an object put on the wire.
LEMMA AllOctets ==
    ASSUME NEW kind \in Known, NEW v, HasFields(v, WrittenFields[kind])
    PROVE  /\ HasRequired(kind, v)
           /\ kind \in DOMAIN OptionalOf => v[OptionalOf[kind].name] \in ValuesOf(OptionalOf[kind])
           /\ SerializeAll(WrittenFields[kind], v) \in Seq(Strings)
           /\ FlattenSeq(SerializeAll(WrittenFields[kind], v)) =
                RequiredOctets(kind, v) \o OptionalOctets(kind, v)
           /\ IsData(RequiredOctets(kind, v)) /\ IsData(OptionalOctets(kind, v))
<1> DEFINE r == ReadFields[kind]  n == Len(r)  w == WrittenFields[kind]  o == OptionalOf[kind]
           base == [i \in 1..n |-> AsWritten(r[i])]
           T(i) == Serialize(w[i], v)
           tt == [i \in 1..n |-> T(i)]
           all == SerializeAll(w, v)
<1>1. kind \in DOMAIN ReadFields /\ n \in Nat
      /\ w = IF kind \in DOMAIN OptionalOf THEN Append(base, o) ELSE base
  BY WrittenAsRead
<1>2. \A i \in 1..n : r[i].type \in Types
  BY <1>1, ItemTypes
<1>3. \A i \in DOMAIN w : v[w[i].name] \in ValuesOf(w[i])
  BY DEF HasFields
<1> HIDE DEF r, w, o
<1>4. /\ \A i \in 1..n : i \in DOMAIN w /\ w[i] = AsWritten(r[i])
      /\ kind \notin DOMAIN OptionalOf => DOMAIN w = 1..n
      /\ kind \in DOMAIN OptionalOf => DOMAIN w = 1..(n + 1) /\ w[n + 1] = o
  <2>1. r = ReadFields[kind] /\ w = WrittenFields[kind] /\ n = Len(r) /\ o = OptionalOf[kind]
    BY DEF r, w, o
  <2> HIDE DEF n
  <2> QED BY <2>1, WrittenEach
<1>5. ASSUME NEW i \in 1..n
      PROVE  /\ v[r[i].name] \in ItemValues(r[i])
             /\ T(i) \in Seq(Strings) /\ FlattenSeq(T(i)) = ItemOctets(r[i], v[r[i].name])
  <2> DEFINE item == r[i]  f == w[i]
  <2>1. item.type \in Types /\ f = AsWritten(item) /\ v[f.name] \in ValuesOf(f)
    BY <1>2, <1>3, <1>4
  <2> HIDE DEF item, f
  <2>2. /\ v[item.name] \in ItemValues(item) /\ f.name = item.name
        /\ Serialize(f, v) \in Seq(Strings)
        /\ FlattenSeq(Serialize(f, v)) = ItemOctets(item, v[item.name])
    BY <2>1, ItemPieces
  <2> QED BY <2>2 DEF item, f
<1>6. HasRequired(kind, v)
  BY <1>5 DEF HasRequired, r
<1>7. kind \in DOMAIN OptionalOf => v[o.name] \in ValuesOf(o)
  BY <1>1, <1>3, <1>4
<1>8. /\ tt \in Seq(Seq(Strings)) /\ Len(tt) = n
      /\ FlattenSeq(tt) \in Seq(Strings) /\ FlattenSeq(FlattenSeq(tt)) = RequiredOctets(kind, v)
  <2>1. \A i \in 1..n : T(i) \in Seq(Strings)
    BY <1>5
  <2>2. tt = [i \in 1..n |-> T(i)]
    OBVIOUS
  <2>3. tt \in Seq(Seq(Strings)) /\ Len(tt) = n
    <3> HIDE DEF T, tt, n
    <3> QED BY <1>1, <2>1, <2>2, SeqDef
  <2>4. RequiredParts(kind, v) = [i \in 1..n |-> ItemOctets(r[i], v[r[i].name])]
    BY DEF RequiredParts, r
  <2>5. [i \in 1..Len(tt) |-> FlattenSeq(tt[i])] = RequiredParts(kind, v)
    <3> HIDE DEF T, n
    <3>1. \A i \in 1..n : FlattenSeq(tt[i]) = ItemOctets(r[i], v[r[i].name])
      BY <1>5
    <3> HIDE DEF tt
    <3> QED BY <2>3, <2>4, <3>1
  <2> HIDE DEF tt, n, T
  <2> QED BY <2>3, <2>5, FlattenEach DEF RequiredOctets
<1>9. IsData(RequiredOctets(kind, v))
  BY <1>1, <1>6, RequiredShape
<1>10. CASE kind \notin DOMAIN OptionalOf
  <2>1. all = FlattenSeq(tt)
    BY <1>4, <1>10, Zenon DEF SerializeAll
  <2>2. OptionalOctets(kind, v) = <<>>
    BY <1>10 DEF OptionalOf, OptionalOctets
  <2>3. IsData(<<>>)
    BY EmptySeq DEF IsData
  <2>4. RequiredOctets(kind, v) \o <<>> = RequiredOctets(kind, v)
    BY <1>9, ConcatEmptySeq DEF IsData
  <2> HIDE DEF tt, T, all, n
  <2> QED BY <1>6, <1>8, <1>9, <1>10, <2>1, <2>2, <2>3, <2>4 DEF all, w
<1>11. CASE kind \in DOMAIN OptionalOf
  <2> DEFINE q == Serialize(o, v)
  <2>1. q \in Seq(Strings) /\ FlattenSeq(q) = OptionalOctets(kind, v) /\ IsData(OptionalOctets(kind, v))
    BY <1>7, <1>11, OptionalShape DEF o
  <2>2. all = FlattenSeq([i \in 1..(n + 1) |-> T(i)]) /\ T(n + 1) = q
    <3>1. DOMAIN w = 1..(n + 1) /\ w[n + 1] = o
      BY <1>4, <1>11
    <3> QED BY <3>1, Zenon DEF SerializeAll
  <2> HIDE DEF q
  <2>3. [i \in 1..(n + 1) |-> T(i)] = tt \o <<q>>
    <3> DEFINE z == [i \in 1..(n + 1) |-> T(i)]  y == <<q>>  Q == Seq(Strings)
    <3>1. \A i \in 1..(n + 1) : T(i) \in Q
      <4> HIDE DEF T
      <4>1. \A i \in 1..n : T(i) \in Q
        BY <1>5
      <4>2. T(n + 1) \in Q
        BY <2>1, <2>2
      <4>3. \A i \in 1..(n + 1) : i \in 1..n \/ i = n + 1
        BY <1>1
      <4> HIDE DEF Q, n
      <4> QED BY <4>1, <4>2, <4>3, Zenon
    <3>2. n + 1 \in Nat
      BY <1>1
    <3>3. z \in Seq(Q) /\ Len(z) = n + 1
      <4> DEFINE m == n + 1
      <4>1. z = [i \in 1..m |-> T(i)]
        OBVIOUS
      <4> HIDE DEF T, n, Q, m, z
      <4>2. m \in Nat /\ \A i \in 1..m : T(i) \in Q
        BY <3>1, <3>2 DEF m
      <4> QED BY <4>1, <4>2, SeqDef DEF m
    <3>4. y \in Seq(Q) /\ Len(y) = 1 /\ y[1] = q
      <4> HIDE DEF Q
      <4>1. q \in Q
        BY <2>1 DEF Q
      <4> QED BY <4>1
    <3>5. z[n + 1] = q /\ \A i \in 1..n : z[i] = tt[i]
      <4> HIDE DEF T
      <4> QED BY <1>1, <2>2
    <3>6. tt \in Seq(Q) /\ Len(tt) = n
      BY <1>8
    <3> HIDE DEF z, y, Q, tt, T, n
    <3>7. Len(z) = Len(tt) + Len(y) /\ \A i \in 1..Len(tt) : z[i] = tt[i]
      BY <3>3, <3>4, <3>5, <3>6
    <3>8. \A i \in 1..Len(y) : z[Len(tt) + i] = y[i]
      BY <1>1, <3>4, <3>5, <3>6
    <3>9. tt \o y = z
      BY <3>3, <3>4, <3>6, <3>7, <3>8, Followed
    <3> QED BY <3>9 DEF z, y
  <2> HIDE DEF tt, T, n
  <2>4. FlattenSeq(tt \o <<q>>) = FlattenSeq(tt) \o q
    <3> DEFINE y == <<q>>
    <3>1. y \in Seq(Seq(Strings))
      BY <2>1
    <3>2. FlattenSeq(y) = q
      BY <2>1, FlattenOne
    <3> HIDE DEF y
    <3>3. FlattenSeq(tt \o y) = FlattenSeq(tt) \o FlattenSeq(y)
      BY <1>8, <3>1, FlattenConcat
    <3> QED BY <3>2, <3>3 DEF y
  <2>5. all = FlattenSeq(tt) \o q
    BY <2>2, <2>3, <2>4
  <2> DEFINE a == FlattenSeq(tt)
  <2>6. a \in Seq(Strings)
    BY <1>8
  <2> HIDE DEF a, all
  <2>7. a \o q \in Seq(Strings) /\ FlattenSeq(a \o q) = FlattenSeq(a) \o FlattenSeq(q)
    BY <2>1, <2>6, FlattenBoth
  <2> QED BY <1>6, <1>7, <1>8, <1>9, <2>1, <2>5, <2>7 DEF a, all, w, o
<1> QED BY <1>10, <1>11

-----------------------------------------------------------------------------
(* What an object puts on the wire: a newer peer has extra octets follow   *)
(* the fields that are known.                                              *)

BodyOctets(v) == RequiredOctets(v.kind, v) \o OptionalOctets(v.kind, v)

ObjectOctets(v, extra) ==
    IF v.kind = "Unknown" THEN Framed(v.tag, v.data)
    ELSE Framed(TagOf[v.kind], BodyOctets(v) \o extra)

\* The kinds that are known.
LEMMA KindsAreRead ==
    /\ Kinds = DOMAIN ReadFields /\ "Unknown" \notin Kinds /\ "Unknown" \notin Known /\ "HeadIPD1" \notin Known
    /\ Kinds = Known \cup {"HeadIPD1"} /\ DOMAIN OptionalOf \subseteq Known /\ DOMAIN WrittenFields = Known
  BY DEF Kinds, ReadFields, Known, OptionalOf, WrittenFields

\* Every kind has a field.
LEMMA SomeFields ==
    ASSUME NEW kind \in DOMAIN ReadFields
    PROVE  Len(ReadFields[kind]) # 0
<1> DEFINE OK(fields) == Len(fields) # 0
<1>1. OK(ReadHead1) /\ OK(ReadHand1) /\ OK(ReadMesh1) /\ OK(ReadHeadIPD1) /\ OK(ReadObject1)
      /\ OK(ReadHand2)
  BY DEF ReadHead1, ReadHand1, ReadMesh1, ReadHeadIPD1, ReadObject1, ReadHand2
<1> HIDE DEF OK
<1>2. OK(ReadFields[kind])
  BY <1>1 DEF ReadFields
<1> QED BY <1>2 DEF OK

\* The fields of a kind take an octet at least.
LEMMA RequiredSome ==
    ASSUME NEW kind \in DOMAIN ReadFields, NEW v, HasRequired(kind, v)
    PROVE  Len(RequiredOctets(kind, v)) \in Nat \ {0}
<1> DEFINE ss == RequiredParts(kind, v)
<1>1. ss \in Seq(Strings) /\ Len(ss) = Len(ReadFields[kind]) /\ Len(ss) # 0
  BY RequiredShape, SomeFields
<1> HIDE DEF ss
<1>2. Len(FlattenSeq(ss)) \in Nat /\ Len(ss) \in Nat /\ Len(ss) <= Len(FlattenSeq(ss))
  BY <1>1, FlattenLonger
<1> QED BY <1>1, <1>2 DEF ss, RequiredOctets

\* What a HeadIPD1 is made of.
LEMMA IPDBody ==
    ASSUME NEW v, HasFields(v, <<One("ipd", "Float16")>>)
    PROVE  /\ v.ipd \in FieldValues("Float16") /\ HasRequired("HeadIPD1", v)
           /\ RequiredOctets("HeadIPD1", v) = FieldOctets("Float16", v.ipd)
           /\ OptionalOctets("HeadIPD1", v) = <<>>
<1> DEFINE e == FieldOctets("Float16", v.ipd)  kind == "HeadIPD1"
<1>1. v.ipd \in FieldValues("Float16")
  BY DEF HasFields, ValuesOf, One
<1>2. ReadFields[kind] = <<Item("ipd", "Float16")>> /\ kind \in DOMAIN ReadFields
  BY DEF ReadFields, ReadHeadIPD1
<1>3. Len(ReadFields[kind]) = 1 /\ ReadFields[kind][1] = Item("ipd", "Float16")
  BY <1>2
<1>4. LET item == ReadFields[kind][1]
      IN  /\ item.name = "ipd" /\ v[item.name] = v.ipd
          /\ ItemValues(item) = FieldValues("Float16") /\ ItemOctets(item, v.ipd) = e
  BY <1>3 DEF Item, ItemValues, ItemOctets
<1>5. HasRequired(kind, v)
  <2> HIDE DEF kind
  <2> QED BY <1>1, <1>3, <1>4 DEF HasRequired
<1>6. RequiredParts(kind, v) = <<e>>
  <2> HIDE DEF e, kind
  <2>1. RequiredParts(kind, v) = [i \in 1..1 |-> e]
    BY <1>3, <1>4 DEF RequiredParts
  <2> QED BY <2>1
<1>7. e \in Seq(Byte)
  BY <1>1, IPDShape DEF IsData
<1> HIDE DEF e
<1>8. FlattenSeq(<<e>>) = e
  BY <1>7, FlattenOne
<1>9. OptionalOctets(kind, v) = <<>>
  BY DEF OptionalOctets
<1> QED BY <1>1, <1>5, <1>6, <1>8, <1>9 DEF e, RequiredOctets

\* What the definitions above say of an object of a known kind.
Described(v) ==
    /\ v.kind \in Kinds /\ v.kind \in DOMAIN ReadFields
    /\ HasRequired(v.kind, v)
    /\ v.kind \in DOMAIN OptionalOf => v[OptionalOf[v.kind].name] \in ValuesOf(OptionalOf[v.kind])
    /\ IsData(RequiredOctets(v.kind, v)) /\ IsData(OptionalOctets(v.kind, v))
    /\ IsData(BodyOctets(v)) /\ IsNumber(Len(BodyOctets(v))) /\ Len(BodyOctets(v)) # 0
    /\ Len(BodyOctets(v)) = Len(RequiredOctets(v.kind, v)) + Len(OptionalOctets(v.kind, v))

\* Every object of a known kind is so described.
LEMMA ObjectDescribed ==
    ASSUME NEW v, IsObject(v), v.kind # "Unknown"
    PROVE  Described(v)
<1> DEFINE kind == v.kind  a == RequiredOctets(kind, v)  b == OptionalOctets(kind, v)
<1>1. CASE kind = "HeadIPD1"
  <2>1. HasFields(v, <<One("ipd", "Float16")>>)
    BY <1>1, KindsAreRead DEF IsObject
  <2>2. HasRequired(kind, v) /\ v.ipd \in FieldValues("Float16")
        /\ a = FieldOctets("Float16", v.ipd) /\ b = <<>>
    BY <1>1, <2>1, IPDBody
  <2>3. IsData(a) /\ IsNumber(Len(a)) /\ Len(a) # 0
    <3>1. Len(a) = 2
      BY <2>2, Float16Octets
    <3>2. IsData(a) /\ IsNumber(Len(a))
      <4> HIDE DEF a
      <4> QED BY <2>2, IPDShape
    <3> QED BY <3>1, <3>2
  <2>4. IsData(b) /\ Len(b) = 0
    BY <2>2, EmptySeq DEF IsData
  <2>5. kind \in Kinds /\ kind \in DOMAIN ReadFields /\ kind \notin DOMAIN OptionalOf
    BY <1>1, KindsAreRead
  <2> HIDE DEF a, b, kind
  <2>6. IsData(a \o b) /\ Len(a \o b) = Len(a) + Len(b) /\ Len(a) \in Nat
    BY <2>3, <2>4, DataBoth
  <2>7. Len(a \o b) = Len(a)
    BY <2>4, <2>6
  <2> QED BY <2>2, <2>3, <2>4, <2>5, <2>6, <2>7 DEF Described, BodyOctets, a, b, kind
<1>2. CASE kind # "HeadIPD1"
  <2>1. kind \in Known /\ HasFields(v, WrittenFields[kind]) /\ kind \in Kinds /\ kind \in DOMAIN ReadFields
        /\ Length(SerializeAll(WrittenFields[kind], v)) < Huge
    BY <1>2, KindsAreRead DEF IsObject
  <2>2. /\ HasRequired(kind, v)
        /\ kind \in DOMAIN OptionalOf => v[OptionalOf[kind].name] \in ValuesOf(OptionalOf[kind])
        /\ FlattenSeq(SerializeAll(WrittenFields[kind], v)) = a \o b
        /\ IsData(a) /\ IsData(b)
    BY <2>1, AllOctets
  <2>3. Len(a) # 0
    BY <2>1, <2>2, RequiredSome
  <2> HIDE DEF a, b
  <2>4. IsData(a \o b) /\ Len(a \o b) = Len(a) + Len(b) /\ Len(a) \in Nat /\ Len(b) \in Nat
    BY <2>2, DataBoth
  <2>5. IsNumber(Len(a \o b)) /\ Len(a \o b) # 0
    BY <2>1, <2>2, <2>3, <2>4 DEF IsNumber, Length, Octets
  <2> QED BY <2>1, <2>2, <2>4, <2>5 DEF Described, BodyOctets, a, b
<1> QED BY <1>1, <1>2

\* An object of an unknown kind.
LEMMA UnknownDescribed ==
    ASSUME NEW v, IsObject(v), v.kind = "Unknown"
    PROVE  IsUnknown(v) /\ IsNumber(v.tag) /\ IsData(v.data) /\ IsNumber(Len(v.data))
<1>1. IsUnknown(v)
  BY KindsAreRead DEF IsObject
<1>2. v.data \in Seq(Byte) /\ Len(v.data) \in Nat /\ Len(v.data) < Huge
  BY <1>1, LenProperties DEF IsUnknown
<1> QED BY <1>1, <1>2 DEF IsUnknown, IsData, IsNumber

\* The pieces written are those counted, and their octets the object's.
LEMMA WrittenOctets ==
    ASSUME NEW v, IsObject(v)
    PROVE  /\ Sized(v) = Written(v) /\ Written(v) \in Seq(Strings)
           /\ FlattenSeq(Written(v)) = ObjectOctets(v, <<>>)
           /\ IsData(ObjectOctets(v, <<>>)) /\ Len(ObjectOctets(v, <<>>)) \in Nat \ {0}
<1> DEFINE t == ObjectOctets(v, <<>>)  kind == v.kind
<1>1. Sized(v) = Written(v)
  BY SizedAsWritten, Zenon DEF Sized, Written
<1>2. CASE kind = "Unknown"
  <2> DEFINE x == v.data  n == Len(x)  pieces == IF x = <<>> THEN <<>> ELSE <<x>>
  <2>1. IsNumber(v.tag) /\ IsData(x) /\ IsNumber(n)
    BY <1>2, UnknownDescribed
  <2>2. t = Framed(v.tag, x)
    BY <1>2 DEF ObjectOctets
  <2>3. Written(v) = SerializeVarUint(v.tag) \o (SerializeVarUint(n) \o pieces)
    BY <1>2 DEF Written, UnknownPieces, SerializeBlob
  <2>4. pieces \in Seq(Strings) /\ FlattenSeq(pieces) = x
    <3>1. CASE x = <<>>
      BY <3>1, FlattenNone, EmptySeq
    <3>2. CASE x # <<>>
      <4>1. x \in Seq(Byte) /\ x \in Strings
        BY <2>1, <3>2 DEF IsData, Strings
      <4> HIDE DEF x
      <4>2. FlattenSeq(<<x>>) = x /\ <<x>> \in Seq(Strings)
        BY <4>1, FlattenOne
      <4> QED BY <3>2, <4>2
    <3> QED BY <3>1, <3>2
  <2>5. IsData(t) /\ Len(t) \in Nat \ {0}
    BY <2>1, <2>2, FramedShape
  <2>6. LET p == SerializeVarUint(v.tag) \o SerializeVarUint(n) \o pieces
        IN  p \in Seq(Strings) /\ FlattenSeq(p) = Framed(v.tag, x)
    <3> DEFINE tag == v.tag
    <3>1. IsNumber(tag) /\ IsNumber(n) /\ n = Len(FlattenSeq(pieces))
      BY <2>1, <2>4
    <3> HIDE DEF x, n, pieces, tag
    <3>2. LET p == SerializeVarUint(tag) \o SerializeVarUint(n) \o pieces
          IN  p \in Seq(Strings) /\ FlattenSeq(p) = Framed(tag, FlattenSeq(pieces))
      BY <2>4, <3>1, FramedPieces
    <3> QED BY <2>4, <3>2 DEF tag
  <2>7. (SerializeVarUint(v.tag) \o SerializeVarUint(n)) \o pieces
          = SerializeVarUint(v.tag) \o (SerializeVarUint(n) \o pieces)
    <3> DEFINE a == SerializeVarUint(v.tag)  b == SerializeVarUint(n)
    <3>1. a \in Seq(Strings) /\ b \in Seq(Strings)
      BY <2>1, NumberShape
    <3> HIDE DEF a, b, pieces
    <3> QED BY <2>4, <3>1, ConcatAssociative
  <2> HIDE DEF t, x, n, pieces
  <2> QED BY <1>1, <2>2, <2>3, <2>5, <2>6, <2>7 DEF t
<1>3. CASE kind = "HeadIPD1"
  <2>1. HasFields(v, <<One("ipd", "Float16")>>) /\ kind # "Unknown"
    BY <1>3, KindsAreRead DEF IsObject
  <2>2. v.ipd \in FieldValues("Float16") /\ BodyOctets(v) = FieldOctets("Float16", v.ipd) \o <<>>
    BY <1>3, <2>1, IPDBody DEF BodyOctets
  <2> DEFINE x == FieldOctets("Float16", v.ipd)
  <2>3. (x \o <<>>) \o <<>> = x
    <3>1. x \in Seq(Byte)
      BY <2>2, IPDShape DEF IsData
    <3> HIDE DEF x
    <3> QED BY <3>1, ConcatEmptySeq
  <2>4. t = IPDOctets(v.ipd)
    BY <1>3, <2>1, <2>2, <2>3 DEF ObjectOctets, IPDOctets
  <2>5. Written(v) = SerializeHeadIPD1(v.ipd)
    BY <1>3 DEF Written
  <2> QED BY <1>1, <2>2, <2>4, <2>5, IPDShape
<1>4. CASE kind # "HeadIPD1" /\ kind # "Unknown"
  <2> DEFINE tag == TagOf[kind]  pieces == SerializeAll(WrittenFields[kind], v)  n == Len(FlattenSeq(pieces))
             x == BodyOctets(v)
  <2>1. kind \in Known /\ HasFields(v, WrittenFields[kind])
    BY <1>4, KindsAreRead DEF IsObject
  <2>2. pieces \in Seq(Strings) /\ FlattenSeq(pieces) = x
    BY <2>1, AllOctets DEF BodyOctets
  <2>3. IsNumber(n) /\ IsData(x) /\ IsNumber(tag)
    BY <1>4, <2>2, ObjectDescribed, TagNumbers DEF Described
  <2>4. Written(v) = SerializeVarUint(tag) \o SerializeVarUint(n) \o pieces
    BY <1>4, SizedAsWritten DEF Written, Header, Length, Octets
  <2>5. t = Framed(tag, x \o <<>>)
    BY <1>4 DEF ObjectOctets
  <2> HIDE DEF tag, pieces, x, t
  <2>6. x \o <<>> = x
    BY <2>3, ConcatEmptySeq DEF IsData
  <2>7. IsData(t) /\ Len(t) \in Nat \ {0}
    BY <2>2, <2>3, <2>5, <2>6, FramedShape
  <2>8. LET p == SerializeVarUint(tag) \o SerializeVarUint(n) \o pieces
        IN  p \in Seq(Strings) /\ FlattenSeq(p) = Framed(tag, FlattenSeq(pieces))
    <3>1. n = Len(FlattenSeq(pieces))
      OBVIOUS
    <3> HIDE DEF n
    <3> QED BY <2>2, <2>3, <3>1, FramedPieces
  <2> HIDE DEF n
  <2> QED BY <1>1, <2>2, <2>4, <2>5, <2>6, <2>7, <2>8 DEF t
<1> QED BY <1>2, <1>3, <1>4

-----------------------------------------------------------------------------
(* An object is read back as it was.                                       *)

FieldNames(kind) == {ReadFields[kind][i].name : i \in DOMAIN ReadFields[kind]}

\* The names of an object's fields.
LEMMA ObjectNames ==
    ASSUME NEW v, IsObject(v), v.kind # "Unknown"
    PROVE  /\ v.kind \notin DOMAIN OptionalOf =>
                v = [m \in {"kind"} \cup FieldNames(v.kind) |-> v[m]]
           /\ v.kind \in DOMAIN OptionalOf =>
                v = [m \in {"kind"} \cup FieldNames(v.kind) \cup {OptionalOf[v.kind].name} |-> v[m]]
<1> DEFINE kind == v.kind  r == ReadFields[kind]  w == WrittenFields[kind]  n == Len(r)
           base == [i \in 1..n |-> AsWritten(r[i])]
<1>1. CASE kind = "HeadIPD1"
  <2>1. v = [m \in {"kind"} \cup {<<One("ipd", "Float16")>>[i].name : i \in DOMAIN <<One("ipd", "Float16")>>} |-> v[m]]
    BY <1>1, KindsAreRead DEF IsObject, HasFields
  <2>2. {<<One("ipd", "Float16")>>[i].name : i \in DOMAIN <<One("ipd", "Float16")>>} = {"ipd"}
    BY DEF One
  <2>3. FieldNames(kind) = {"ipd"}
    BY <1>1 DEF FieldNames, ReadFields, ReadHeadIPD1, Item
  <2>4. kind \notin DOMAIN OptionalOf
    BY <1>1, KindsAreRead
  <2> QED BY <2>1, <2>2, <2>3, <2>4
<1>2. CASE kind # "HeadIPD1"
  <2>1. kind \in Known /\ v = [m \in {"kind"} \cup {w[i].name : i \in DOMAIN w} |-> v[m]]
    BY <1>2, KindsAreRead DEF IsObject, HasFields
  <2>2. kind \in DOMAIN ReadFields /\ n \in Nat
        /\ w = IF kind \in DOMAIN OptionalOf THEN Append(base, OptionalOf[kind]) ELSE base
    BY <2>1, WrittenAsRead
  <2>3. DOMAIN r = 1..n
    BY <2>2, ItemTypes
  <2> HIDE DEF w, r, kind
  <2>4. \A item : AsWritten(item).name = item.name
    BY DEF AsWritten, One, Vector
  <2>5. CASE kind \notin DOMAIN OptionalOf
    <3>1. {w[i].name : i \in DOMAIN w} = {r[i].name : i \in DOMAIN r}
      BY <2>2, <2>3, <2>4, <2>5
    <3> QED BY <2>1, <2>5, <3>1 DEF FieldNames, kind, r
  <2>6. CASE kind \in DOMAIN OptionalOf
    <3> DEFINE o == OptionalOf[kind]
    <3> HIDE DEF o
    <3>1. DOMAIN w = 1..(n + 1) /\ w[n + 1] = o /\ \A i \in 1..n : w[i] = AsWritten(r[i])
      <4>1. r = ReadFields[kind] /\ w = WrittenFields[kind] /\ n = Len(r) /\ o = OptionalOf[kind]
        BY DEF r, w, o
      <4> HIDE DEF n, base
      <4> QED BY <2>1, <2>6, <4>1, WrittenEach
    <3>2. \A i \in 1..(n + 1) : i \in 1..n \/ i = n + 1
      BY <2>2
    <3>3. 1..n \subseteq 1..(n + 1) /\ n + 1 \in 1..(n + 1)
      BY <2>2
    <3> HIDE DEF n
    <3>4. {w[i].name : i \in DOMAIN w} = {r[i].name : i \in DOMAIN r} \cup {o.name}
      BY <2>3, <2>4, <3>1, <3>2, <3>3
    <3> QED BY <2>1, <2>6, <3>4 DEF FieldNames, kind, r, o
  <2> QED BY <2>5, <2>6
<1> QED BY <1>1, <1>2

\* What is made of the fields that are always there is the object, but for an
\* optional one.
LEMMA RequiredIsObject ==
    ASSUME NEW v, IsObject(v), v.kind # "Unknown"
    PROVE  /\ v.kind \notin DOMAIN OptionalOf => Required(v.kind, v) = v
           /\ v.kind \in DOMAIN OptionalOf =>
                With(Required(v.kind, v), OptionalOf[v.kind].name, v[OptionalOf[v.kind].name]) = v
<1> DEFINE kind == v.kind  names == FieldNames(kind)  o == OptionalOf[kind].name
<1>1. Required(kind, v) = [m \in names \cup {"kind"} |-> IF m = "kind" THEN kind ELSE v[m]]
  <2> DEFINE g == [m \in names |-> v[m]]
  <2>1. Required(kind, v) = With(g, "kind", kind)
    BY DEF Required, FieldNames
  <2>2. With(g, "kind", kind) = [m \in names \cup {"kind"} |-> IF m = "kind" THEN kind ELSE g[m]]
    BY DEF With
  <2> QED BY <2>1, <2>2
<1>2. Required(kind, v) = [m \in {"kind"} \cup names |-> v[m]]
  <2> HIDE DEF names
  <2>1. \A m \in names \cup {"kind"} : (IF m = "kind" THEN kind ELSE v[m]) = v[m]
    OBVIOUS
  <2> QED BY <1>1, <2>1
<1>3. CASE kind \notin DOMAIN OptionalOf
  BY <1>2, <1>3, ObjectNames
<1>4. CASE kind \in DOMAIN OptionalOf
  <2>1. v = [m \in {"kind"} \cup names \cup {o} |-> v[m]]
    BY <1>4, ObjectNames
  <2> HIDE DEF names, o, kind
  <2> DEFINE g == [m \in {"kind"} \cup names |-> v[m]]
  <2>2. With(g, o, v[o]) = [m \in {"kind"} \cup names \cup {o} |-> IF m = o THEN v[o] ELSE g[m]]
    BY DEF With
  <2>3. With(g, o, v[o]) = [m \in {"kind"} \cup names \cup {o} |-> v[m]]
    BY <2>2
  <2> QED BY <1>2, <1>4, <2>1, <2>3 DEF kind, o
<1> QED BY <1>3, <1>4

\* A read that gives one thing and then is given another value.
LEMMA GotRecounted ==
    ASSUME NEW t, NEW pos, NEW count, NEW x, Got(t, pos, count, x), NEW c,
           NEW u, u = [t EXCEPT !.count = c]
    PROVE  Got(u, pos, c, x)
  BY DEF Got, Read

\* Such a read at another position.
LEMMA GotMoved ==
    ASSUME NEW t, NEW pos, NEW count, NEW x, Got(t, pos, count, x), NEW p, NEW c,
           NEW u, u = [t EXCEPT !.pos = p, !.count = c]
    PROVE  Got(u, p, c, x)
  BY DEF Got, Read

\* Such a read of another object.
LEMMA GotReplaced ==
    ASSUME NEW t, NEW pos, NEW count, NEW x, Got(t, pos, count, x), NEW y, NEW c,
           NEW u, u = [t EXCEPT !.count = c, !.value = y]
    PROVE  Got(u, pos, c, y)
  BY DEF Got, Read

\* What is left of an object that has been read is skipped.
LEMMA FinishGiven ==
    ASSUME NEW s, NEW kind, NEW q \in Nat, NEW b \in Nat, NEW n, IsNumber(n),
           NEW length, Got(length, q, b, n), NEW m \in 0..n, NEW v,
           NEW r, Got(r, q + m, b + m, v),
           kind \in {"Head1", "Object1"} => m = n, NEW l, l = Len(s), l \in Nat, q + n <= l
    PROVE  Got(Finish(kind, s, length, r), q + n, b + n, v)
<1>1. /\ length.pos = q /\ length.count = b /\ length.value = n
      /\ r.pos = q + m /\ r.count = b + m /\ ~r.threw /\ r.value = v
  BY GotFields
<1> DEFINE d == Discarded(kind, Signed(length.value), length.count, r.count)
           skipped == r.pos + d
           total == length.count + Signed(length.value)
<1>2. n \in Nat /\ Signed(length.value) = n /\ Unsigned(r.count - length.count) = m
  <2>1. n \in Nat /\ n < Huge /\ m \in Nat
    BY DEF IsNumber
  <2>2. Signed(n) = n
    BY <2>1 DEF Signed, Huge
  <2>3. r.count - length.count = m
    BY <1>1, <2>1
  <2>4. Unsigned(m) = m
    BY <2>1 DEF Unsigned
  <2> QED BY <1>1, <2>1, <2>2, <2>3, <2>4
<1>3. CASE m = n
  <2>1. Finish(kind, s, length, r) = r
    BY <1>1, <1>2, <1>3, Zenon DEF Finish
  <2> QED BY <1>3, <2>1
<1>4. CASE m # n
  <2>1. kind \notin {"Head1", "Object1"} /\ m < n
    BY <1>2, <1>4
  <2>2. d = n - m
    BY <1>1, <1>2, <2>1 DEF Discarded
  <2>3. skipped = q + n /\ total = b + n
    <3> HIDE DEF d
    <3> QED BY <1>1, <1>2, <2>1, <2>2
  <2>4. Finish(kind, s, length, r) = [r EXCEPT !.pos = skipped, !.count = total]
    <3>1. skipped \in 0..Len(s)
      BY <1>2, <2>3
    <3>2. ~r.threw /\ ~(m = length.value) /\ ~(m > length.value)
      BY <1>1, <1>2, <2>1
    <3>3. Unsigned(r.count - length.count) = m
      BY <1>2
    <3> HIDE DEF skipped, total
    <3> QED BY <3>1, <3>2, <3>3, Zenon DEF Finish, skipped, d, total
  <2> HIDE DEF skipped, total
  <2>5. Got(Finish(kind, s, length, r), skipped, total, v)
    <3> DEFINE u == [r EXCEPT !.pos = skipped, !.count = total]  pos == q + m  count == b + m
    <3> HIDE DEF pos, count
    <3>1. Got(r, pos, count, v)
      BY DEF pos, count
    <3>2. Got(u, skipped, total, v)
      BY <3>1, GotMoved
    <3> QED BY <2>4, <3>2
  <2> QED BY <2>3, <2>5
<1> QED BY <1>3, <1>4

\* What Decode makes of the octets of a HeadIPD1, where a Head1 has one.
Nested(v, p, nested) ==
    v.kind = "Head1" /\ v.ipd # <<>> =>
        LET o == Len(IPDOctets(v.ipd[1]))
        IN  \E x : Got(nested[p], p + o, o, x) /\ x.kind = "HeadIPD1" /\ x.ipd = v.ipd[1]

\* The optional part in its place.
LEMMA OptionalReplaced ==
    ASSUME NEW g, NEW x, NEW y, NEW name
    PROVE  [With(g, name, x) EXCEPT ![name] = y] = With(g, name, y)
  BY DEF With

\* The optional part is read where its octets stand.
LEMMA OptionalGiven ==
    ASSUME NEW s, IsData(s), NEW v, IsObject(v), v.kind \in DOMAIN OptionalOf,
           NEW x, x = v[OptionalOf[v.kind].name], x # <<>>,
           NEW q \in Nat, NEW b \in Nat,
           NEW known, Got(known, q, b, Blank(v.kind, Required(v.kind, v))),
           NEW o, o = Len(OptionalOctets(v.kind, v)),
           StandsAt(OptionalOctets(v.kind, v), s, q), NEW nested, Nested(v, q, nested)
    PROVE  Got(DecodeOptional(v.kind, s, known, nested), q + o, b + o, v)
<1> DEFINE R == Required(v.kind, v)  y == x[1]
<1>1. v.kind # "Unknown" /\ x \in ValuesOf(OptionalOf[v.kind])
      /\ With(R, OptionalOf[v.kind].name, x) = v
  <2>1. v.kind # "Unknown"
    BY KindsAreRead
  <2> QED BY <2>1, ObjectDescribed, RequiredIsObject DEF Described
<1>2. ~known.threw /\ known.pos = q /\ known.count = b /\ known.value = Blank(v.kind, R)
  BY GotFields
<1>3. CASE v.kind = "Object1"
  <2>1. OptionalOf[v.kind] = Optional("parent", "VarUint") /\ OptionalOf[v.kind].name = "parent"
        /\ x = v.parent
    BY <1>3 DEF OptionalOf, Optional
  <2>2. x \in Seq(FieldValues("VarUint")) /\ Len(x) <= 1
    BY <1>1, <2>1 DEF ValuesOf, OptionalValues, Optional
  <2>3. y \in FieldValues("VarUint") /\ x = <<y>>
    <3>1. Len(x) = 1
      <4> DEFINE S == FieldValues("VarUint")
      <4>1. x \in Seq(S)
        BY <2>2
      <4> HIDE DEF S
      <4>2. Len(x) \in Nat /\ Len(x) # 0
        BY <4>1, EmptySeq, LenProperties
      <4>3. Len(x) <= 1
        BY <2>2
      <4> DEFINE l == Len(x)
      <4>4. l \in Nat /\ l # 0 /\ l <= 1
        BY <4>2, <4>3
      <4> HIDE DEF l
      <4>5. l = 1
        BY <4>4
      <4> QED BY <4>5 DEF l
    <3> QED BY <2>2, <3>1, ElementOfSeq
  <2>4. OptionalOctets(v.kind, v) = FieldOctets("VarUint", y) /\ "VarUint" \in Types
    BY <1>3, <2>1 DEF OptionalOctets, Types, Primitives
  <2> DEFINE parent == DeserializeField("VarUint", s, known)
  <2> HIDE DEF R, y
  <2>5. Got(parent, q + o, b + o, y)
    <3> DEFINE type == "VarUint"  z == Blank(v.kind, R)
    <3>1. y \in FieldValues(type) /\ type \in Types /\ o = Len(FieldOctets(type, y))
          /\ StandsAt(FieldOctets(type, y), s, q) /\ Got(known, q, b, z)
          /\ parent = DeserializeField(type, s, known) /\ b \in Int
      BY <2>3, <2>4 DEF R
    <3> HIDE DEF type, z, parent
    <3> QED BY <3>1, FieldGiven
  <2>6. DecodeOptional(v.kind, s, known, nested) = WithParent(known, parent)
    BY <1>3 DEF DecodeOptional
  <2>7. Blank(v.kind, R) = With(R, "parent", <<>>)
    BY <1>3 DEF Blank
  <2> HIDE DEF parent
  <2>8. ~parent.threw /\ parent.value = y
    BY <2>5, GotFields
  <2>9. WithParent(known, parent) = [parent EXCEPT !.value = [known.value EXCEPT !.parent = <<y>>]]
    BY <2>8 DEF WithParent
  <2>10. [known.value EXCEPT !.parent = <<y>>] = v
    <3>1. [With(R, "parent", <<>>) EXCEPT !["parent"] = <<y>>] = With(R, "parent", <<y>>)
      BY OptionalReplaced
    <3> QED BY <1>1, <1>2, <2>1, <2>3, <2>7, <3>1 DEF R
  <2>11. Got([parent EXCEPT !.value = v], q + o, b + o, v)
    BY <2>5, GotRevalued
  <2> QED BY <2>6, <2>9, <2>10, <2>11
<1>4. CASE v.kind = "Head1"
  <2>1. OptionalOf[v.kind] = Optional("ipd", "HeadIPD1") /\ OptionalOf[v.kind].name = "ipd"
        /\ x = v.ipd
    BY <1>4 DEF OptionalOf, Optional
  <2>2. x \in Seq(FieldValues("Float16")) /\ Len(x) <= 1
    BY <1>1, <2>1 DEF ValuesOf, OptionalValues, Optional
  <2>3. y \in FieldValues("Float16") /\ x = <<y>>
    <3>1. Len(x) = 1
      <4> DEFINE S == FieldValues("Float16")
      <4>1. x \in Seq(S)
        BY <2>2
      <4> HIDE DEF S
      <4>2. Len(x) \in Nat /\ Len(x) # 0
        BY <4>1, EmptySeq, LenProperties
      <4>3. Len(x) <= 1
        BY <2>2
      <4> DEFINE l == Len(x)
      <4>4. l \in Nat /\ l # 0 /\ l <= 1
        BY <4>2, <4>3
      <4> HIDE DEF l
      <4>5. l = 1
        BY <4>4
      <4> QED BY <4>5 DEF l
    <3> QED BY <2>2, <3>1, ElementOfSeq
  <2>4. OptionalOctets(v.kind, v) = IPDOctets(y)
    BY <1>4, <2>1 DEF OptionalOctets
  <2>5. PICK z : Got(nested[q], q + o, o, z) /\ z.kind = "HeadIPD1" /\ z.ipd = y
    BY <1>4, <2>1, <2>4 DEF Nested
  <2>6. o \in Nat
    BY <2>3, <2>4, IPDShape
  <2> DEFINE ipd == nested[q]  c == o + b
  <2>7. DecodeOptional(v.kind, s, known, nested) = WithIPD(known, ipd)
    BY <1>2, <1>4 DEF DecodeOptional
  <2>8. Blank(v.kind, R) = With(R, "ipd", <<>>)
    BY <1>4 DEF Blank
  <2> HIDE DEF R, y, ipd
  <2>9. Got(ipd, q + o, o, z) /\ ~ipd.threw /\ ipd.value = z /\ ipd.count = o
    <3>1. Got(ipd, q + o, o, z)
      BY <2>5 DEF ipd
    <3> QED BY <3>1, GotFields
  <2>10. WithIPD(known, ipd) = [ipd EXCEPT !.count = c, !.value = [known.value EXCEPT !.ipd = <<y>>]]
    BY <1>2, <2>5, <2>9 DEF WithIPD
  <2>11. [known.value EXCEPT !.ipd = <<y>>] = v
    <3>1. [With(R, "ipd", <<>>) EXCEPT !["ipd"] = <<y>>] = With(R, "ipd", <<y>>)
      BY OptionalReplaced
    <3> QED BY <1>1, <1>2, <2>1, <2>3, <2>8, <3>1 DEF R
  <2>12. c = b + o
    BY <2>6
  <2>13. Got([ipd EXCEPT !.count = c, !.value = v], q + o, c, v)
    <3> HIDE DEF c
    <3> QED BY <2>9, GotReplaced
  <2> HIDE DEF c
  <2> QED BY <2>7, <2>10, <2>11, <2>12, <2>13
<1> QED BY <1>3, <1>4 DEF OptionalOf

\* All of the parts are.
LEMMA PartsGiven ==
    ASSUME NEW s, IsData(s), NEW v, IsObject(v), v.kind # "Unknown",
           NEW q \in Nat, NEW b \in Nat, NEW n \in Nat, NEW length, Got(length, q, b, n),
           NEW m, m = Len(BodyOctets(v)), m <= n, v.kind \in DOMAIN OptionalOf => m = n,
           StandsAt(BodyOctets(v), s, q),
           NEW nested, Nested(v, q + Len(RequiredOctets(v.kind, v)), nested)
    PROVE  Got(WithOptional(v.kind, s, length, DeserializeFields(v.kind, s, length), nested),
               q + m, b + m, v)
<1> DEFINE kind == v.kind  R == Required(kind, v)  a == RequiredOctets(kind, v)  e == OptionalOctets(kind, v)
           r == Len(a)  o == Len(e)
           required == DeserializeFields(kind, s, length)
           known == [required EXCEPT !.value = Blank(kind, R)]
<1>1. /\ kind \in DOMAIN ReadFields /\ HasRequired(kind, v) /\ IsData(a) /\ IsData(e)
      /\ m = r + o /\ r \in Nat /\ o \in Nat
      /\ kind \in DOMAIN OptionalOf => v[OptionalOf[kind].name] \in ValuesOf(OptionalOf[kind])
  <2>1. Described(v)
    BY ObjectDescribed
  <2>2. IsData(a) /\ IsData(e)
    BY <2>1 DEF Described
  <2>3. r \in Nat /\ o \in Nat
    <3> HIDE DEF a, e
    <3> QED BY <2>2, DataBoth
  <2> QED BY <2>1, <2>2, <2>3 DEF Described
<1>2. StandsAt(a, s, q) /\ StandsAt(e, s, q + r)
  <2>1. StandsAt(a \o e, s, q)
    BY DEF BodyOctets
  <2> HIDE DEF a, e
  <2> QED BY <1>1, <2>1, StandsBoth
<1>3. Got(required, q + r, b + r, R)
  <2>1. b \in Int /\ r = Len(a)
    OBVIOUS
  <2> HIDE DEF r, kind
  <2> QED BY <1>1, <1>2, <2>1, RequiredGiven
<1>4. Got(known, q + r, b + r, Blank(kind, R)) /\ ~required.threw /\ required.value = R
  <2> DEFINE z == Blank(kind, R)  pos == q + r  count == b + r
  <2> HIDE DEF required, R, z, pos, count
  <2>1. Got(required, pos, count, R)
    BY <1>3 DEF pos, count
  <2> QED BY <2>1, GotRevalued, GotFields DEF z, pos, count
<1>5. WithOptional(kind, s, length, required, nested) =
        IF known.count - length.count < length.value
        THEN DecodeOptional(kind, s, known, nested) ELSE known
  <2> HIDE DEF required, kind, R
  <2> QED BY <1>4 DEF WithOptional
<1>6. known.count - length.count = r /\ length.value = n
  <2>1. known.count = b + r /\ length.count = b /\ length.value = n
    <3> HIDE DEF known, r, R
    <3> QED BY <1>4, GotFields
  <2> HIDE DEF known, r
  <2> QED BY <1>1, <2>1
<1> HIDE DEF required, known, a, e, r, o
<1>7. CASE kind \notin DOMAIN OptionalOf
  <2>1. e = <<>> /\ DecodeOptional(kind, s, known, nested) = known /\ Blank(kind, R) = R
    BY <1>7 DEF OptionalOf, OptionalOctets, DecodeOptional, Blank, e
  <2>2. R = v
    BY <1>7, RequiredIsObject
  <2>3. o = 0 /\ m = r
    BY <1>1, <2>1 DEF o
  <2> HIDE DEF R, kind
  <2> QED BY <1>4, <1>5, <2>1, <2>2, <2>3 DEF required, kind
<1>8. CASE kind \in DOMAIN OptionalOf /\ v[OptionalOf[kind].name] = <<>>
  <2>1. e = <<>>
    BY <1>8 DEF OptionalOf, OptionalOctets, Optional, e
  <2>2. Blank(kind, R) = With(R, OptionalOf[kind].name, v[OptionalOf[kind].name])
    BY <1>8 DEF OptionalOf, Blank, Optional
  <2>3. Blank(kind, R) = v
    BY <1>8, <2>2, RequiredIsObject
  <2>4. o = 0 /\ m = r /\ m = n
    BY <1>1, <1>8, <2>1 DEF o
  <2>5. ~(known.count - length.count < length.value)
    BY <1>6, <2>4
  <2> HIDE DEF R, kind
  <2> QED BY <1>4, <1>5, <2>3, <2>4, <2>5 DEF required, kind
<1>9. CASE kind \in DOMAIN OptionalOf /\ v[OptionalOf[kind].name] # <<>>
  <2> DEFINE x == v[OptionalOf[kind].name]
  <2>1. x \in ValuesOf(OptionalOf[kind]) /\ x # <<>> /\ m = n
    BY <1>1, <1>9
  <2>2. o # 0
    <3>1. CASE kind = "Head1"
      <4>1. x = v.ipd /\ x[1] \in FieldValues("Float16") /\ e = IPDOctets(x[1])
        <5>1. x = v.ipd /\ x \in Seq(FieldValues("Float16"))
          BY <2>1, <3>1 DEF OptionalOf, Optional, ValuesOf, OptionalValues
        <5>2. e = IPDOctets(x[1])
          BY <1>9, <3>1, <5>1 DEF OptionalOctets, e
        <5> HIDE DEF x
        <5> QED BY <2>1, <5>1, <5>2, EmptySeq, LenProperties, ElementOfSeq
      <4> HIDE DEF x
      <4> QED BY <4>1, IPDShape DEF o
    <3>2. CASE kind = "Object1"
      <4>1. x = v.parent /\ x[1] \in FieldValues("VarUint") /\ e = FieldOctets("VarUint", x[1])
        <5>1. x = v.parent /\ x \in Seq(FieldValues("VarUint"))
          BY <2>1, <3>2 DEF OptionalOf, Optional, ValuesOf, OptionalValues
        <5>2. e = FieldOctets("VarUint", x[1])
          BY <1>9, <3>2, <5>1 DEF OptionalOctets, e
        <5> HIDE DEF x
        <5> QED BY <2>1, <5>1, <5>2, EmptySeq, LenProperties, ElementOfSeq
      <4>2. "VarUint" \in Types
        BY DEF Types, Primitives
      <4> HIDE DEF x
      <4> QED BY <4>1, <4>2, FieldShape DEF o
    <3> QED BY <1>9, <3>1, <3>2 DEF OptionalOf
  <2>3. known.count - length.count < length.value
    BY <1>1, <1>6, <2>1, <2>2
  <2> DEFINE pos == q + r  count == b + r
  <2>4. pos \in Nat /\ count \in Nat /\ Got(known, pos, count, Blank(v.kind, Required(v.kind, v)))
        /\ pos + o = q + m /\ count + o = b + m /\ o = Len(OptionalOctets(v.kind, v))
        /\ StandsAt(OptionalOctets(v.kind, v), s, pos) /\ Nested(v, pos, nested)
    BY <1>1, <1>2, <1>4 DEF o, e, r, a
  <2> HIDE DEF pos, count, R
  <2>5. Got(DecodeOptional(v.kind, s, known, nested), pos + o, count + o, v)
    BY <1>9, <2>4, OptionalGiven
  <2> QED BY <1>5, <2>3, <2>4, <2>5 DEF required
<1> QED BY <1>7, <1>8, <1>9

\* Decode tells the kind by its tag.
LEMMA TagsTold ==
    ASSUME NEW kind \in Kinds
    PROVE  TagOf[kind] # 0 /\ KindOf(TagOf[kind]) = kind /\ IsNumber(TagOf[kind])
  BY DEF Kinds, TagOf, KindOf, IsNumber, Huge

\* The tag and the length that an object starts with, as Decode reads them.
TagRead(s, p) == DeserializeVarUint(s, Read(p, 0, FALSE, 0))
LengthRead(s, p) == DeserializeVarUint(s, [TagRead(s, p) EXCEPT !.count = 0])

HeaderRead(s, p, tag, body, a, b, n) ==
    /\ Got(TagRead(s, p), p + a, a, tag) /\ a \in Nat \ {0} /\ b \in Nat \ {0}
    /\ Got(LengthRead(s, p), p + a + b, b, n)
    /\ StandsAt(NumberOctets(n), s, p + a) /\ StandsAt(body, s, p + a + b)
    /\ Len(Framed(tag, body)) = a + b + n /\ n \in Nat /\ p + a + b + n <= Len(s)

\* The tag and the length are read where their octets stand.
LEMMA HeaderGiven ==
    ASSUME NEW s, IsData(s), NEW p \in Nat, NEW tag, IsNumber(tag), NEW body, IsData(body),
           NEW n, n = Len(body), IsNumber(n), StandsAt(Framed(tag, body), s, p),
           NEW a, a = Len(NumberOctets(tag)), NEW b, b = Len(NumberOctets(n))
    PROVE  HeaderRead(s, p, tag, body, a, b, n)
<1> DEFINE x == NumberOctets(tag)  y == NumberOctets(n)
<1>1. IsData(x) /\ IsData(y) /\ a \in Nat \ {0} /\ b \in Nat \ {0} /\ a = Len(x) /\ b = Len(y) /\ n \in Nat
  BY NumberShape DEF IsNumber
<1>2. StandsAt(x \o (y \o body), s, p)
  BY DEF Framed
<1>3. Len(Framed(tag, body)) = a + b + n
  <2>1. Len(Framed(tag, body)) = a + (b + Len(body))
    BY FramedShape
  <2> QED BY <1>1, <2>1
<1> HIDE DEF x, y
<1>4. IsData(y \o body)
  BY <1>1, DataBoth
<1>5. StandsAt(x, s, p) /\ StandsAt(y \o body, s, p + a)
  <2> DEFINE z == y \o body
  <2>1. IsData(z) /\ StandsAt(x \o z, s, p)
    BY <1>2, <1>4
  <2> HIDE DEF z
  <2>2. StandsAt(x, s, p) /\ StandsAt(z, s, p + Len(x))
    BY <1>1, <2>1, StandsBoth
  <2> QED BY <1>1, <2>2 DEF z
<1> DEFINE q == p + a
<1>6. q \in Nat /\ q + b = p + a + b
  BY <1>1
<1>7. StandsAt(y, s, q) /\ StandsAt(body, s, q + b)
  <2>1. StandsAt(y \o body, s, q)
    BY <1>5
  <2> HIDE DEF q
  <2> QED BY <1>1, <1>6, <2>1, StandsBoth
<1> DEFINE t == TagRead(s, p)  no == FALSE  zero == 0  r == Read(p, zero, no, zero)
<1>8. Got(r, p, zero, zero) /\ zero \in Int
  BY DEF Got
<1>9. t = DeserializeVarUint(s, r)
  BY DEF TagRead
<1> HIDE DEF t, r, zero, no
<1>10. Got(t, p + a, zero + a, tag)
  BY <1>1, <1>5, <1>8, <1>9, NumberGiven DEF x
<1>11. zero + a = a
  BY <1>1 DEF zero
<1>12. Got(t, q, a, tag)
  BY <1>10, <1>11
<1> HIDE DEF q
<1> DEFINE u == [t EXCEPT !.count = zero]
<1>13. Got(u, q, zero, tag)
  BY <1>12, GotRecounted
<1>14. LengthRead(s, p) = DeserializeVarUint(s, u)
  BY DEF zero, t, LengthRead
<1> HIDE DEF u
<1>15. Got(DeserializeVarUint(s, u), q + b, zero + b, n)
  BY <1>1, <1>6, <1>7, <1>8, <1>13, NumberGiven DEF y
<1>16. zero + b = b
  BY <1>1 DEF zero
<1>17. p + a + b + n <= Len(s)
  BY <1>6, <1>7 DEF StandsAt
<1> QED BY <1>1, <1>3, <1>6, <1>7, <1>12, <1>14, <1>15, <1>16, <1>17 DEF q, y, t, HeaderRead

\* The octets a newer peer may add: none where an optional part may follow.
MayFollow(extra, v) ==
    /\ IsData(extra)
    /\ v.kind \in DOMAIN OptionalOf => extra = <<>>
    /\ v.kind # "Unknown" => IsNumber(Len(BodyOctets(v) \o extra))

\* Where a Head1's HeadIPD1 is.
NestedAt(v, p) ==
    p + Len(NumberOctets(TagOf[v.kind])) + Len(NumberOctets(Len(BodyOctets(v))))
      + Len(RequiredOctets(v.kind, v))

\* An object of a known kind is read where its octets stand.
LEMMA KnownGiven ==
    ASSUME NEW s, IsData(s), NEW v, IsObject(v), v.kind # "Unknown", NEW extra, MayFollow(extra, v),
           NEW p \in Nat, StandsAt(ObjectOctets(v, extra), s, p),
           NEW nested, Nested(v, NestedAt(v, p), nested)
    PROVE  Got(ObjectAt(s, p, nested), p + Len(ObjectOctets(v, extra)), Len(ObjectOctets(v, extra)), v)
<1> DEFINE kind == v.kind  tag == TagOf[kind]  known == BodyOctets(v)  body == known \o extra
           n == Len(body)  m == Len(known)
           a == Len(NumberOctets(tag))  b == Len(NumberOctets(n))
           t == TagRead(s, p)
           length == LengthRead(s, p)
           q == p + a + b
<1>1. kind \in Kinds /\ IsData(known) /\ m # 0
  BY ObjectDescribed DEF Described
<1>2. tag # 0 /\ KindOf(tag) = kind /\ IsNumber(tag)
  BY <1>1, TagsTold
<1>3. IsData(extra) /\ (kind \in DOMAIN OptionalOf => extra = <<>>) /\ IsNumber(n)
  BY DEF MayFollow
<1>4. ObjectOctets(v, extra) = Framed(tag, body)
  BY DEF ObjectOctets
<1>5. IsData(body) /\ n = m + Len(extra) /\ m \in Nat /\ Len(extra) \in Nat
  <2> HIDE DEF known
  <2> QED BY <1>1, <1>3, DataBoth
<1>6. kind \in DOMAIN OptionalOf => m = n /\ body = known
  <2>1. known \o <<>> = known
    BY <1>1, ConcatEmptySeq DEF IsData
  <2> QED BY <1>3, <2>1
<1>7. /\ Got(t, p + a, a, tag) /\ a \in Nat \ {0} /\ b \in Nat \ {0}
      /\ Got(length, p + a + b, b, n) /\ StandsAt(body, s, p + a + b)
      /\ Len(Framed(tag, body)) = a + b + n /\ n \in Nat /\ p + a + b + n <= Len(s)
  <2>1. StandsAt(Framed(tag, body), s, p) /\ n = Len(body)
    BY <1>4
  <2> HIDE DEF tag, body, n
  <2>2. a = Len(NumberOctets(tag)) /\ b = Len(NumberOctets(n))
    OBVIOUS
  <2>3. IsNumber(tag) /\ IsData(body) /\ IsNumber(n)
    BY <1>2, <1>3, <1>5
  <2> HIDE DEF a, b
  <2>4. /\ Got(TagRead(s, p), p + a, a, tag) /\ a \in Nat \ {0} /\ b \in Nat \ {0}
        /\ Got(LengthRead(s, p), p + a + b, b, n) /\ StandsAt(body, s, p + a + b)
        /\ Len(Framed(tag, body)) = a + b + n /\ n \in Nat /\ p + a + b + n <= Len(s)
    <3>1. HeaderRead(s, p, tag, body, a, b, n)
      BY <2>1, <2>2, <2>3, HeaderGiven
    <3> QED BY <3>1 DEF HeaderRead
  <2> QED BY <2>4
<1>8. StandsAt(known, s, q)
  <2>1. q \in Nat /\ StandsAt(known \o extra, s, q)
    BY <1>7
  <2> HIDE DEF q, known
  <2> QED BY <1>1, <1>3, <2>1, StandsBoth
<1>9. Nested(v, q + Len(RequiredOctets(kind, v)), nested)
  <2>1. CASE kind \in DOMAIN OptionalOf
    BY <1>6, <2>1 DEF NestedAt
  <2>2. CASE kind \notin DOMAIN OptionalOf
    BY <2>2, KindsAreRead DEF Nested, OptionalOf
  <2> QED BY <2>1, <2>2
<1> DEFINE required == DeserializeFields(kind, s, length)
           some == WithOptional(kind, s, length, required, nested)
           last == Finish(kind, s, length, some)
<1>10. q \in Nat /\ b \in Nat /\ n \in Nat /\ m <= n /\ n # 0 /\ Got(length, q, b, n) /\ q + n <= Len(s)
       /\ kind = v.kind /\ m = Len(BodyOctets(v))
  BY <1>1, <1>5, <1>7
<1>11. Got(some, q + m, b + m, v)
  <2> HIDE DEF q, b, n, m, length, kind
  <2> QED BY <1>6, <1>8, <1>9, <1>10, PartsGiven DEF kind
<1>12. Got(last, q + n, b + n, v)
  <2>1. kind \in {"Head1", "Object1"} => m = n
    BY <1>6 DEF OptionalOf
  <2>2. Len(s) \in Nat /\ m \in 0..n
    BY <1>5, <1>10, LenProperties DEF IsData
  <2> HIDE DEF q, b, n, m, length, some, kind
  <2> QED BY <1>3, <1>10, <1>11, <2>1, <2>2, FinishGiven
<1>13. ~t.threw /\ t.value = tag /\ t.count = a
  <2> HIDE DEF t, a, tag
  <2> QED BY <1>7, GotFields
<1>14. ~length.threw /\ length.value = n
  <2> HIDE DEF length, q, b, n
  <2> QED BY <1>10, GotFields
<1>15. DecodeBody(kind, s, length, nested) = last
  <2> HIDE DEF length, n, kind
  <2> QED BY <1>10, <1>14 DEF DecodeBody
<1> DEFINE whole == [last EXCEPT !.count = @ + t.count]  l == b + n + a
<1>16. ObjectAt(s, p, nested) = DecodeKnown(kind, s, t, nested)
  <2>1. kind # "Unknown"
    OBVIOUS
  <2> HIDE DEF t, tag, kind
  <2> QED BY <1>2, <1>13, <2>1 DEF ObjectAt, t, TagRead
<1>17. DecodeKnown(kind, s, t, nested) = whole
  <2> HIDE DEF last, kind
  <2> QED BY <1>15 DEF DecodeKnown, last, LengthRead, t
<1>18. Got(whole, q + n, l, v)
  <2>1. last.count = b + n
    <3> HIDE DEF last, q, b, n
    <3> QED BY <1>12, GotFields
  <2>2. whole = [last EXCEPT !.count = l]
    <3> HIDE DEF last, t, b, n, a
    <3> QED BY <1>13, <2>1
  <2> HIDE DEF whole, last, q, n, l
  <2> DEFINE pos == q + n  count == b + n
  <2>3. Got(last, pos, count, v)
    BY <1>12
  <2> HIDE DEF pos, count
  <2>4. Got(whole, pos, l, v)
    BY <2>2, <2>3, GotRecounted
  <2> QED BY <2>4 DEF pos
<1>19. q + n = p + Len(ObjectOctets(v, extra)) /\ l = Len(ObjectOctets(v, extra))
  <2> HIDE DEF a, b, n, tag, body
  <2> QED BY <1>4, <1>7
<1> HIDE DEF whole, q, n, l
<1> QED BY <1>16, <1>17, <1>18, <1>19

\* The octets of an unknown object are.
LEMMA BlobGiven ==
    ASSUME NEW s, IsData(s), NEW data, IsData(data), NEW n, n = Len(data), IsNumber(n),
           NEW pos \in Nat, NEW count \in Int, NEW x, NEW r, Got(r, pos, count, x),
           NEW b, b = Len(NumberOctets(n)),
           StandsAt(NumberOctets(n), s, pos), StandsAt(data, s, pos + b)
    PROVE  Got(DeserializeBlob(s, r), pos + b + n, count + b + n, data)
<1> DEFINE size == DeserializeVarUint(s, r)
<1>1. Got(size, pos + b, count + b, n)
  BY NumberGiven
<1>2. n \in Nat /\ b \in Nat
  BY NumberShape DEF IsNumber
<1>3. ~(pos + b + n > Len(s))
  BY <1>2, LenProperties DEF StandsAt, IsData
<1>4. Take(s, pos + b, n) = data
  BY TakeStanding DEF IsData
<1> DEFINE q == pos + b  c == count + b  no == FALSE
<1>5. q + n = pos + b + n /\ c + n = count + b + n /\ ~(q + n > Len(s)) /\ Take(s, q, n) = data
  BY <1>2, <1>3, <1>4
<1>6. Got(size, q, c, n)
  BY <1>1
<1> HIDE DEF size, q, c, no
<1>7. ~size.threw /\ size.pos = q /\ size.count = c /\ size.value = n
  BY <1>6, GotFields
<1>8. DeserializeBlob(s, r) = IF size.threw THEN size
                              ELSE IF size.pos + size.value > Len(s) THEN Thrown(size)
                              ELSE Read(size.pos + size.value, size.count + size.value, no,
                                        Take(s, size.pos, size.value))
  BY Zenon DEF DeserializeBlob, size, no
<1>9. DeserializeBlob(s, r) = Read(q + n, c + n, no, data)
  BY <1>5, <1>7, <1>8
<1> QED BY <1>5, <1>9 DEF Got, no

\* So is the object.
LEMMA UnknownGiven ==
    ASSUME NEW s, IsData(s), NEW v, IsObject(v), v.kind = "Unknown",
           NEW extra, NEW p \in Nat, StandsAt(ObjectOctets(v, extra), s, p), NEW nested
    PROVE  Got(ObjectAt(s, p, nested), p + Len(ObjectOctets(v, extra)), Len(ObjectOctets(v, extra)), v)
<1> DEFINE tag == v.tag  data == v.data  n == Len(data)
           a == Len(NumberOctets(tag))  b == Len(NumberOctets(n))  t == TagRead(s, p)
           q == p + a
<1>1. /\ v = [kind |-> "Unknown", tag |-> tag, data |-> data]
      /\ IsNumber(tag) /\ tag # 0 /\ \A kind \in Kinds : tag # TagOf[kind]
      /\ IsData(data) /\ IsNumber(n)
  BY UnknownDescribed DEF IsUnknown
<1>2. KindOf(tag) = "Unknown"
  BY <1>1 DEF Kinds, TagOf, KindOf
<1>3. ObjectOctets(v, extra) = Framed(tag, data)
  BY DEF ObjectOctets
<1>4. /\ Got(t, q, a, tag) /\ a \in Nat \ {0} /\ b \in Nat \ {0}
      /\ StandsAt(NumberOctets(n), s, q) /\ StandsAt(data, s, q + b)
      /\ Len(Framed(tag, data)) = a + b + n /\ n \in Nat
  <2>1. StandsAt(Framed(tag, data), s, p) /\ n = Len(data)
    BY <1>3
  <2> HIDE DEF tag, data, n
  <2>2. a = Len(NumberOctets(tag)) /\ b = Len(NumberOctets(n))
    OBVIOUS
  <2> HIDE DEF a, b
  <2>3. HeaderRead(s, p, tag, data, a, b, n)
    BY <1>1, <2>1, <2>2, HeaderGiven
  <2> QED BY <2>3 DEF HeaderRead
<1> DEFINE blob == DeserializeBlob(s, t)
<1>5. Got(blob, q + b + n, a + b + n, data)
  <2>1. q \in Nat /\ a \in Int /\ n = Len(data) /\ b = Len(NumberOctets(n))
    BY <1>4
  <2> HIDE DEF tag, data, n, a, b, t, q
  <2> QED BY <1>1, <1>4, <2>1, BlobGiven
<1>6. ~t.threw /\ t.value = tag
  <2> HIDE DEF tag, a, t, q
  <2> QED BY <1>4, GotFields
<1>7. blob.value = data
  <2> DEFINE pos == q + b + n  count == a + b + n
  <2>1. Got(blob, pos, count, data)
    BY <1>5
  <2> HIDE DEF blob, pos, count, data
  <2> QED BY <2>1, GotFields
<1>8. ObjectAt(s, p, nested) = [blob EXCEPT !.value = [kind |-> "Unknown", tag |-> tag, data |-> blob.value]]
  <2> HIDE DEF tag, t
  <2>1. ~(t.threw \/ t.value = 0) /\ KindOf(t.value) = "Unknown" /\ t.value = tag
    BY <1>1, <1>2, <1>6
  <2> QED BY <2>1 DEF ObjectAt, t, TagRead
<1>9. ObjectAt(s, p, nested) = [blob EXCEPT !.value = v]
  BY <1>1, <1>7, <1>8
<1>10. q + b + n = p + Len(ObjectOctets(v, extra)) /\ a + b + n = Len(ObjectOctets(v, extra))
  <2> HIDE DEF a, b, n, tag, data
  <2> QED BY <1>3, <1>4
<1> DEFINE pos == q + b + n  count == a + b + n
<1>11. Got(blob, pos, count, data)
  BY <1>5
<1>12. pos = p + Len(ObjectOctets(v, extra)) /\ count = Len(ObjectOctets(v, extra))
  BY <1>10
<1> HIDE DEF blob, pos, count, data
<1>13. Got([blob EXCEPT !.value = v], pos, count, v)
  BY <1>11, GotRevalued
<1> QED BY <1>9, <1>12, <1>13

\* The octets of an object are at position p, and are read back from there.
ReadsBack(s, v, extra, p) ==
    Got(Decode(s, p), p + Len(ObjectOctets(v, extra)), Len(ObjectOctets(v, extra)), v)

\* What stands in the data starts in it.
LEMMA StandsWithin ==
    ASSUME NEW s, IsData(s), NEW e, IsData(e), NEW p \in Nat, StandsAt(e, s, p)
    PROVE  p \in 0..Len(s) /\ Len(s) \in Nat /\ (Len(e) # 0 => p < Len(s))
<1>1. Len(e) \in Nat /\ Len(s) \in Nat
  BY LenProperties DEF IsData
<1> QED BY <1>1 DEF StandsAt

\* Every object takes some octets.
LEMMA ObjectShape ==
    ASSUME NEW v, IsObject(v), NEW extra, MayFollow(extra, v)
    PROVE  IsData(ObjectOctets(v, extra)) /\ Len(ObjectOctets(v, extra)) \in Nat \ {0}
<1>1. CASE v.kind = "Unknown"
  BY <1>1, UnknownDescribed, FramedShape DEF ObjectOctets
<1>2. CASE v.kind # "Unknown"
  <2> DEFINE body == BodyOctets(v) \o extra  n == Len(body)  tag == TagOf[v.kind]
  <2>1. IsData(body) /\ IsNumber(n) /\ n = Len(body) /\ IsNumber(tag)
    <3>1. Described(v)
      BY <1>2, ObjectDescribed
    <3>2. IsData(BodyOctets(v)) /\ v.kind \in Kinds
      BY <3>1 DEF Described
    <3> QED BY <1>2, <3>2, DataBoth, TagNumbers DEF MayFollow
  <2>2. ObjectOctets(v, extra) = Framed(tag, body)
    BY <1>2 DEF ObjectOctets
  <2> HIDE DEF body, n, tag
  <2> QED BY <2>1, <2>2, FramedShape
<1> QED BY <1>1, <1>2

\* An object is read back if the HeadIPD1 within it is.
LEMMA GivenAt ==
    ASSUME NEW s, IsData(s), NEW v, IsObject(v), NEW extra, MayFollow(extra, v),
           NEW p \in Nat, StandsAt(ObjectOctets(v, extra), s, p),
           v.kind # "Unknown" =>
               Nested(v, NestedAt(v, p), [n \in (p + 1)..Len(s) |-> Decode(s, n)])
    PROVE  ReadsBack(s, v, extra, p)
<1> DEFINE nested == [n \in (p + 1)..Len(s) |-> Decode(s, n)]
<1>1. p \in 0..Len(s)
  BY ObjectShape, StandsWithin
<1>2. Decode(s, p) = ObjectAt(s, p, nested)
  BY <1>1, DecodeEquation
<1> HIDE DEF nested
<1>3. CASE v.kind = "Unknown"
  BY <1>2, <1>3, UnknownGiven DEF ReadsBack
<1>4. CASE v.kind # "Unknown"
  <2>1. Nested(v, NestedAt(v, p), nested)
    BY <1>4 DEF nested
  <2> QED BY <1>2, <1>4, <2>1, KnownGiven DEF ReadsBack
<1> QED BY <1>3, <1>4

\* A HeadIPD1 of its own.
Bare(x) == [kind |-> "HeadIPD1", ipd |-> x]

\* It is an object.
LEMMA BareIsObject ==
    ASSUME NEW x \in FieldValues("Float16")
    PROVE  /\ IsObject(Bare(x)) /\ MayFollow(<<>>, Bare(x)) /\ Bare(x).kind = "HeadIPD1" /\ Bare(x).ipd = x
           /\ ObjectOctets(Bare(x), <<>>) = IPDOctets(x)
<1> DEFINE w == Bare(x)  fields == <<One("ipd", "Float16")>>
<1>1. w.kind = "HeadIPD1" /\ w.ipd = x /\ w = [n \in {"kind", "ipd"} |-> w[n]]
  BY DEF Bare
<1>2. {"kind"} \cup {fields[i].name : i \in DOMAIN fields} = {"kind", "ipd"}
  BY DEF One
<1>3. \A i \in DOMAIN fields : w[fields[i].name] \in ValuesOf(fields[i])
  BY <1>1 DEF One, ValuesOf
<1> HIDE DEF w
<1>4. HasFields(w, fields)
  <2> HIDE DEF fields
  <2> QED BY <1>1, <1>2, <1>3 DEF HasFields
<1>5. IsObject(w)
  BY <1>1, <1>4, KindsAreRead DEF IsObject
<1>6. BodyOctets(w) = FieldOctets("Float16", x) \o <<>>
  BY <1>1, <1>4, IPDBody DEF BodyOctets
<1> DEFINE e == FieldOctets("Float16", x)
<1>7. IsData(e) /\ IsNumber(Len(e))
  BY IPDShape
<1>8. (e \o <<>>) \o <<>> = e
  <2> HIDE DEF e
  <2> QED BY <1>7, ConcatEmptySeq DEF IsData
<1>9. IsData(<<>>)
  BY EmptySeq DEF IsData
<1>10. MayFollow(<<>>, w)
  BY <1>6, <1>7, <1>8, <1>9 DEF MayFollow
<1>11. ObjectOctets(w, <<>>) = IPDOctets(x)
  BY <1>1, <1>6, <1>8 DEF ObjectOctets, IPDOctets
<1> QED BY <1>1, <1>5, <1>10, <1>11 DEF w

\* The HeadIPD1 within a Head1 is further on.
LEMMA NestedPlace ==
    ASSUME NEW v, IsObject(v), v.kind = "Head1", v.ipd # <<>>, NEW p \in Nat
    PROVE  v.ipd[1] \in FieldValues("Float16") /\ NestedAt(v, p) \in Nat /\ p < NestedAt(v, p)
<1> DEFINE kind == v.kind  tag == TagOf[kind]  n == Len(BodyOctets(v))  x == RequiredOctets(kind, v)
           a == Len(NumberOctets(tag))  b == Len(NumberOctets(n))  S == FieldValues("Float16")
<1>1. kind \in Kinds /\ IsData(x) /\ IsNumber(n) /\ v.ipd \in ValuesOf(OptionalOf["Head1"])
  <2>1. Described(v)
    BY ObjectDescribed
  <2> QED BY <2>1 DEF Described, OptionalOf, Optional
<1>2. v.ipd \in Seq(S)
  BY <1>1 DEF OptionalOf, Optional, ValuesOf, OptionalValues
<1>3. v.ipd[1] \in S
  <2> HIDE DEF S
  <2> QED BY <1>2, EmptySeq, LenProperties, ElementOfSeq
<1>4. a \in Nat \ {0}
  <2>1. IsNumber(tag)
    BY <1>1, TagNumbers
  <2> HIDE DEF tag
  <2> QED BY <2>1, NumberShape
<1>5. b \in Nat \ {0}
  <2> HIDE DEF n
  <2> QED BY <1>1, NumberShape
<1>6. Len(x) \in Nat
  BY <1>1, LenProperties DEF IsData
<1> HIDE DEF a, b, x
<1>7. NestedAt(v, p) = p + a + b + Len(x)
  BY DEF NestedAt, a, b, x
<1> QED BY <1>3, <1>4, <1>5, <1>6, <1>7 DEF S

\* The HeadIPD1 within a Head1 stands in its octets.
LEMMA NestedStands ==
    ASSUME NEW s, IsData(s), NEW v, IsObject(v), v.kind = "Head1", v.ipd # <<>>,
           NEW extra, MayFollow(extra, v), NEW p \in Nat, StandsAt(ObjectOctets(v, extra), s, p),
           NEW y, y = v.ipd[1]
    PROVE  /\ y \in FieldValues("Float16")
           /\ NestedAt(v, p) \in Nat /\ p < NestedAt(v, p)
           /\ StandsAt(IPDOctets(y), s, NestedAt(v, p))
<1> DEFINE kind == v.kind  tag == TagOf[kind]  known == BodyOctets(v)  n == Len(known)
           a == Len(NumberOctets(tag))  b == Len(NumberOctets(n))
           x == RequiredOctets(kind, v)  e == OptionalOctets(kind, v)  q == p + a + b
<1>1. /\ kind \in Kinds /\ kind \in DOMAIN ReadFields /\ HasRequired(kind, v)
      /\ IsData(x) /\ IsData(e) /\ IsData(known) /\ IsNumber(n)
      /\ v.ipd \in ValuesOf(OptionalOf["Head1"])
  <2>1. Described(v)
    BY ObjectDescribed
  <2> QED BY <2>1 DEF Described, OptionalOf, Optional
<1>2. y \in FieldValues("Float16")
  <2> DEFINE S == FieldValues("Float16")
  <2>1. v.ipd \in Seq(S)
    BY <1>1 DEF OptionalOf, Optional, ValuesOf, OptionalValues
  <2> HIDE DEF S
  <2>2. v.ipd[1] \in S
    BY <2>1, EmptySeq, LenProperties, ElementOfSeq
  <2> QED BY <2>2 DEF S
<1>3. ObjectOctets(v, extra) = Framed(tag, known) /\ e = IPDOctets(y)
  <2>1. extra = <<>> /\ known \o <<>> = known
    BY <1>1, ConcatEmptySeq DEF MayFollow, OptionalOf, IsData
  <2> QED BY <2>1 DEF ObjectOctets, OptionalOctets
<1>4. /\ a \in Nat \ {0} /\ b \in Nat \ {0} /\ StandsAt(known, s, q)
  <2>1. StandsAt(Framed(tag, known), s, p) /\ n = Len(known) /\ IsNumber(tag)
    BY <1>1, <1>3, TagNumbers
  <2> HIDE DEF tag, known, n
  <2>2. a = Len(NumberOctets(tag)) /\ b = Len(NumberOctets(n))
    OBVIOUS
  <2> HIDE DEF a, b
  <2>3. HeaderRead(s, p, tag, known, a, b, n)
    BY <1>1, <2>1, <2>2, HeaderGiven
  <2> QED BY <2>3 DEF HeaderRead
<1>5. StandsAt(e, s, q + Len(x)) /\ Len(x) \in Nat
  <2>1. q \in Nat /\ StandsAt(x \o e, s, q)
    BY <1>4 DEF BodyOctets
  <2> HIDE DEF q, x, e
  <2> QED BY <1>1, <2>1, StandsBoth
<1>6. NestedAt(v, p) = q + Len(x)
  BY DEF NestedAt
<1> HIDE DEF x, e, a, b
<1>7. q + Len(x) \in Nat /\ p < q + Len(x)
  BY <1>4, <1>5
<1> QED BY <1>2, <1>3, <1>5, <1>6, <1>7

\* Decode gives back what Encode, or a newer peer, put on the wire: the same
\* object, and the position and the count are past all of its octets
\* (gs_decoder.cpp, the Deserialize functions undo those of gs_encoder.cpp).
THEOREM RoundTrip ==
    ASSUME NEW s, IsData(s), NEW v, IsObject(v), NEW extra, MayFollow(extra, v),
           NEW p \in Nat, StandsAt(ObjectOctets(v, extra), s, p)
    PROVE  ReadsBack(s, v, extra, p)
<1> DEFINE nested == [n \in (p + 1)..Len(s) |-> Decode(s, n)]
<1>1. CASE v.kind # "Head1"
  <2>1. Nested(v, NestedAt(v, p), nested)
    BY <1>1 DEF Nested
  <2> QED BY <2>1, GivenAt
<1>2. CASE v.kind = "Head1" /\ v.ipd = <<>>
  <2>1. Nested(v, NestedAt(v, p), nested)
    BY <1>2 DEF Nested
  <2> QED BY <2>1, GivenAt
<1>3. CASE v.kind = "Head1" /\ v.ipd # <<>>
  <2> DEFINE y == v.ipd[1]  w == Bare(y)  q == NestedAt(v, p)  none == <<>>
             o == Len(IPDOctets(y))
  <2>1. y \in FieldValues("Float16") /\ q \in Nat /\ p < q /\ StandsAt(IPDOctets(y), s, q)
    BY <1>3, NestedStands
  <2>2. IsObject(w) /\ MayFollow(none, w) /\ w.kind = "HeadIPD1" /\ w.ipd = y
        /\ ObjectOctets(w, none) = IPDOctets(y)
    BY <2>1, BareIsObject
  <2>3. ReadsBack(s, w, none, q)
    <3> HIDE DEF w, none, q, y
    <3>1. Nested(w, NestedAt(w, q), [n \in (q + 1)..Len(s) |-> Decode(s, n)])
      BY <2>2 DEF Nested
    <3> QED BY <2>1, <2>2, <3>1, GivenAt
  <2>4. Got(Decode(s, q), q + o, o, w)
    BY <2>2, <2>3 DEF ReadsBack
  <2>5. nested[q] = Decode(s, q)
    <3>1. IsData(IPDOctets(y))
      BY <2>1, IPDShape
    <3> HIDE DEF q, y
    <3>2. q \in 0..Len(s)
      BY <2>1, <3>1, StandsWithin
    <3>3. q \in (p + 1)..Len(s)
      BY <2>1, <3>2
    <3> QED BY <3>3
  <2>6. Nested(v, q, nested)
    <3> HIDE DEF nested, q, w
    <3> QED BY <2>2, <2>4, <2>5 DEF Nested
  <2> QED BY <2>6, GivenAt
<1> QED BY <1>1, <1>2, <1>3

-----------------------------------------------------------------------------
(* An object that the end of the data cuts off is refused.                 *)

\* What is left of the tag and the length of an object that is cut off.
HeaderShort(s, p, tag, body, a, b, n) ==
    \/ TagRead(s, p).threw
    \/ /\ Got(TagRead(s, p), p + a, a, tag) /\ a \in Nat \ {0} /\ b \in Nat \ {0}
       /\ StandsAt(NumberOctets(tag), s, p) /\ p + a <= Len(s)
       /\ \/ LengthRead(s, p).threw /\ At(s, LengthRead(s, p)) /\ p + a <= LengthRead(s, p).pos
          \/ /\ Got(LengthRead(s, p), p + a + b, b, n)
             /\ StandsAt(NumberOctets(n), s, p + a) /\ StandsCut(body, s, p + a + b)

\* Either of them is cut off, or what follows them.
LEMMA HeaderCut ==
    ASSUME NEW s, IsData(s), NEW p \in Nat, p <= Len(s), NEW tag, IsNumber(tag), NEW body, IsData(body),
           NEW n, n = Len(body), IsNumber(n), StandsCut(Framed(tag, body), s, p),
           NEW a, a = Len(NumberOctets(tag)), NEW b, b = Len(NumberOctets(n))
    PROVE  HeaderShort(s, p, tag, body, a, b, n)
<1> DEFINE x == NumberOctets(tag)  y == NumberOctets(n)  t == TagRead(s, p)  q == p + a
           no == FALSE  zero == 0  r == Read(p, zero, no, zero)
           u == [t EXCEPT !.count = zero]
<1>1. IsData(x) /\ IsData(y) /\ a \in Nat \ {0} /\ b \in Nat \ {0} /\ a = Len(x) /\ b = Len(y) /\ q \in Nat
  BY NumberShape
<1>2. StandsCut(x \o (y \o body), s, p)
  BY DEF Framed
<1>3. Got(r, p, zero, zero) /\ zero \in Int /\ t = DeserializeVarUint(s, r)
  BY DEF Got, TagRead
<1>4. At(s, r) /\ r.pos = p
  <2> HIDE DEF r, zero
  <2> QED BY <1>3, GotAt
<1>5. LengthRead(s, p) = DeserializeVarUint(s, u)
  BY DEF LengthRead
<1> HIDE DEF x, y
<1>6. IsData(y \o body)
  BY <1>1, DataBoth
<1>7. StandsCut(x, s, p) \/ (StandsAt(x, s, p) /\ StandsCut(y \o body, s, q))
  <2> DEFINE z == y \o body
  <2>1. IsData(z) /\ StandsCut(x \o z, s, p)
    BY <1>2, <1>6
  <2> HIDE DEF z
  <2>2. StandsCut(x, s, p) \/ (StandsAt(x, s, p) /\ StandsCut(z, s, p + Len(x)))
    BY <1>1, <2>1, CutBoth
  <2> QED BY <1>1, <2>2 DEF z
<1>8. CASE StandsCut(x, s, p)
  <2>1. DeserializeVarUint(s, r).threw
    <3> HIDE DEF r
    <3>1. StandsCut(NumberOctets(tag), s, r.pos)
      BY <1>4, <1>8 DEF x
    <3> QED BY <1>4, <3>1, NumberCut
  <2> QED BY <1>3, <2>1 DEF HeaderShort
<1>9. CASE StandsAt(x, s, p) /\ StandsCut(y \o body, s, q)
  <2>1. Got(t, q, a, tag)
    <3> HIDE DEF r, zero, t
    <3>1. Got(t, p + a, zero + a, tag)
      BY <1>1, <1>3, <1>9, NumberGiven DEF x
    <3>2. zero + a = a
      BY <1>1 DEF zero
    <3> QED BY <3>1, <3>2
  <2>2. q <= Len(s)
    BY <1>9 DEF StandsCut
  <2>3. Got(u, q, zero, tag)
    <3> HIDE DEF q, t, zero
    <3> QED BY <2>1, GotRecounted
  <2>4. At(s, u) /\ u.pos = q
    <3> HIDE DEF q, u, zero
    <3> QED BY <1>1, <1>3, <2>2, <2>3, GotAt
  <2>5. StandsCut(y, s, q) \/ (StandsAt(y, s, q) /\ StandsCut(body, s, q + b))
    <3> HIDE DEF q
    <3> QED BY <1>1, <1>9, CutBoth
  <2>6. CASE StandsCut(y, s, q)
    <3> HIDE DEF u
    <3>1. StandsCut(NumberOctets(n), s, u.pos)
      BY <2>4, <2>6 DEF y
    <3>2. DeserializeVarUint(s, u).threw
      BY <2>4, <3>1, NumberCut
    <3>3. At(s, DeserializeVarUint(s, u)) /\ q <= DeserializeVarUint(s, u).pos
      BY <2>4, VarUintMoves DEF Moves
    <3> QED BY <1>1, <1>5, <1>9, <2>1, <2>2, <3>2, <3>3 DEF HeaderShort, x, y
  <2>7. CASE StandsAt(y, s, q) /\ StandsCut(body, s, q + b)
    <3>1. Got(DeserializeVarUint(s, u), q + b, zero + b, n)
      <4> HIDE DEF q, u, zero
      <4> QED BY <1>1, <1>3, <2>3, <2>7, NumberGiven DEF y
    <3>2. zero + b = b
      BY <1>1
    <3> HIDE DEF u, zero
    <3>3. Got(LengthRead(s, p), q + b, b, n)
      BY <1>5, <3>1, <3>2
    <3> QED BY <1>1, <1>9, <2>1, <2>2, <2>7, <3>3 DEF HeaderShort, x, y
  <2> QED BY <2>5, <2>6, <2>7
<1> QED BY <1>7, <1>8, <1>9

\* Decode throws where a Head1's HeadIPD1 is cut off.
NestedCut(s, v, p, nested) ==
    v.kind = "Head1" /\ v.ipd # <<>> /\ StandsCut(IPDOctets(v.ipd[1]), s, p) =>
        nested[p].threw /\ p <= nested[p].pos

\* An optional part that is cut off throws.
LEMMA OptionalCut ==
    ASSUME NEW s, IsData(s), NEW v, IsObject(v), v.kind \in DOMAIN OptionalOf,
           NEW x, x = v[OptionalOf[v.kind].name], x # <<>>,
           NEW q \in Nat, NEW b \in Nat, NEW z,
           NEW known, Got(known, q, b, z), q <= Len(s),
           StandsCut(OptionalOctets(v.kind, v), s, q), NEW nested, NestedCut(s, v, q, nested),
           At(s, nested[q])
    PROVE  /\ DecodeOptional(v.kind, s, known, nested).threw
           /\ q <= DecodeOptional(v.kind, s, known, nested).pos
<1> DEFINE y == x[1]
<1>1. x \in ValuesOf(OptionalOf[v.kind])
  <2>1. v.kind # "Unknown"
    BY KindsAreRead
  <2> QED BY <2>1, ObjectDescribed DEF Described
<1>2. known.pos = q /\ known.count = b
  BY GotFields
<1>3. CASE v.kind = "Object1"
  <2>1. x = v.parent
    BY <1>3 DEF OptionalOf, Optional
  <2>2. x \in Seq(FieldValues("VarUint"))
    BY <1>1, <1>3 DEF OptionalOf, ValuesOf, OptionalValues, Optional
  <2>3. y \in FieldValues("VarUint")
    BY <2>2, EmptySeq, LenProperties, ElementOfSeq
  <2>4. OptionalOctets(v.kind, v) = FieldOctets("VarUint", y) /\ "VarUint" \in Types
    BY <1>3, <2>1 DEF OptionalOctets, Types, Primitives
  <2> DEFINE parent == DeserializeField("VarUint", s, known)
  <2>5. parent.threw /\ q <= parent.pos
    <3> DEFINE type == "VarUint"
    <3>1. y \in FieldValues(type) /\ type \in Types /\ StandsCut(FieldOctets(type, y), s, q)
          /\ parent = DeserializeField(type, s, known) /\ b \in Int
      BY <2>3, <2>4
    <3>2. type \in DOMAIN PrimitivesRead
      BY DEF PrimitivesRead
    <3> HIDE DEF type, parent, y
    <3>3. parent.threw
      BY <3>1, FieldCut
    <3>4. At(s, known) /\ known.pos = q
      BY <3>1, GotAt
    <3>5. Moves(s, known, parent)
      BY <3>1, <3>2, <3>4, FieldMoves
    <3> QED BY <3>3, <3>4, <3>5 DEF Moves
  <2>6. DecodeOptional(v.kind, s, known, nested) = WithParent(known, parent)
    BY <1>3 DEF DecodeOptional
  <2> HIDE DEF parent
  <2> QED BY <2>5, <2>6 DEF WithParent
<1>4. CASE v.kind = "Head1"
  <2>1. x = v.ipd
    BY <1>4 DEF OptionalOf, Optional
  <2>2. OptionalOctets(v.kind, v) = IPDOctets(y)
    BY <1>4, <2>1 DEF OptionalOctets
  <2> DEFINE ipd == nested[q]
  <2>3. ipd.threw /\ q <= ipd.pos
    BY <1>4, <2>1, <2>2 DEF NestedCut
  <2>4. DecodeOptional(v.kind, s, known, nested) = WithIPD(known, ipd)
    BY <1>2, <1>4 DEF DecodeOptional
  <2> HIDE DEF ipd
  <2> DEFINE c == ipd.count + known.count
  <2>5. WithIPD(known, ipd) = [ipd EXCEPT !.threw = TRUE, !.count = c]
    BY <2>3 DEF WithIPD
  <2>6. c \in Int /\ At(s, ipd)
    <3>1. At(s, ipd)
      BY DEF ipd
    <3> QED BY <1>2, <3>1 DEF At
  <2> HIDE DEF c
  <2>7. [ipd EXCEPT !.threw = TRUE, !.count = c].threw
        /\ [ipd EXCEPT !.threw = TRUE, !.count = c].pos = ipd.pos
    BY <2>6, ThrownCounted
  <2> QED BY <2>3, <2>4, <2>5, <2>7
<1> QED BY <1>3, <1>4 DEF OptionalOf

\* What is known once the fields that are always there have been read.
RequiredLeads(s, v, length, nested, pos, count, r, n) ==
    \E known :
        /\ Got(known, pos, count, Blank(v.kind, Required(v.kind, v)))
        /\ WithOptional(v.kind, s, length, DeserializeFields(v.kind, s, length), nested) =
             IF r < n THEN DecodeOptional(v.kind, s, known, nested) ELSE known

\* What follows them is the optional part, if there are octets left.
LEMMA RequiredThen ==
    ASSUME NEW s, IsData(s), NEW v, Described(v),
           NEW q \in Nat, NEW b \in Nat, NEW n \in Nat, NEW length, Got(length, q, b, n),
           StandsAt(RequiredOctets(v.kind, v), s, q), NEW nested,
           NEW r, r = Len(RequiredOctets(v.kind, v))
    PROVE  r \in Nat /\ RequiredLeads(s, v, length, nested, q + r, b + r, r, n)
<1> DEFINE kind == v.kind  R == Required(kind, v)
           required == DeserializeFields(kind, s, length)
           known == [required EXCEPT !.value = Blank(kind, R)]
<1>1. kind \in DOMAIN ReadFields /\ HasRequired(kind, v) /\ r \in Nat
  <2>1. kind \in DOMAIN ReadFields /\ HasRequired(kind, v)
    BY DEF Described
  <2> HIDE DEF kind
  <2> QED BY <2>1, RequiredSome DEF kind
<1>2. Got(required, q + r, b + r, R)
  <2>1. b \in Int
    OBVIOUS
  <2> HIDE DEF kind
  <2>2. r = Len(RequiredOctets(kind, v)) /\ StandsAt(RequiredOctets(kind, v), s, q)
    BY DEF kind
  <2> QED BY <1>1, <2>1, <2>2, RequiredGiven
<1>3. Got(known, q + r, b + r, Blank(kind, R)) /\ ~required.threw /\ required.value = R
  <2> DEFINE z == Blank(kind, R)  pos == q + r  count == b + r
  <2> HIDE DEF required, R, z, pos, count
  <2>1. Got(required, pos, count, R)
    BY <1>2 DEF pos, count
  <2> QED BY <2>1, GotRevalued, GotFields DEF z, pos, count
<1>4. WithOptional(kind, s, length, required, nested) =
        IF known.count - length.count < length.value
        THEN DecodeOptional(kind, s, known, nested) ELSE known
  <2> HIDE DEF required, kind, R
  <2> QED BY <1>3 DEF WithOptional
<1>5. known.count - length.count = r /\ length.value = n
  <2>1. known.count = b + r /\ length.count = b /\ length.value = n
    <3> HIDE DEF known, R
    <3> QED BY <1>3, GotFields
  <2> HIDE DEF known
  <2> QED BY <1>1, <2>1
<1> HIDE DEF known
<1>6. WithOptional(kind, s, length, required, nested) =
        IF r < n THEN DecodeOptional(kind, s, known, nested) ELSE known
  BY <1>4, <1>5
<1>7. Got(known, q + r, b + r, Blank(kind, R))
  BY <1>3
<1> HIDE DEF R
<1> QED BY <1>1, <1>6, <1>7, Zenon DEF RequiredLeads, required, R, kind

\* Finish passes an exception on.
LEMMA FinishThrows ==
    ASSUME NEW kind, NEW s, NEW length, NEW r, r.threw
    PROVE  Finish(kind, s, length, r) = r
  BY Zenon DEF Finish

\* There is an optional part where it has octets.
LEMMA OptionalThere ==
    ASSUME NEW v, OptionalOctets(v.kind, v) # <<>>
    PROVE  v.kind \in DOMAIN OptionalOf /\ v[OptionalOf[v.kind].name] # <<>>
  BY DEF OptionalOctets, OptionalOf, Optional

\* Something is missing of what is cut off.
LEMMA CutNotEmpty ==
    ASSUME NEW s, NEW p \in Nat, StandsCut(<<>>, s, p), NEW l, l = Len(s), l \in Nat
    PROVE  FALSE
<1>1. p <= l /\ l < p + Len(<<>>)
  BY DEF StandsCut
<1>2. Len(<<>>) = 0
  OBVIOUS
<1> QED BY <1>1, <1>2

\* What is cut off among the parts throws, or is missed when it is skipped.
LEMMA PartsCut ==
    ASSUME NEW s, IsData(s), NEW v, IsObject(v), v.kind # "Unknown", NEW extra, MayFollow(extra, v),
           NEW q \in Nat, NEW b \in Nat, NEW n, n = Len(BodyOctets(v) \o extra),
           NEW length, Got(length, q, b, n),
           StandsCut(BodyOctets(v) \o extra, s, q), NEW p \in Nat, p < q, NEW c \in Nat, c < q, b = q - c,
           NEW nested, Further(s, p, nested),
           NestedCut(s, v, q + Len(RequiredOctets(v.kind, v)), nested)
    PROVE  LET last == Finish(v.kind, s, length,
                              WithOptional(v.kind, s, length, DeserializeFields(v.kind, s, length), nested))
           IN  last.threw /\ At(s, last) /\ q <= last.pos
<1> DEFINE kind == v.kind  known == BodyOctets(v)  m == Len(known)
           x == RequiredOctets(kind, v)  e == OptionalOctets(kind, v)  r == Len(x)  o == Len(e)
           required == DeserializeFields(kind, s, length)
           some == WithOptional(kind, s, length, required, nested)
           last == Finish(kind, s, length, some)
           l == Len(s)
<1>1. /\ Described(v) /\ kind \in DOMAIN ReadFields /\ HasRequired(kind, v)
      /\ IsData(x) /\ IsData(e) /\ IsData(known) /\ m # 0 /\ m = r + o
  <2>1. Described(v)
    BY ObjectDescribed
  <2> QED BY <2>1 DEF Described
<1>2. IsData(extra) /\ (kind \in DOMAIN OptionalOf => extra = <<>>)
  BY DEF MayFollow
<1>3. n = m + Len(extra) /\ m \in Nat /\ n \in Nat /\ n # 0 /\ r \in Nat /\ o \in Nat /\ Len(extra) \in Nat
  <2>1. n = m + Len(extra) /\ m \in Nat /\ Len(extra) \in Nat
    <3>1. n = Len(known \o extra)
      OBVIOUS
    <3> HIDE DEF known
    <3>2. Len(known \o extra) = Len(known) + Len(extra) /\ Len(known) \in Nat /\ Len(extra) \in Nat
      BY <1>1, <1>2, DataBoth
    <3> QED BY <3>1, <3>2
  <2>2. r \in Nat /\ o \in Nat
    <3> HIDE DEF x, e
    <3>1. Len(x) \in Nat /\ Len(e) \in Nat
      BY <1>1, DataBoth
    <3> QED BY <3>1
  <2> QED BY <1>1, <2>1, <2>2
<1>4. l \in Nat /\ q <= l
  BY LenProperties DEF IsData, StandsCut
<1>5. At(s, length) /\ ~length.threw /\ length.pos = q /\ length.count = b /\ length.value = n
  <2>1. q <= Len(s) /\ b \in Int
    BY <1>4
  <2> QED BY <2>1, GotAt, GotFields
<1>6. /\ At(s, some) /\ (~Wrapping(s) => length.pos <= some.pos)
      /\ ~some.threw => InStep(length, some) /\ some.value.kind = kind
  <2>1. /\ Moves(s, length, required)
        /\ ~required.threw => required.value.kind = kind /\ "kind" \in DOMAIN required.value
    <3> HIDE DEF kind
    <3> QED BY <1>1, <1>5, FieldsMove
  <2>2. p < length.pos /\ some = WithOptional(kind, s, length, required, nested)
    BY <1>5
  <2> HIDE DEF required, some, kind
  <2> QED BY <1>5, <2>1, <2>2, OptionalMoves
<1>7. At(s, last)
  <2>1. length.value \in Nat /\ length.value # 0 /\ c < length.pos /\ length.count = length.pos - c
    BY <1>3, <1>5
  <2>2. length.value <= Huge
    <3>1. n < Huge
      BY DEF MayFollow, IsNumber
    <3> QED BY <1>3, <1>5, <3>1 DEF Huge
  <2>3. last = Finish(kind, s, length, some)
    OBVIOUS
  <2> HIDE DEF some, kind, last
  <2> QED BY <1>5, <1>6, <2>1, <2>2, <2>3, FinishSound
<1>8. StandsCut(known, s, q) \/ (StandsAt(known, s, q) /\ StandsCut(extra, s, q + m))
  <2>1. StandsCut(known \o extra, s, q)
    OBVIOUS
  <2> HIDE DEF known
  <2> QED BY <1>1, <1>2, <2>1, CutBoth
<1> SUFFICES last.threw /\ q <= last.pos
  BY <1>7
<1>9. CASE StandsCut(known, s, q)
  <2>1. StandsCut(x, s, q) \/ (StandsAt(x, s, q) /\ StandsCut(e, s, q + r))
    <3>1. StandsCut(x \o e, s, q)
      BY <1>9 DEF BodyOctets
    <3> HIDE DEF x, e
    <3> QED BY <1>1, <3>1, CutBoth
  <2>2. CASE StandsCut(x, s, q)
    <3>1. required.threw
      <4>1. b \in Int
        OBVIOUS
      <4> HIDE DEF kind
      <4> QED BY <1>1, <2>2, <4>1, RequiredCut
    <3>2. some = required
      <4> HIDE DEF required
      <4> QED BY <3>1, Zenon DEF WithOptional
    <3>3. q <= required.pos
      <4> HIDE DEF kind
      <4> QED BY <1>1, <1>5, FieldsMove DEF Moves
    <3> HIDE DEF some, required
    <3> QED BY <3>1, <3>2, <3>3, FinishThrows
  <2>3. CASE StandsAt(x, s, q) /\ StandsCut(e, s, q + r)
    <3> DEFINE pos == q + r  count == b + r
    <3>1. pos \in Nat /\ count \in Nat /\ p + 1 <= pos
      BY <1>3
    <3>2. PICK z : /\ Got(z, pos, count, Blank(kind, Required(kind, v)))
                   /\ some = IF r < n THEN DecodeOptional(kind, s, z, nested) ELSE z
      <4>1. r = Len(RequiredOctets(v.kind, v)) /\ StandsAt(RequiredOctets(v.kind, v), s, q)
        BY <2>3
      <4> HIDE DEF r
      <4>2. RequiredLeads(s, v, length, nested, q + r, b + r, r, n)
        BY <1>1, <1>3, <4>1, RequiredThen
      <4> QED BY <4>2, Zenon DEF RequiredLeads, pos, count, kind, some, required
    <3>3. e # <<>>
      <4> HIDE DEF pos, l
      <4>1. StandsCut(e, s, pos)
        BY <2>3 DEF pos
      <4> HIDE DEF e
      <4> QED BY <1>4, <3>1, <4>1, CutNotEmpty DEF l
    <3>4. kind \in DOMAIN OptionalOf /\ v[OptionalOf[kind].name] # <<>>
      BY <3>3, OptionalThere
    <3>5. r < n
      <4>1. extra = <<>>
        BY <1>2, <3>4
      <4>2. o # 0
        <5> HIDE DEF e
        <5> QED BY <1>1, <3>3, EmptySeq DEF IsData
      <4>3. n = m
        BY <1>3, <4>1
      <4> HIDE DEF r, o, m, known
      <4> QED BY <1>1, <1>3, <4>2, <4>3
    <3>6. pos <= l /\ At(s, nested[pos])
      <4>1. pos <= l
        BY <2>3 DEF StandsCut
      <4> HIDE DEF l, pos
      <4>2. pos \in (p + 1)..l
        BY <1>4, <3>1, <4>1
      <4> QED BY <4>1, <4>2 DEF Further, Sound, l
    <3>7. DecodeOptional(kind, s, z, nested).threw /\ pos <= DecodeOptional(kind, s, z, nested).pos
      <4> DEFINE y == v[OptionalOf[v.kind].name]  w == Blank(kind, Required(kind, v))
      <4>1. y # <<>> /\ Got(z, pos, count, w) /\ StandsCut(OptionalOctets(v.kind, v), s, pos)
            /\ NestedCut(s, v, pos, nested) /\ pos <= Len(s)
        BY <2>3, <3>2, <3>4, <3>6
      <4> HIDE DEF pos, count, w, y
      <4> QED BY <3>1, <3>4, <3>6, <4>1, OptionalCut DEF y
    <3>8. some.threw /\ pos <= some.pos
      <4> HIDE DEF some, kind, r, pos
      <4> QED BY <3>2, <3>5, <3>7
    <3>9. q <= some.pos
      <4>1. some.pos \in Nat
        BY <1>6 DEF At
      <4> HIDE DEF some, r
      <4> QED BY <1>3, <3>8, <4>1
    <3> HIDE DEF some
    <3> QED BY <3>8, <3>9, FinishThrows
  <2> QED BY <2>1, <2>2, <2>3
<1>10. CASE StandsAt(known, s, q) /\ StandsCut(extra, s, q + m)
  <2>1. extra # <<>> /\ l < q + n
    <3> DEFINE pos == q + m
    <3>1. StandsCut(extra, s, pos) /\ pos \in Nat /\ q + n = pos + Len(extra)
      BY <1>3, <1>10
    <3> HIDE DEF pos, l, m
    <3>2. extra # <<>>
      BY <1>4, <3>1, CutNotEmpty DEF l
    <3> QED BY <3>1, <3>2 DEF StandsCut, l
  <2>2. kind \notin DOMAIN OptionalOf
    BY <1>2, <2>1
  <2>3. Nested(v, q + Len(RequiredOctets(kind, v)), nested)
    BY <2>2, KindsAreRead DEF Nested, OptionalOf
  <2>4. Got(some, q + m, b + m, v)
    <3>1. m = Len(BodyOctets(v)) /\ m <= n /\ StandsAt(BodyOctets(v), s, q)
      BY <1>3, <1>10
    <3> HIDE DEF m
    <3> QED BY <1>3, <2>2, <2>3, <3>1, PartsGiven
  <2>5. ~some.threw /\ some.pos = q + m /\ some.count = b + m
    <3> DEFINE pos == q + m  count == b + m
    <3> HIDE DEF some, pos, count
    <3>1. Got(some, pos, count, v)
      BY <2>4 DEF pos, count
    <3> QED BY <3>1, GotFields DEF pos, count
  <2>6. Len(extra) # 0
    BY <1>2, <2>1, EmptySeq DEF IsData
  <2> DEFINE d == Discarded(kind, Signed(length.value), length.count, some.count)
             skipped == some.pos + d
             u == Unsigned(some.count - length.count)
  <2>7. u = m /\ m < n /\ Signed(length.value) = n
    <3>1. n < Huge
      BY DEF MayFollow, IsNumber
    <3> HIDE DEF m
    <3>2. m < n
      BY <1>3, <2>6
    <3>3. Signed(n) = n
      BY <1>3, <3>1 DEF Signed, Huge
    <3> HIDE DEF some
    <3>4. some.count - length.count = m
      BY <1>3, <1>5, <2>5
    <3>5. Unsigned(m) = m
      BY <1>3 DEF Unsigned
    <3> QED BY <1>5, <3>2, <3>3, <3>4, <3>5
  <2>8. skipped = q + n
    <3> HIDE DEF some, m
    <3>1. d = n - m
      BY <1>3, <1>5, <2>2, <2>5, <2>7 DEF Discarded, OptionalOf
    <3> HIDE DEF d
    <3> QED BY <1>3, <2>5, <3>1
  <2>9. skipped \notin 0..Len(s)
    <3> HIDE DEF skipped
    <3> QED BY <1>4, <2>1, <2>8
  <2>10. last = Thrown(some)
    <3>1. ~(u = length.value) /\ ~(u > length.value)
      <4> HIDE DEF u, m
      <4> QED BY <1>3, <1>5, <2>7
    <3> HIDE DEF some, u, skipped
    <3> QED BY <2>5, <2>9, <3>1, Zenon DEF Finish, u, d, skipped
  <2>11. q <= some.pos
    <3> HIDE DEF some, m
    <3> QED BY <1>3, <2>5
  <2> HIDE DEF some, last
  <2> QED BY <1>6, <2>10, <2>11, Changed
<1> QED BY <1>8, <1>9, <1>10

\* An object of a known kind that is cut off throws.
LEMMA KnownCut ==
    ASSUME NEW s, IsData(s), NEW v, IsObject(v), v.kind # "Unknown", NEW extra, MayFollow(extra, v),
           NEW p \in Nat, p <= Len(s), StandsCut(ObjectOctets(v, extra), s, p),
           NEW nested, Further(s, p, nested), NestedCut(s, v, NestedAt(v, p), nested)
    PROVE  ObjectAt(s, p, nested).threw /\ MovesOn(s, p, ObjectAt(s, p, nested))
<1> DEFINE kind == v.kind  tag == TagOf[kind]  known == BodyOctets(v)  body == known \o extra
           n == Len(body)
           a == Len(NumberOctets(tag))  b == Len(NumberOctets(n))
           t == TagRead(s, p)
           length == LengthRead(s, p)
           q == p + a + b
           required == DeserializeFields(kind, s, length)
           last == Finish(kind, s, length, WithOptional(kind, s, length, required, nested))
           whole == DecodeBody(kind, s, length, nested)
<1>1. kind \in Kinds /\ IsData(known) /\ Len(known) # 0
  BY ObjectDescribed DEF Described
<1>2. tag # 0 /\ KindOf(tag) = kind /\ IsNumber(tag)
  BY <1>1, TagsTold
<1>3. IsData(extra) /\ (kind \in DOMAIN OptionalOf => extra = <<>>) /\ IsNumber(n)
  BY DEF MayFollow
<1>4. IsData(body) /\ n = Len(known) + Len(extra) /\ Len(known) \in Nat /\ Len(extra) \in Nat /\ n = Len(body)
  <2> HIDE DEF known
  <2> QED BY <1>1, <1>3, DataBoth
<1>5. HeaderShort(s, p, tag, body, a, b, n)
  <2>1. StandsCut(Framed(tag, body), s, p)
    BY DEF ObjectOctets
  <2> HIDE DEF tag, body, n
  <2>2. a = Len(NumberOctets(tag)) /\ b = Len(NumberOctets(n))
    OBVIOUS
  <2> HIDE DEF a, b
  <2> QED BY <1>2, <1>3, <1>4, <2>1, <2>2, HeaderCut
<1>6. NestedCut(s, v, q + Len(RequiredOctets(kind, v)), nested)
  <2>1. CASE kind \in DOMAIN OptionalOf
    <3>1. body = known
      <4>1. known \o <<>> = known
        BY <1>1, ConcatEmptySeq DEF IsData
      <4> QED BY <1>3, <2>1, <4>1
    <3> QED BY <3>1 DEF NestedAt
  <2>2. CASE kind \notin DOMAIN OptionalOf
    BY <2>2, KindsAreRead DEF NestedCut, OptionalOf
  <2> QED BY <2>1, <2>2
<1>7. ObjectAt(s, p, nested) =
        IF t.threw \/ t.value = 0 THEN Thrown(t)
        ELSE IF KindOf(t.value) = "Unknown"
        THEN [DeserializeBlob(s, t) EXCEPT
                !.value = [kind |-> KindOf(t.value), tag |-> t.value, data |-> DeserializeBlob(s, t).value]]
        ELSE DecodeKnown(KindOf(t.value), s, t, nested)
  BY Zenon DEF ObjectAt, t, TagRead
<1>8. CASE t.threw
  <2>1. ObjectAt(s, p, nested) = Thrown(t)
    <3> HIDE DEF t
    <3> QED BY <1>7, <1>8, Zenon
  <2>2. At(s, t) /\ p <= t.pos /\ (p < Len(s) => p < t.pos)
    <3> DEFINE no == FALSE  zero == 0  r == Read(p, zero, no, zero)
    <3>1. Got(r, p, zero, zero) /\ zero \in Int /\ t = DeserializeVarUint(s, r)
      BY DEF Got, TagRead
    <3> HIDE DEF r, zero, t
    <3>2. At(s, r) /\ r.pos = p
      BY <3>1, GotAt
    <3> QED BY <3>1, <3>2, VarUintMoves DEF Moves
  <2> HIDE DEF t
  <2> QED BY <2>1, <2>2, Changed DEF MovesOn
<1>9. CASE ~t.threw
  <2>1. Got(t, p + a, a, tag) /\ a \in Nat \ {0} /\ b \in Nat \ {0} /\ p + a <= Len(s)
    <3> HIDE DEF t, tag, body, n, a, b
    <3> QED BY <1>5, <1>9 DEF HeaderShort, t
  <2>2. t.value = tag /\ t.count = a
    <3> HIDE DEF t, tag, a
    <3> QED BY <2>1, GotFields
  <2>3. ObjectAt(s, p, nested) = [whole EXCEPT !.count = @ + t.count]
    <3>1. kind # "Unknown"
      OBVIOUS
    <3>2. ObjectAt(s, p, nested) = DecodeKnown(kind, s, t, nested)
      <4> HIDE DEF t, tag, kind
      <4> QED BY <1>2, <1>7, <1>9, <2>2, <3>1
    <3> HIDE DEF kind
    <3> QED BY <3>2 DEF DecodeKnown, LengthRead, t
  <2>4. whole.threw /\ At(s, whole) /\ p < whole.pos
    <3>1. CASE length.threw /\ At(s, length) /\ p + a <= length.pos
      <4>1. whole = Thrown(length)
        <5> HIDE DEF length, kind
        <5> QED BY <3>1 DEF DecodeBody
      <4>2. p < length.pos
        <5>1. length.pos \in Nat
          BY <3>1 DEF At
        <5> HIDE DEF length, a
        <5> QED BY <2>1, <3>1, <5>1
      <4> HIDE DEF length, whole
      <4> QED BY <3>1, <4>1, <4>2, Changed
    <3>2. CASE Got(length, p + a + b, b, n) /\ StandsCut(body, s, p + a + b)
      <4>1. n # 0 /\ n = Len(BodyOctets(v) \o extra)
        BY <1>1, <1>4
      <4>2. ~length.threw /\ length.value = n
        <5> HIDE DEF length, a, b, n
        <5> QED BY <3>2, GotFields
      <4>3. whole = last
        <5> HIDE DEF length, kind, n
        <5> QED BY <4>1, <4>2 DEF DecodeBody
      <4>4. q \in Nat /\ b \in Nat /\ p < q
        BY <2>1
      <4>5. last.threw /\ At(s, last) /\ q <= last.pos
        <5> DEFINE c == p + a
        <5>1. StandsCut(BodyOctets(v) \o extra, s, q) /\ Got(length, q, b, n)
              /\ NestedCut(s, v, q + Len(RequiredOctets(v.kind, v)), nested)
          BY <1>6, <3>2
        <5>2. c \in Nat /\ c < q /\ b = q - c /\ n = Len(BodyOctets(v) \o extra)
              /\ last = Finish(v.kind, s, length, WithOptional(v.kind, s, length,
                                DeserializeFields(v.kind, s, length), nested))
          BY <2>1
        <5> HIDE DEF q, b, n, length, last, c
        <5> QED BY <4>4, <5>1, <5>2, PartsCut
      <4>6. last.pos \in Nat
        BY <4>5 DEF At
      <4> HIDE DEF whole, last, q
      <4> QED BY <4>3, <4>4, <4>5, <4>6
    <3> HIDE DEF t, length, whole, tag, body, n, a, b
    <3> QED BY <1>5, <1>9, <3>1, <3>2 DEF HeaderShort, t, length
  <2>5. a \in Int /\ whole.count \in Int
    <3> HIDE DEF whole, a
    <3> QED BY <2>1, <2>4 DEF At
  <2> DEFINE c == whole.count + t.count
  <2>6. c \in Int /\ ObjectAt(s, p, nested) = [whole EXCEPT !.count = c]
    <3> HIDE DEF whole, a, t
    <3> QED BY <2>2, <2>3, <2>5
  <2>7. whole.pos \in Nat
    BY <2>4 DEF At
  <2> HIDE DEF whole, c
  <2>8. ObjectAt(s, p, nested).threw /\ ObjectAt(s, p, nested).pos = whole.pos
    BY <2>4, <2>6, Recounted
  <2> QED BY <2>4, <2>7, <2>8 DEF MovesOn
<1> QED BY <1>8, <1>9

\* The octets of an unknown object that are cut off throw.
LEMMA BlobCut ==
    ASSUME NEW s, IsData(s), NEW data, IsData(data), NEW n, n = Len(data), IsNumber(n),
           NEW pos \in Nat, pos <= Len(s), NEW count \in Int, NEW x, NEW t, Got(t, pos, count, x),
           StandsCut(NumberOctets(n) \o data, s, pos)
    PROVE  At(s, DeserializeBlob(s, t)) /\ DeserializeBlob(s, t).threw /\ pos <= DeserializeBlob(s, t).pos
<1> DEFINE size == DeserializeVarUint(s, t)  y == NumberOctets(n)  b == Len(y)  blob == DeserializeBlob(s, t)
<1> SUFFICES At(s, blob) /\ blob.threw /\ pos <= blob.pos
  OBVIOUS
<1>1. At(s, t) /\ t.pos = pos
  BY GotAt, GotFields
<1>2. IsData(y) /\ b \in Nat /\ n \in Nat /\ Len(s) \in Nat
  BY NumberShape, LenProperties DEF IsNumber, IsData
<1>3. At(s, blob) /\ pos <= blob.pos
  BY <1>1, BlobMoves DEF Moves
<1>4. StandsCut(y, s, pos) \/ (StandsAt(y, s, pos) /\ StandsCut(data, s, pos + b))
  <2>1. StandsCut(y \o data, s, pos)
    OBVIOUS
  <2> HIDE DEF y
  <2> QED BY <1>2, <2>1, CutBoth
<1>5. CASE StandsCut(y, s, pos)
  <2>1. size.threw
    <3>1. StandsCut(NumberOctets(n), s, t.pos)
      BY <1>1, <1>5
    <3> QED BY <1>1, <3>1, NumberCut
  <2>2. blob = size
    BY <2>1, Zenon DEF DeserializeBlob, size
  <2> HIDE DEF blob, size
  <2> QED BY <1>3, <2>1, <2>2
<1>6. CASE StandsAt(y, s, pos) /\ StandsCut(data, s, pos + b)
  <2> DEFINE q == pos + b  c == count + b
  <2>1. Got(size, q, c, n)
    BY <1>6, NumberGiven
  <2>2. q + n > Len(s)
    BY <1>2, <1>6 DEF StandsCut
  <2>3. At(s, size)
    BY <1>1, VarUintMoves DEF Moves
  <2> HIDE DEF size, q, c
  <2>4. ~size.threw /\ size.pos = q /\ size.value = n
    BY <2>1, GotFields
  <2>5. blob = Thrown(size)
    BY <2>2, <2>4 DEF DeserializeBlob, size
  <2> HIDE DEF blob
  <2> QED BY <1>3, <2>3, <2>5, Changed
<1> HIDE DEF blob
<1> QED BY <1>3, <1>4, <1>5, <1>6

\* So does the object.
LEMMA UnknownCut ==
    ASSUME NEW s, IsData(s), NEW v, IsObject(v), v.kind = "Unknown", NEW extra,
           NEW p \in Nat, p <= Len(s), StandsCut(ObjectOctets(v, extra), s, p), NEW nested
    PROVE  ObjectAt(s, p, nested).threw /\ MovesOn(s, p, ObjectAt(s, p, nested))
<1> DEFINE tag == v.tag  data == v.data  n == Len(data)
           x == NumberOctets(tag)  rest == NumberOctets(n) \o data  a == Len(x)  t == TagRead(s, p)
           no == FALSE  zero == 0  r == Read(p, zero, no, zero)
           blob == DeserializeBlob(s, t)
<1>1. /\ v = [kind |-> "Unknown", tag |-> tag, data |-> data]
      /\ IsNumber(tag) /\ tag # 0 /\ \A kind \in Kinds : tag # TagOf[kind]
      /\ IsData(data) /\ IsNumber(n)
  BY UnknownDescribed DEF IsUnknown
<1>2. KindOf(tag) = "Unknown"
  BY <1>1 DEF Kinds, TagOf, KindOf
<1>3. IsData(x) /\ a \in Nat \ {0} /\ IsData(rest)
  <2>1. IsData(x) /\ a \in Nat \ {0} /\ IsData(NumberOctets(n))
    BY <1>1, NumberShape
  <2> QED BY <1>1, <2>1, DataBoth
<1>4. StandsCut(x \o rest, s, p)
  BY DEF ObjectOctets, Framed
<1>5. StandsCut(x, s, p) \/ (StandsAt(x, s, p) /\ StandsCut(rest, s, p + a))
  <2> HIDE DEF x, rest
  <2> QED BY <1>3, <1>4, CutBoth
<1>6. Got(r, p, zero, zero) /\ zero \in Int /\ t = DeserializeVarUint(s, r)
  BY DEF Got, TagRead
<1>7. At(s, r) /\ r.pos = p
  <2> HIDE DEF r, zero
  <2> QED BY <1>6, GotAt, GotFields
<1>8. ObjectAt(s, p, nested) =
        IF t.threw \/ t.value = 0 THEN Thrown(t)
        ELSE IF KindOf(t.value) = "Unknown"
        THEN [blob EXCEPT !.value = [kind |-> KindOf(t.value), tag |-> t.value, data |-> blob.value]]
        ELSE DecodeKnown(KindOf(t.value), s, t, nested)
  BY Zenon DEF ObjectAt, t, TagRead, blob
<1>9. CASE StandsCut(x, s, p)
  <2> HIDE DEF r, t
  <2>1. t.threw /\ At(s, t) /\ MovesOn(s, p, t)
    <3>1. StandsCut(NumberOctets(tag), s, r.pos)
      BY <1>7, <1>9
    <3> QED BY <1>1, <1>6, <1>7, <3>1, NumberCut, VarUintMoves DEF Moves, MovesOn
  <2>2. ObjectAt(s, p, nested) = Thrown(t)
    BY <1>8, <2>1, Zenon
  <2> QED BY <2>1, <2>2, Changed DEF MovesOn
<1>10. CASE StandsAt(x, s, p) /\ StandsCut(rest, s, p + a)
  <2> DEFINE q == p + a  c == zero + a
  <2>1. Got(t, q, c, tag)
    <3> HIDE DEF r, t, zero
    <3> QED BY <1>1, <1>6, <1>10, NumberGiven
  <2>2. q \in Nat /\ c \in Int /\ q <= Len(s) /\ n = Len(data) /\ StandsCut(NumberOctets(n) \o data, s, q)
    <3>1. StandsCut(rest, s, q)
      BY <1>10
    <3>2. q \in Nat /\ c \in Int
      BY <1>3
    <3> HIDE DEF q, c, rest
    <3>3. q <= Len(s)
      BY <3>1 DEF StandsCut
    <3> QED BY <3>1, <3>2, <3>3 DEF rest
  <2>3. ~t.threw /\ t.value = tag
    <3> HIDE DEF t, q, c, tag
    <3> QED BY <2>1, GotFields
  <2>4. blob.threw /\ At(s, blob) /\ q <= blob.pos
    <3> HIDE DEF t, q, c, tag, data, n
    <3> QED BY <1>1, <2>1, <2>2, BlobCut
  <2> DEFINE w == [kind |-> KindOf(t.value), tag |-> t.value, data |-> blob.value]
  <2>5. ObjectAt(s, p, nested) = [blob EXCEPT !.value = w]
    <3> HIDE DEF t, tag, blob
    <3> QED BY <1>1, <1>2, <1>8, <2>3, Zenon
  <2>6. p < q /\ blob.pos \in Nat
    <3>1. blob.pos \in Nat
      BY <2>4 DEF At
    <3> HIDE DEF a, blob
    <3> QED BY <1>3, <3>1
  <2> HIDE DEF blob, w, q
  <2>7. ObjectAt(s, p, nested).threw /\ ObjectAt(s, p, nested).pos = blob.pos
    BY <2>4, <2>5, Revalued
  <2> QED BY <2>2, <2>4, <2>6, <2>7 DEF MovesOn
<1> QED BY <1>5, <1>9, <1>10

\* An object that is cut off throws, if the HeadIPD1 within it does.
LEMMA CutAt ==
    ASSUME NEW s, IsData(s), NEW v, IsObject(v), NEW extra, MayFollow(extra, v),
           NEW p \in Nat, p <= Len(s), StandsCut(ObjectOctets(v, extra), s, p),
           v.kind # "Unknown" =>
               NestedCut(s, v, NestedAt(v, p), [n \in (p + 1)..Len(s) |-> Decode(s, n)])
    PROVE  Decode(s, p).threw /\ MovesOn(s, p, Decode(s, p))
<1> DEFINE nested == [n \in (p + 1)..Len(s) |-> Decode(s, n)]
<1>1. p \in 0..Len(s)
  BY LenProperties DEF IsData
<1>2. Decode(s, p) = ObjectAt(s, p, nested)
  BY <1>1, DecodeEquation
<1>3. Further(s, p, nested)
  <2>1. ASSUME NEW n \in (p + 1)..Len(s) PROVE Sound(s, n, nested[n])
    <3>1. n \in 0..Len(s)
      BY <1>1
    <3>2. Sound(s, n, Decode(s, n))
      BY <3>1, DecodeSound
    <3> QED BY <3>2, Zenon
  <2> QED BY <2>1, Zenon DEF Further
<1> HIDE DEF nested
<1>4. CASE v.kind = "Unknown"
  BY <1>2, <1>4, UnknownCut
<1>5. CASE v.kind # "Unknown"
  <2>1. NestedCut(s, v, NestedAt(v, p), nested)
    BY <1>5 DEF nested
  <2> QED BY <1>2, <1>3, <1>5, <2>1, KnownCut
<1> QED BY <1>4, <1>5

\* An object whose octets the end of the data cuts off, none of them there or
\* all but the last, is not decoded: Decode throws, and moves into what is there
\* of it (gs_decoder.cpp, through the checks of data_buffer.cpp's Read functions
\* and of AdvanceReadLength).
THEOREM CutObjectThrows ==
    ASSUME NEW s, IsData(s), NEW v, IsObject(v), NEW extra, MayFollow(extra, v),
           NEW p \in Nat, p <= Len(s), StandsCut(ObjectOctets(v, extra), s, p)
    PROVE  Decode(s, p).threw /\ MovesOn(s, p, Decode(s, p))
<1> DEFINE nested == [n \in (p + 1)..Len(s) |-> Decode(s, n)]
<1>1. CASE ~(v.kind = "Head1" /\ v.ipd # <<>>)
  <2>1. NestedCut(s, v, NestedAt(v, p), nested)
    BY <1>1 DEF NestedCut
  <2> QED BY <2>1, CutAt
<1>2. CASE v.kind = "Head1" /\ v.ipd # <<>>
  <2> DEFINE y == v.ipd[1]  w == Bare(y)  q == NestedAt(v, p)  none == <<>>  l == Len(s)
  <2>1. y \in FieldValues("Float16") /\ q \in Nat /\ p < q
    BY <1>2, NestedPlace
  <2>2. /\ IsObject(w) /\ MayFollow(none, w) /\ w.kind = "HeadIPD1"
        /\ ObjectOctets(w, none) = IPDOctets(y)
    BY <2>1, BareIsObject
  <2>3. ASSUME StandsCut(IPDOctets(y), s, q) PROVE nested[q].threw /\ q <= nested[q].pos
    <3>1. q <= l
      BY <2>3 DEF StandsCut
    <3>2. Decode(s, q).threw /\ q <= Decode(s, q).pos
      <4> HIDE DEF w, none, q, y, l
      <4>1. NestedCut(s, w, NestedAt(w, q), [n \in (q + 1)..Len(s) |-> Decode(s, n)])
        BY <2>2 DEF NestedCut
      <4> QED BY <2>1, <2>2, <2>3, <3>1, <4>1, CutAt DEF l, MovesOn
    <3>3. l \in Nat
      BY LenProperties DEF IsData
    <3> HIDE DEF q, l
    <3>4. q \in (p + 1)..l
      BY <2>1, <3>1, <3>3
    <3>5. nested[q] = Decode(s, q)
      BY <3>4 DEF l
    <3> HIDE DEF nested
    <3> QED BY <3>2, <3>5
  <2>4. NestedCut(s, v, q, nested)
    <3> HIDE DEF nested, q
    <3> QED BY <2>3 DEF NestedCut
  <2> QED BY <2>4, CutAt
<1> QED BY <1>1, <1>2

-----------------------------------------------------------------------------
(* Encode appends all of an object or nothing.                             *)

\* All pieces are written when there is room for them.
LEMMA FittingAll ==
    ASSUME NEW S, NEW pieces \in Seq(S), NEW room, Length(pieces) <= room
    PROVE  Fitting(pieces, room) = Len(pieces) /\ SubSeq(pieces, 1, Len(pieces)) = pieces
<1> DEFINE n == Len(pieces)
           fits == {k \in 0..n : Length(SubSeq(pieces, 1, k)) <= room}
           F == CHOOSE k \in fits : \A m \in fits : m <= k
<1>1. n \in Nat /\ SubSeq(pieces, 1, n) = pieces
  BY LenProperties, SubSeqProperties
<1>2. n \in fits /\ \A m \in fits : m <= n /\ m \in Nat
  <2>1. n \in 0..n /\ Length(SubSeq(pieces, 1, n)) <= room
    <3> HIDE DEF n
    <3>1. n \in 0..n
      BY <1>1
    <3>2. Length(SubSeq(pieces, 1, n)) <= room
      BY <1>1, Zenon
    <3> QED BY <3>1, <3>2
  <2>2. \A m \in 0..n : m <= n /\ m \in Nat
    <3> HIDE DEF n
    <3> QED BY <1>1
  <2> HIDE DEF n
  <2> QED BY <2>1, <2>2
<1>3. Fitting(pieces, room) = F
  BY Zenon DEF Fitting
<1> HIDE DEF n, fits
<1>4. F \in fits /\ \A m \in fits : m <= F
  BY <1>2
<1>5. F \in Nat /\ n <= F /\ F <= n
  BY <1>2, <1>4
<1> HIDE DEF F
<1>6. F = n
  BY <1>1, <1>5
<1> QED BY <1>1, <1>3, <1>6 DEF n

\* What Encode makes of a buffer: the octets of the object follow its data.
Encoding(b, v) ==
    LET x == ObjectOctets(v, <<>>)
    IN  IF Len(b.data) + Len(x) <= b.size THEN Outcome([b EXCEPT !.data = @ \o x], 1, Len(x), FALSE)
        ELSE IF b.size = 0 THEN Outcome(b, 1, Len(x), FALSE)
        ELSE Outcome(b, 0, 0, FALSE)

\* An object that fits is appended whole, and its octets counted; one that does
\* not leaves the buffer as it is; on the null buffer it is only counted.  Encode
\* never throws: no piece is written that does not fit (gs_encoder.cpp, the
\* Encode functions, that compare the length with the room first).
THEOREM EncodeWhole ==
    ASSUME NEW v, IsObject(v), NEW b, Len(b.data) \in Nat, b.size \in Nat
    PROVE  Encode(b, v) = Encoding(b, v)
<1> DEFINE pieces == Written(v)  x == ObjectOctets(v, <<>>)  l == Len(x)  d == Len(b.data)  z == b.size
           room == z - d
<1>1. /\ Sized(v) = pieces /\ pieces \in Seq(Strings) /\ FlattenSeq(pieces) = x
      /\ l \in Nat \ {0} /\ d \in Nat /\ z \in Nat
  BY WrittenOctets
<1>2. Octets(pieces) = x /\ Length(pieces) = l
  BY <1>1 DEF Octets, Length
<1>3. TooLarge(b, v) <=> d + l > z
  BY <1>1, <1>2 DEF TooLarge
<1> HIDE DEF pieces, x, l
<1>4. CASE d + l <= z
  <2>1. l <= room
    BY <1>1, <1>4
  <2> HIDE DEF room
  <2>2. Fitting(pieces, room) = Len(pieces) /\ SubSeq(pieces, 1, Len(pieces)) = pieces
    BY <1>1, <1>2, <2>1, FittingAll
  <2>3. Encode(b, v) = Write(b, pieces)
    <3>1. ~TooLarge(b, v)
      <4> HIDE DEF d, z
      <4> QED BY <1>1, <1>3, <1>4
    <3> QED BY <3>1, Zenon DEF Encode, pieces
  <2> DEFINE k == Len(pieces)  no == FALSE  one == 1  zero == 0
  <2>4. ~(k < k)
    <3>1. k \in Nat
      BY <1>1, LenProperties
    <3> HIDE DEF k
    <3> QED BY <3>1
  <2>5. Write(b, pieces) = Outcome([b EXCEPT !.data = @ \o Octets(SubSeq(pieces, 1, k))],
                                   IF k < k THEN zero ELSE one, IF k < k THEN zero ELSE Length(pieces), k < k)
    BY <2>2, Zenon DEF Write, room, d, z, k, zero, one
  <2>6. (k < k) = FALSE
    <3> HIDE DEF k
    <3> QED BY <2>4
  <2>7. Write(b, pieces) = Outcome([b EXCEPT !.data = @ \o x], 1, l, FALSE)
    <3> HIDE DEF k
    <3> QED BY <1>2, <2>2, <2>5, <2>6, Zenon DEF k, zero, one
  <2> QED BY <1>4, <2>3, <2>7, Zenon DEF Encoding, l, x, d, z
<1>5. CASE ~(d + l <= z)
  <2>1. d + l > z
    BY <1>1, <1>5
  <2>2. Encode(b, v) = IF z = 0 THEN Outcome(b, 1, Length(Sized(v)), FALSE) ELSE Outcome(b, 0, 0, FALSE)
    BY <1>3, <2>1, Zenon DEF Encode, z
  <2> QED BY <1>1, <1>2, <1>5, <2>2, Zenon DEF Encoding, l, x, d, z, pieces
<1> QED BY <1>4, <1>5

\* An object with no octets but those that are known.
LEMMA NoneFollows ==
    ASSUME NEW v, IsObject(v)
    PROVE  MayFollow(<<>>, v)
<1>1. IsData(<<>>)
  BY EmptySeq DEF IsData
<1>2. ASSUME v.kind # "Unknown" PROVE IsNumber(Len(BodyOctets(v) \o <<>>))
  <2> DEFINE x == BodyOctets(v)
  <2>1. IsData(x) /\ IsNumber(Len(x))
    BY <1>2, ObjectDescribed DEF Described
  <2> HIDE DEF x
  <2>2. x \o <<>> = x
    BY <2>1, ConcatEmptySeq DEF IsData
  <2> QED BY <2>1, <2>2 DEF x
<1> QED BY <1>1, <1>2 DEF MayFollow

\* What Encode has written is what Decode gives back: the octets it appended,
\* wherever they are found, are read as the object, and all of them are counted.
THEOREM EncodedIsDecoded ==
    ASSUME NEW v, IsObject(v), NEW s, IsData(s), NEW p \in Nat, StandsAt(Octets(Written(v)), s, p)
    PROVE  Decode(s, p) = Read(p + Length(Written(v)), Length(Written(v)), FALSE, v)
<1> DEFINE none == <<>>  x == ObjectOctets(v, none)
<1>1. Octets(Written(v)) = x /\ Length(Written(v)) = Len(x)
  BY WrittenOctets DEF Octets, Length
<1>2. MayFollow(none, v)
  BY NoneFollows
<1>3. ReadsBack(s, v, none, p)
  <2>1. StandsAt(ObjectOctets(v, none), s, p)
    BY <1>1
  <2> HIDE DEF none
  <2> QED BY <1>2, <2>1, RoundTrip
<1> QED BY <1>1, <1>3, Zenon DEF ReadsBack, Got
=============================================================================
