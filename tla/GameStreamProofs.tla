-------------------------- MODULE GameStreamProofs --------------------------
(***************************************************************************)
(* GameStream for any sizes, objects and losses: its types, that a reader  *)
(* is never left within an object it was not told of, and that the buffer  *)
(* is the queue of objects that ObjectQueue describes.                     *)
(***************************************************************************)
EXTENDS GameStream, CodecProofs

-----------------------------------------------------------------------------
(* Where the objects of a queue end.                                       *)

\* What may be put in a buffer.
Sendable == (UNION {Range(vs) : vs \in ObjectVectors}) \cup {p.object : p \in PeerObjects}

Stored == [object : Sendable, octets : Nat \ {0}]

\* The octets of the first objects of q: f[i] are those of i objects.
IsSum(f, q) == f = [i \in 0..Len(q) |-> IF i = 0 THEN 0 ELSE f[i - 1] + q[i].octets]

\* There is such a function.
LEMMA SumExists ==
    ASSUME NEW q, Len(q) \in Nat
    PROVE  \E f : IsSum(f, q)
<1> DEFINE n == Len(q)
           F(i, f) == IF i = 0 THEN 0 ELSE f[i - 1] + q[i].octets
           T == {k \in Nat : \E f : f = [i \in 0..k |-> F(i, f)]}
<1>1. 0 \in T
  <2> DEFINE f == [i \in 0..0 |-> 0]
  <2>1. f = [i \in 0..0 |-> F(i, f)]
    OBVIOUS
  <2> QED BY <2>1
<1>2. ASSUME NEW k \in Nat, k \in T PROVE k + 1 \in T
  <2>1. PICK f : f = [i \in 0..k |-> F(i, f)]
    BY <1>2
  <2> DEFINE g == [i \in 0..(k + 1) |-> IF i = k + 1 THEN F(k + 1, f) ELSE f[i]]
  <2>2. ASSUME NEW i \in 0..(k + 1) PROVE g[i] = F(i, g)
    <3>1. F(i, g) = F(i, f)
      <4>1. i # 0 => g[i - 1] = f[i - 1]
        OBVIOUS
      <4> HIDE DEF g
      <4> QED BY <4>1
    <3>2. CASE i = k + 1
      <4>1. g[i] = F(i, f)
        BY <3>2
      <4> HIDE DEF g, F
      <4> QED BY <3>1, <4>1
    <3>3. CASE i # k + 1
      <4>1. i \in 0..k /\ g[i] = f[i]
        BY <3>3
      <4>2. f[i] = F(i, f)
        BY <2>1, <4>1, Zenon
      <4> HIDE DEF g, F
      <4> QED BY <3>1, <4>1, <4>2
    <3> QED BY <3>2, <3>3
  <2>3. g = [i \in 0..(k + 1) |-> F(i, g)]
    <3>1. g = [i \in 0..(k + 1) |-> g[i]]
      OBVIOUS
    <3> HIDE DEF g, F
    <3> QED BY <2>2, <3>1, Zenon
  <2>4. k + 1 \in Nat
    OBVIOUS
  <2> HIDE DEF g, F
  <2> QED BY <2>3, <2>4
<1>3. n \in T
  <2> HIDE DEF T
  <2> QED BY <1>1, <1>2, Reaches
<1>4. PICK f : f = [i \in 0..n |-> F(i, f)]
  BY <1>3
<1> QED BY <1>4, Zenon DEF IsSum

\* OctetsOf is such a sum.
LEMMA SumTotal ==
    ASSUME NEW q, Len(q) \in Nat
    PROVE  \E f : IsSum(f, q) /\ OctetsOf(q) = f[Len(q)]
<1> DEFINE h == CHOOSE f : IsSum(f, q)
<1>1. IsSum(h, q)
  BY SumExists, Zenon
<1>2. OctetsOf(q) = h[Len(q)]
  BY Zenon DEF OctetsOf, IsSum
<1> HIDE DEF h
<1> QED BY <1>1, <1>2

\* The values of such a function.
LEMMA SumValues ==
    ASSUME NEW q, Len(q) \in Nat, NEW f, IsSum(f, q)
    PROVE  f[0] = 0 /\ \A i \in 1..Len(q) : f[i] = f[i - 1] + q[i].octets
<1> DEFINE n == Len(q)  F(i) == IF i = 0 THEN 0 ELSE f[i - 1] + q[i].octets
<1>1. f = [i \in 0..n |-> F(i)] /\ n \in Nat
  BY Zenon DEF IsSum
<1> HIDE DEF n
<1>2. \A i \in 0..n : f[i] = F(i)
  <2> HIDE DEF F
  <2> QED BY <1>1, Zenon
<1>3. 0 \in 0..n /\ \A i \in 1..n : i \in 0..n /\ i # 0
  BY <1>1
<1> QED BY <1>2, <1>3, Zenon DEF n

\* One more object adds its octets.
LEMMA TotalAppend ==
    ASSUME NEW q, Len(q) \in Nat, NEW u, NEW e, Len(u) = Len(q) + 1,
           \A i \in 1..Len(q) : u[i] = q[i], u[Len(q) + 1] = e
    PROVE  OctetsOf(u) = OctetsOf(q) + e.octets
<1> DEFINE n == Len(q)
<1>1. n \in Nat /\ Len(u) = n + 1 /\ (\A i \in 1..n : u[i] = q[i]) /\ u[n + 1] = e
  OBVIOUS
<1>2. PICK f : IsSum(f, q) /\ OctetsOf(q) = f[n]
  BY SumTotal
<1>3. PICK g : IsSum(g, u) /\ OctetsOf(u) = g[n + 1]
  BY <1>1, SumTotal
<1>4. f[0] = 0 /\ \A i \in 1..n : f[i] = f[i - 1] + q[i].octets
  BY <1>2, SumValues
<1>5. g[0] = 0 /\ \A i \in 1..(n + 1) : g[i] = g[i - 1] + u[i].octets
  <2>1. Len(u) \in Nat
    BY <1>1
  <2>2. g[0] = 0 /\ \A i \in 1..Len(u) : g[i] = g[i - 1] + u[i].octets
    BY <1>3, <2>1, SumValues
  <2> HIDE DEF n
  <2> QED BY <1>1, <2>2, Zenon
<1> HIDE DEF n
<1> DEFINE T == {k \in Nat : k <= n => g[k] = f[k]}
<1>6. 0 \in T
  BY <1>4, <1>5
<1>7. ASSUME NEW k \in Nat, k \in T PROVE k + 1 \in T
  <2> SUFFICES ASSUME k + 1 <= n PROVE g[k + 1] = f[k + 1]
    OBVIOUS
  <2>1. k + 1 \in 1..n /\ k + 1 \in 1..(n + 1) /\ (k + 1) - 1 = k /\ k <= n
    BY <1>1
  <2>2. u[k + 1] = q[k + 1] /\ g[k] = f[k]
    BY <1>1, <1>7, <2>1
  <2>3. g[k + 1] = g[k] + u[k + 1].octets /\ f[k + 1] = f[k] + q[k + 1].octets
    BY <1>4, <1>5, <2>1
  <2> QED BY <2>2, <2>3
<1>8. n \in T
  <2> HIDE DEF T
  <2> QED BY <1>1, <1>6, <1>7, Reaches
<1>9. g[n] = f[n] /\ n + 1 \in 1..(n + 1) /\ (n + 1) - 1 = n
  BY <1>1, <1>8
<1>10. g[n + 1] = g[n] + u[n + 1].octets
  BY <1>5, <1>9
<1> QED BY <1>1, <1>2, <1>3, <1>9, <1>10

\* No object has no octets.
LEMMA TotalEmpty == OctetsOf(<<>>) = 0
<1> DEFINE q == <<>>
<1>1. Len(q) = 0 /\ Len(q) \in Nat
  OBVIOUS
<1> HIDE DEF q
<1>2. PICK f : IsSum(f, q) /\ OctetsOf(q) = f[Len(q)]
  BY <1>1, SumTotal
<1>3. f[0] = 0
  BY <1>1, <1>2, SumValues
<1>4. OctetsOf(q) = 0
  BY <1>1, <1>2, <1>3
<1> QED BY <1>4 DEF q

\* The first objects of a queue.
LEMMA FirstPart ==
    ASSUME NEW S, NEW q \in Seq(S), NEW k \in 0..Len(q)
    PROVE  /\ SubSeq(q, 1, k) \in Seq(S) /\ Len(SubSeq(q, 1, k)) = k
           /\ \A i \in 1..k : SubSeq(q, 1, k)[i] = q[i]
<1>1. Len(q) \in Nat /\ k \in Nat /\ \A i \in 1..k : q[i] \in S
  BY LenProperties, ElementOfSeq
<1> DEFINE one == 1  u == SubSeq(q, one, k)
<1>2. /\ u \in Seq(S) /\ Len(u) = IF one <= k THEN k - one + 1 ELSE 0
      /\ \A i \in 1..(k - one + 1) : u[i] = q[one + i - 1]
  BY <1>1, SubSeqProperties
<1> HIDE DEF u
<1>3. Len(u) = k /\ k - one + 1 = k /\ \A i \in 1..k : one + i - 1 = i
  BY <1>1, <1>2
<1>4. \A i \in 1..k : u[i] = q[i]
  BY <1>2, <1>3
<1> QED BY <1>2, <1>3, <1>4 DEF u

\* Where the k-th object of q ends.
EndOf(q, k) == OctetsOf(SubSeq(q, 1, k))

\* The ends are the sums of the lengths, each further on than the one before.
LEMMA EndsOf ==
    ASSUME NEW q \in Seq(Stored)
    PROVE  /\ EndOf(q, 0) = 0 /\ EndOf(q, Len(q)) = OctetsOf(q) /\ Len(q) \in Nat
           /\ \A k \in 0..Len(q) : EndOf(q, k) \in Nat
           /\ \A k \in 1..Len(q) : /\ q[k] \in Stored /\ q[k].octets \in Nat \ {0}
                                   /\ EndOf(q, k) = EndOf(q, k - 1) + q[k].octets
<1> DEFINE n == Len(q)
<1>1. n \in Nat /\ \A k \in 1..n : q[k] \in Stored
  BY LenProperties, ElementOfSeq
<1>2. EndOf(q, 0) = 0
  <2> DEFINE u == SubSeq(q, 1, 0)
  <2>1. u = <<>>
    BY SubSeqEmpty
  <2>2. OctetsOf(u) = 0
    BY <2>1, TotalEmpty
  <2> QED BY <2>2 DEF EndOf
<1>3. EndOf(q, n) = OctetsOf(q)
  <2>1. SubSeq(q, 1, n) = q
    BY SubSeqFull
  <2> QED BY <2>1, Zenon DEF EndOf
<1>4. \A k \in 1..n : q[k].octets \in Nat \ {0}
  BY <1>1 DEF Stored
<1>5. ASSUME NEW k \in 1..n PROVE EndOf(q, k) = EndOf(q, k - 1) + q[k].octets
  <2> DEFINE j == k - 1  a == SubSeq(q, 1, j)  b == SubSeq(q, 1, k)  e == q[k]
  <2>1. k \in 0..n /\ j \in 0..n /\ k = j + 1
    BY <1>1
  <2>2. Len(a) = j /\ (\A i \in 1..j : a[i] = q[i]) /\ Len(b) = k /\ \A i \in 1..k : b[i] = q[i]
    <3> HIDE DEF j
    <3> QED BY <2>1, FirstPart
  <2> HIDE DEF a, b, j, e
  <2>3. Len(a) \in Nat /\ Len(b) = Len(a) + 1 /\ b[Len(a) + 1] = e
    BY <2>1, <2>2 DEF e
  <2>4. \A i \in 1..Len(a) : b[i] = a[i]
    BY <2>1, <2>2
  <2>5. OctetsOf(b) = OctetsOf(a) + e.octets
    BY <2>3, <2>4, TotalAppend
  <2> QED BY <2>5, Zenon DEF EndOf, a, b, e, j
<1>6. \A k \in 0..n : EndOf(q, k) \in Nat
  <2> DEFINE T == {k \in Nat : k <= n => EndOf(q, k) \in Nat}
  <2>1. 0 \in T
    BY <1>2
  <2>2. ASSUME NEW k \in Nat, k \in T PROVE k + 1 \in T
    <3> SUFFICES ASSUME k + 1 <= n PROVE EndOf(q, k + 1) \in Nat
      OBVIOUS
    <3> DEFINE j == k + 1
    <3>1. j \in 1..n /\ j - 1 = k /\ k <= n
      BY <1>1
    <3>2. EndOf(q, k) \in Nat
      BY <2>2, <3>1
    <3> HIDE DEF j
    <3> QED BY <1>4, <1>5, <3>1, <3>2
  <2>3. ASSUME NEW k \in 0..n PROVE EndOf(q, k) \in Nat
    <3>1. k \in Nat /\ k <= n
      BY <1>1
    <3>2. k \in T
      <4> HIDE DEF T
      <4> QED BY <2>1, <2>2, <3>1, Reaches
    <3> QED BY <3>1, <3>2
  <2> QED BY <2>3
<1> QED BY <1>1, <1>2, <1>3, <1>4, <1>5, <1>6

\* Objects end one after the other.
LEMMA EndsOrdered ==
    ASSUME NEW q \in Seq(Stored), NEW k \in 0..Len(q)
    PROVE  /\ \A j \in 0..k : EndOf(q, j) <= EndOf(q, k)
           /\ \A j \in 0..k : j # k => EndOf(q, j) < EndOf(q, k)
<1> DEFINE n == Len(q)
           T == {m \in Nat : m <= n => \A j \in 0..m : EndOf(q, j) <= EndOf(q, m)
                                                 /\ (j # m => EndOf(q, j) < EndOf(q, m))}
<1>1. /\ n \in Nat /\ \A i \in 0..n : EndOf(q, i) \in Nat
      /\ \A i \in 1..n : q[i].octets \in Nat \ {0} /\ EndOf(q, i) = EndOf(q, i - 1) + q[i].octets
  BY EndsOf
<1> HIDE DEF n
<1>2. 0 \in T
  BY <1>1
<1>3. ASSUME NEW m \in Nat, m \in T PROVE m + 1 \in T
  <2> DEFINE l == m + 1
  <2> SUFFICES ASSUME l <= n, NEW j \in 0..l
               PROVE  EndOf(q, j) <= EndOf(q, l) /\ (j # l => EndOf(q, j) < EndOf(q, l))
    OBVIOUS
  <2>1. l \in 1..n /\ l \in 0..n /\ m \in 0..n /\ l - 1 = m /\ m <= n
    BY <1>1
  <2>2. j = l \/ j \in 0..m
    OBVIOUS
  <2> HIDE DEF l
  <2>3. EndOf(q, m) < EndOf(q, l) /\ EndOf(q, m) \in Nat /\ EndOf(q, l) \in Nat
    <3>1. q[l].octets \in Nat \ {0} /\ EndOf(q, l) = EndOf(q, l - 1) + q[l].octets
      BY <1>1, <2>1
    <3>2. EndOf(q, l - 1) = EndOf(q, m) /\ EndOf(q, m) \in Nat
      BY <1>1, <2>1
    <3> QED BY <3>1, <3>2
  <2>4. CASE j = l
    BY <2>3, <2>4
  <2>5. CASE j \in 0..m
    <3>1. EndOf(q, j) <= EndOf(q, m) /\ EndOf(q, j) \in Nat
      BY <1>1, <1>3, <2>1, <2>5
    <3> QED BY <2>3, <3>1
  <2> QED BY <2>2, <2>4, <2>5
<1>4. k \in Nat /\ k <= n
  BY <1>1 DEF n
<1>5. k \in T
  <2> HIDE DEF T
  <2> QED BY <1>2, <1>3, <1>4, Reaches
<1> QED BY <1>4, <1>5

\* Two queues that begin with the same objects.
LEMMA EndsEqual ==
    ASSUME NEW q \in Seq(Stored), NEW u \in Seq(Stored), NEW k \in 0..Len(q), k <= Len(u),
           \A i \in 1..k : q[i] = u[i]
    PROVE  EndOf(q, k) = EndOf(u, k)
<1> DEFINE a == SubSeq(q, 1, k)  b == SubSeq(u, 1, k)  S == Stored
<1>1. k \in 0..Len(u)
  BY LenProperties
<1> HIDE DEF S
<1>2. a \in Seq(S) /\ Len(a) = k /\ (\A i \in 1..k : a[i] = q[i])
  <2>1. q \in Seq(S) /\ k \in 0..Len(q)
    BY DEF S
  <2> QED BY <2>1, FirstPart
<1>3. b \in Seq(S) /\ Len(b) = k /\ \A i \in 1..k : b[i] = u[i]
  <2>1. u \in Seq(S)
    BY DEF S
  <2> QED BY <1>1, <2>1, FirstPart
<1> HIDE DEF a, b
<1>4. a = b
  <2>1. Len(a) = Len(b) /\ \A i \in 1..Len(a) : a[i] = b[i]
    BY <1>2, <1>3
  <2> QED BY <1>2, <1>3, <2>1, SeqEqual
<1> QED BY <1>4, Zenon DEF EndOf, a, b

-----------------------------------------------------------------------------
(* Objects in the buffer.                                                  *)

\* The k-th object of q is where the one before it ends, with the octets extra
\* that are not understood.
HoldsAt(q, s, k, extra) ==
    /\ MayFollow(extra, q[k].object)
    /\ q[k].octets = Len(ObjectOctets(q[k].object, extra))
    /\ StandsAt(ObjectOctets(q[k].object, extra), s, EndOf(q, k - 1))

InPlace(q, s) == \A k \in 1..Len(q) : \E extra : HoldsAt(q, s, k, extra)

\* And nothing follows the last of them.
Filling(q, s) == InPlace(q, s) /\ EndOf(q, Len(q)) = Len(s)

\* What may be sent is an object.
LEMMA SendableIsObject ==
    ASSUME NEW v \in Sendable
    PROVE  IsObject(v)
<1>1. CASE \E vs \in ObjectVectors : v \in Range(vs)
  BY <1>1, StreamAssumption, Zenon
<1>2. CASE \E p \in PeerObjects : v = p.object
  BY <1>2, StreamAssumption, Zenon
<1> DEFINE A == {Range(vs) : vs \in ObjectVectors}  B == {p.object : p \in PeerObjects}
<1>3. v \in UNION A => \E vs \in ObjectVectors : v \in Range(vs)
  <2>1. v \in UNION A => \E X \in A : v \in X
    OBVIOUS
  <2> QED BY <2>1, Zenon
<1>4. v \in B => \E p \in PeerObjects : v = p.object
  BY Zenon
<1>5. v \in UNION A \/ v \in B
  BY DEF Sendable
<1> HIDE DEF A, B
<1> QED BY <1>1, <1>2, <1>3, <1>4, <1>5

\* u is q with one more object.
Lengthened(q, u, e) ==
    /\ u \in Seq(Stored) /\ Len(u) = Len(q) + 1 /\ u[Len(q) + 1] = e
    /\ \A i \in 1..Len(q) : u[i] = q[i]

\* What is in place stays there when octets are added.
LEMMA StaysInPlace ==
    ASSUME NEW q \in Seq(Stored), NEW u \in Seq(Stored), NEW s, IsData(s), NEW x, IsData(x),
           NEW k \in 1..Len(q), k <= Len(u), \A i \in 1..k : q[i] = u[i],
           NEW extra, HoldsAt(q, s, k, extra)
    PROVE  HoldsAt(u, s \o x, k, extra)
<1> DEFINE v == q[k].object  t == ObjectOctets(v, extra)  p == EndOf(q, k - 1)
<1>1. k \in 1..Len(q) /\ k - 1 \in 0..Len(q) /\ k - 1 <= Len(u) /\ u[k] = q[k]
  <2>1. Len(q) \in Nat /\ Len(u) \in Nat /\ k \in 1..k
    BY LenProperties
  <2> QED BY <2>1
<1>2. p \in Nat /\ q[k] \in Stored
  BY <1>1, EndsOf
<1>3. EndOf(u, k - 1) = p
  <2> DEFINE j == k - 1
  <2>1. \A i \in 1..j : q[i] = u[i]
    BY <1>1
  <2>2. j \in 0..Len(q) /\ j <= Len(u)
    BY <1>1
  <2> HIDE DEF j
  <2>3. EndOf(q, j) = EndOf(u, j)
    BY <2>1, <2>2, EndsEqual
  <2> QED BY <2>3 DEF j
<1>4. MayFollow(extra, v) /\ q[k].octets = Len(t) /\ StandsAt(t, s, p)
  BY Zenon DEF HoldsAt
<1>5. IsData(t)
  <2>1. v \in Sendable
    BY <1>2 DEF Stored
  <2> QED BY <1>4, <2>1, SendableIsObject, ObjectShape
<1>6. StandsAt(t, s \o x, p)
  <2> HIDE DEF t, p
  <2> QED BY <1>2, <1>4, <1>5, StandsLonger DEF IsData
<1> QED BY <1>1, <1>3, <1>4, <1>6, Zenon DEF HoldsAt

\* An object appended to a full buffer's data is in place.
LEMMA StoredInPlace ==
    ASSUME NEW q \in Seq(Stored), NEW s, IsData(s), Filling(q, s),
           NEW v \in Sendable, NEW extra, MayFollow(extra, v),
           NEW x, x = ObjectOctets(v, extra), NEW e, e.object = v, e.octets = Len(x),
           NEW u, Lengthened(q, u, e)
    PROVE  Filling(u, s \o x)
<1> DEFINE n == Len(q)  m == Len(q) + 1
<1>1. n \in Nat /\ EndOf(q, n) = Len(s) /\ \A k \in 1..n : \E y : HoldsAt(q, s, k, y)
  BY LenProperties DEF Filling, InPlace
<1>2. u \in Seq(Stored) /\ Len(u) = m /\ u[m] = e /\ \A i \in 1..n : u[i] = q[i]
  BY DEF Lengthened
<1>3. IsData(x) /\ Len(x) \in Nat /\ Len(s) \in Nat
  BY SendableIsObject, ObjectShape, LenProperties DEF IsData
<1>4. ASSUME NEW k \in 1..n PROVE \E y : HoldsAt(u, s \o x, k, y)
  <2>1. PICK y : HoldsAt(q, s, k, y)
    BY <1>1
  <2>2. k <= Len(u) /\ \A i \in 1..k : q[i] = u[i]
    BY <1>1, <1>2
  <2>3. HoldsAt(u, s \o x, k, y)
    BY <1>2, <1>3, <2>1, <2>2, StaysInPlace
  <2> QED BY <2>3
<1>5. EndOf(u, n) = Len(s)
  <2> HIDE DEF n
  <2>1. n \in 0..Len(q) /\ n <= Len(u) /\ \A i \in 1..n : q[i] = u[i]
    BY <1>1, <1>2 DEF n
  <2>2. EndOf(q, n) = EndOf(u, n)
    BY <1>2, <2>1, EndsEqual
  <2> QED BY <1>1, <2>2
<1>6. StandsAt(x, s \o x, Len(s))
  <2> DEFINE d == Len(s)
  <2>1. d \in Nat
    BY <1>3
  <2> HIDE DEF d
  <2>2. s \in Seq(Byte) /\ x \in Seq(Byte)
    BY <1>3 DEF IsData
  <2> QED BY <2>1, <2>2, StandsLonger
<1>7. m - 1 = n /\ m \in 1..Len(u)
  BY <1>1, <1>2
<1>8. HoldsAt(u, s \o x, m, extra)
  <2>1. EndOf(u, m - 1) = Len(s)
    BY <1>5, <1>7
  <2> HIDE DEF m
  <2> QED BY <1>2, <1>6, <2>1, Zenon DEF HoldsAt
<1>9. InPlace(u, s \o x)
  <2>1. ASSUME NEW k \in 1..Len(u) PROVE \E y : HoldsAt(u, s \o x, k, y)
    <3>1. k \in 1..n \/ k = m
      BY <1>1, <1>2
    <3> QED BY <1>4, <1>8, <3>1
  <2> QED BY <2>1, Zenon DEF InPlace
<1>10. EndOf(u, m) = Len(s) + Len(x)
  <2>1. EndOf(u, m) = EndOf(u, m - 1) + u[m].octets
    <3> HIDE DEF m
    <3> QED BY <1>2, <1>7, EndsOf
  <2> QED BY <1>2, <1>5, <1>7, <2>1
<1>11. Len(s \o x) = Len(s) + Len(x)
  BY <1>3, ConcatProperties DEF IsData
<1> HIDE DEF m
<1> QED BY <1>2, <1>9, <1>10, <1>11 DEF Filling

\* What is left of a buffer that has lost octets: the objects that end before,
\* and a part of the next one.
Remains(q, s) ==
    /\ EndOf(q, Len(q)) < Len(s)
    /\ \E v \in Sendable : \E extra :
          MayFollow(extra, v) /\ StandsCut(ObjectOctets(v, extra), s, EndOf(q, Len(q)))

\* The last k for which the first k objects end within n octets.
LastWithin(q, n, k) ==
    /\ k \in 0..Len(q) /\ EndOf(q, k) <= n
    /\ \A j \in 0..Len(q) : EndOf(q, j) <= n => j <= k

\* A prefix of the data holds the objects that end within it, and then the
\* remains of the next one, if it does not end with one of them.
LEMMA Truncated ==
    ASSUME NEW q \in Seq(Stored), NEW s, IsData(s), Filling(q, s),
           NEW n \in Nat, n < Len(s), NEW k, LastWithin(q, n, k)
    PROVE  LET u == SubSeq(q, 1, k)  t == SubSeq(s, 1, n)
           IN  /\ u \in Seq(Stored) /\ Len(u) = k /\ k < Len(q) /\ EndOf(u, k) = EndOf(q, k)
               /\ IsData(t) /\ Len(t) = n
               /\ InPlace(u, t)
               /\ EndOf(q, k) < n => Remains(u, t)
<1> DEFINE u == SubSeq(q, 1, k)  t == SubSeq(s, 1, n)
<1>1. k \in 0..Len(q) /\ EndOf(q, k) <= n /\ \A j \in 0..Len(q) : EndOf(q, j) <= n => j <= k
  BY DEF LastWithin
<1>2. u \in Seq(Stored) /\ Len(u) = k /\ \A i \in 1..k : u[i] = q[i]
  BY <1>1, FirstPart
<1>3. s \in Seq(Byte) /\ n \in 0..Len(s) /\ n <= Len(s) /\ Len(s) \in Nat
  BY LenProperties DEF IsData
<1>4. t \in Seq(Byte) /\ Len(t) = n
  BY <1>3, FirstPart
<1>5. /\ Len(q) \in Nat /\ EndOf(q, Len(q)) = Len(s)
      /\ \A i \in 1..Len(q) : \E y : HoldsAt(q, s, i, y)
  BY LenProperties DEF Filling, InPlace
<1>6. k < Len(q) /\ k \in Nat
  <2>1. k # Len(q)
    BY <1>1, <1>3, <1>5
  <2> QED BY <1>1, <1>5, <2>1
<1> HIDE DEF u
<1>7. ASSUME NEW i \in 0..k PROVE EndOf(u, i) = EndOf(q, i)
  <2>1. i \in 0..Len(q) /\ i <= Len(u) /\ \A j \in 1..i : q[j] = u[j]
    BY <1>2, <1>6, <1>7
  <2> QED BY <1>2, <2>1, EndsEqual
<1>8. ASSUME NEW i \in 1..Len(q), NEW y, HoldsAt(q, s, i, y)
      PROVE  LET p == EndOf(q, i - 1)  x == ObjectOctets(q[i].object, y)
             IN  /\ p \in Nat /\ IsData(x) /\ EndOf(q, i) = p + Len(x)
                 /\ MayFollow(y, q[i].object) /\ q[i].object \in Sendable
                 /\ q[i].octets = Len(x) /\ StandsAt(x, s, p)
                 /\ p + Len(x) <= n => StandsAt(x, t, p)
                 /\ p <= n /\ n < p + Len(x) => StandsCut(x, t, p)
  <2> DEFINE p == EndOf(q, i - 1)  v == q[i].object  x == ObjectOctets(v, y)
  <2>1. i - 1 \in 0..Len(q)
    BY <1>5
  <2>2. p \in Nat /\ EndOf(q, i) = p + q[i].octets /\ q[i] \in Stored
    BY <2>1, EndsOf
  <2>3. MayFollow(y, v) /\ q[i].octets = Len(x) /\ StandsAt(x, s, p)
    BY <1>8, Zenon DEF HoldsAt
  <2>4. v \in Sendable
    BY <2>2 DEF Stored
  <2>5. IsData(x)
    BY <2>3, <2>4, SendableIsObject, ObjectShape
  <2> HIDE DEF p, x, v
  <2>6. /\ p + Len(x) <= n => StandsAt(x, t, p)
        /\ p <= n /\ n < p + Len(x) => StandsCut(x, t, p)
    BY <1>3, <2>2, <2>3, <2>5, StandsShorter DEF IsData
  <2> QED BY <2>2, <2>3, <2>4, <2>5, <2>6 DEF p, x, v
<1>9. ASSUME NEW i \in 1..k PROVE \E y : HoldsAt(u, t, i, y)
  <2>1. i \in 1..Len(q) /\ i - 1 \in 0..k /\ i \in 0..k
    BY <1>6
  <2>2. PICK y : HoldsAt(q, s, i, y)
    BY <1>5, <2>1
  <2> DEFINE p == EndOf(q, i - 1)  x == ObjectOctets(q[i].object, y)
  <2>3. /\ p \in Nat /\ IsData(x) /\ EndOf(q, i) = p + Len(x)
        /\ MayFollow(y, q[i].object) /\ q[i].octets = Len(x)
        /\ p + Len(x) <= n => StandsAt(x, t, p)
    BY <1>8, <2>1, <2>2
  <2>4. EndOf(q, i) <= EndOf(q, k)
    BY <1>1, <2>1, EndsOrdered
  <2>5. EndOf(q, i) \in Nat /\ EndOf(q, k) \in Nat
    BY <1>1, <2>1, <1>6, EndsOf
  <2>6. p + Len(x) <= n
    BY <1>1, <2>3, <2>4, <2>5
  <2>7. EndOf(u, i - 1) = p /\ u[i] = q[i]
    BY <1>2, <1>7, <2>1
  <2>8. HoldsAt(u, t, i, y)
    BY <2>3, <2>6, <2>7, Zenon DEF HoldsAt
  <2> QED BY <2>8
<1>10. InPlace(u, t)
  BY <1>2, <1>9, Zenon DEF InPlace
<1>11. EndOf(u, k) = EndOf(q, k)
  BY <1>6, <1>7
<1>12. ASSUME EndOf(q, k) < n PROVE Remains(u, t)
  <2> DEFINE m == k + 1
  <2>1. m \in 1..Len(q) /\ m \in 0..Len(q) /\ m - 1 = k /\ ~(m <= k)
    BY <1>6
  <2>2. PICK y : HoldsAt(q, s, m, y)
    BY <1>5, <2>1
  <2> DEFINE p == EndOf(q, m - 1)  v == q[m].object  x == ObjectOctets(v, y)
  <2>3. /\ p \in Nat /\ IsData(x) /\ EndOf(q, m) = p + Len(x)
        /\ MayFollow(y, v) /\ v \in Sendable
        /\ p <= n /\ n < p + Len(x) => StandsCut(x, t, p)
    BY <1>8, <2>1, <2>2
  <2>4. p = EndOf(q, k)
    BY <2>1
  <2>5. ~(EndOf(q, m) <= n)
    BY <1>1, <2>1
  <2>6. EndOf(q, m) \in Nat
    BY <2>1, EndsOf
  <2> HIDE DEF p, x, v, m
  <2>7. StandsCut(x, t, p)
    BY <1>12, <2>3, <2>4, <2>5, <2>6
  <2>8. EndOf(u, Len(u)) = p
    BY <1>2, <1>11, <2>4
  <2>9. EndOf(u, Len(u)) < Len(t)
    BY <1>4, <1>12, <2>4, <2>8
  <2> QED BY <2>3, <2>7, <2>8, <2>9, Zenon DEF Remains, x
<1> QED BY <1>2, <1>4, <1>6, <1>10, <1>11, <1>12 DEF u, IsData

-----------------------------------------------------------------------------
(* A vector of objects, encoded one after the other.                       *)

\* What Encoded puts in the queue for the first k objects.
NewEntries(vs, k) == [i \in 1..k |-> [object |-> vs[i], octets |-> Length(Written(vs[i]))]]

\* The octets of an object.
OwnOctets(v) == ObjectOctets(v, <<>>)

\* An object that can be sent has octets, and Length says how many.
LEMMA OwnOctetsShape ==
    ASSUME NEW v \in Sendable
    PROVE  /\ IsObject(v) /\ MayFollow(<<>>, v) /\ IsData(OwnOctets(v))
           /\ Len(OwnOctets(v)) \in Nat \ {0} /\ Length(Written(v)) = Len(OwnOctets(v))
<1>1. IsObject(v)
  BY SendableIsObject
<1>2. FlattenSeq(Written(v)) = OwnOctets(v) /\ IsData(OwnOctets(v)) /\ Len(OwnOctets(v)) \in Nat \ {0}
  BY <1>1, WrittenOctets DEF OwnOctets
<1>3. Length(Written(v)) = Len(OwnOctets(v))
  BY <1>2, Zenon DEF Length, Octets
<1> QED BY <1>1, <1>2, <1>3, NoneFollows

\* Entries are stored.
LEMMA NewStored ==
    ASSUME NEW vs \in Seq(Sendable), NEW k \in 0..Len(vs)
    PROVE  /\ NewEntries(vs, k) \in Seq(Stored) /\ Len(NewEntries(vs, k)) = k
           /\ \A i \in 1..k : /\ NewEntries(vs, k)[i].object = vs[i] /\ vs[i] \in Sendable
                              /\ NewEntries(vs, k)[i].octets = Len(OwnOctets(vs[i]))
<1> DEFINE F(i) == [object |-> vs[i], octets |-> Length(Written(vs[i]))]
           u == [i \in 1..k |-> F(i)]
<1>1. k \in Nat /\ \A i \in 1..k : vs[i] \in Sendable
  BY LenProperties, ElementOfSeq
<1>2. ASSUME NEW i \in 1..k
      PROVE  F(i) \in Stored /\ F(i).object = vs[i] /\ F(i).octets = Len(OwnOctets(vs[i]))
  <2> DEFINE v == vs[i]  n == Length(Written(v))
  <2>1. v \in Sendable /\ n \in Nat \ {0} /\ n = Len(OwnOctets(v))
    BY <1>1, OwnOctetsShape
  <2> HIDE DEF v, n
  <2>2. [object |-> v, octets |-> n] \in Stored
    BY <2>1 DEF Stored
  <2> QED BY <2>1, <2>2 DEF v, n
<1> HIDE DEF F
<1>3. u \in [1..k -> Stored]
  BY <1>2
<1>4. u \in Seq(Stored) /\ Len(u) = k
  BY <1>1, <1>3, SeqDef
<1>5. NewEntries(vs, k) = u
  BY Zenon DEF NewEntries, F
<1> QED BY <1>1, <1>2, <1>4, <1>5

\* One more of them.
LEMMA LengthenedEntry ==
    ASSUME NEW vs \in Seq(Sendable), NEW k \in Nat, k < Len(vs), NEW q \in Seq(Stored)
    PROVE  /\ OctetsOf(NewEntries(vs, k + 1)) = OctetsOf(NewEntries(vs, k)) + Len(OwnOctets(vs[k + 1]))
           /\ Lengthened(q \o NewEntries(vs, k), q \o NewEntries(vs, k + 1), NewEntries(vs, k + 1)[k + 1])
           /\ q \o NewEntries(vs, k) \in Seq(Stored)
<1> DEFINE l == k + 1  a == NewEntries(vs, k)  b == NewEntries(vs, l)  m == Len(q)
<1>1. k \in 0..Len(vs) /\ l \in 0..Len(vs) /\ l \in 1..l /\ k \in Nat /\ m \in Nat
  BY LenProperties
<1>2. a \in Seq(Stored) /\ Len(a) = k
  BY <1>1, NewStored
<1>3. b \in Seq(Stored) /\ Len(b) = l /\ b[l].octets = Len(OwnOctets(vs[l]))
  <2> HIDE DEF l
  <2> QED BY <1>1, NewStored
<1>4. \A i \in 1..k : b[i] = a[i]
  <2> DEFINE F(i) == [object |-> vs[i], octets |-> Length(Written(vs[i]))]
  <2>1. a = [i \in 1..k |-> F(i)] /\ b = [i \in 1..l |-> F(i)]
    BY Zenon DEF NewEntries
  <2> HIDE DEF F, a, b
  <2> QED BY <2>1
<1> HIDE DEF a, b
<1>5. OctetsOf(b) = OctetsOf(a) + b[l].octets
  <2>1. Len(a) \in Nat /\ Len(b) = Len(a) + 1 /\ b[Len(a) + 1] = b[l] /\ \A i \in 1..Len(a) : b[i] = a[i]
    BY <1>1, <1>2, <1>3, <1>4
  <2> HIDE DEF l
  <2> QED BY <2>1, TotalAppend
<1>6. /\ q \o a \in Seq(Stored) /\ Len(q \o a) = m + k
      /\ \A i \in 1..(m + k) : (q \o a)[i] = IF i <= m THEN q[i] ELSE a[i - m]
  BY <1>2, ConcatProperties
<1>7. /\ q \o b \in Seq(Stored) /\ Len(q \o b) = m + l
      /\ \A i \in 1..(m + l) : (q \o b)[i] = IF i <= m THEN q[i] ELSE b[i - m]
  <2>1. b \in Seq(Stored) /\ q \in Seq(Stored) /\ Len(b) = l
    BY <1>3
  <2> HIDE DEF l
  <2> QED BY <2>1, ConcatProperties
<1> DEFINE x == q \o a  y == q \o b
<1> HIDE DEF x, y, m
<1>8. y[m + l] = b[l]
  <2>1. m + l \in 1..(m + l) /\ ~(m + l <= m) /\ (m + l) - m = l
    BY <1>1
  <2> HIDE DEF l
  <2> QED BY <1>7, <2>1 DEF y
<1>9. ASSUME NEW i \in 1..(m + k) PROVE y[i] = x[i]
  <2>1. i \in 1..(m + l)
    BY <1>1
  <2>2. CASE i <= m
    BY <1>6, <1>7, <2>1, <2>2 DEF x, y
  <2>3. CASE ~(i <= m)
    <3>1. i - m \in 1..k
      BY <1>1, <2>3
    <3>2. y[i] = b[i - m] /\ x[i] = a[i - m]
      BY <1>6, <1>7, <2>1, <2>3 DEF x, y
    <3> QED BY <1>4, <3>1, <3>2
  <2> QED BY <2>2, <2>3
<1>10. Lengthened(x, y, b[l])
  <2>1. y \in Seq(Stored) /\ Len(y) = m + l /\ Len(x) = m + k
    BY <1>6, <1>7 DEF x, y
  <2>2. m + l = Len(x) + 1
    BY <1>1, <2>1
  <2>3. y[Len(x) + 1] = b[l]
    BY <1>8, <2>2
  <2>4. \A i \in 1..Len(x) : y[i] = x[i]
    BY <1>9, <2>1
  <2>5. Len(y) = Len(x) + 1
    BY <2>1, <2>2
  <2> HIDE DEF l
  <2> QED BY <2>1, <2>3, <2>4, <2>5 DEF Lengthened
<1> QED BY <1>3, <1>5, <1>6, <1>10 DEF x, y, a, b

\* The buffer b with other data.
Holding(b, d) == [size |-> b.size, data |-> d, read |-> b.read]

IsBuffer(b) == b = Holding(b, b.data) /\ b.size \in Nat /\ IsData(b.data) /\ Len(b.data) <= b.size

\* The first i objects have been given to Encode: k of them, n octets, are in
\* the data d, or have been measured, and the next does not fit.
Reached(b, vs, i, d, k, n) ==
    /\ k \in 0..i /\ n = OctetsOf(NewEntries(vs, k)) /\ n \in Nat
    /\ IsData(d) /\ Len(d) <= b.size
    /\ b.size = 0 => k = i /\ d = b.data
    /\ b.size # 0 => Len(d) = Len(b.data) + n
    /\ k < i => Len(d) + Len(OwnOctets(vs[k + 1])) > b.size
    /\ \A q \in Seq(Stored) : b.size # 0 /\ Filling(q, b.data) => Filling(q \o NewEntries(vs, k), d)

\* An outcome without an exception, of k objects and n octets.
Made(r, c, k, n) == r = Outcome(c, k, n, FALSE)

\* The fields of such an outcome.
LEMMA MadeFields ==
    ASSUME NEW r, NEW c, NEW k, NEW n, Made(r, c, k, n)
    PROVE  r.buffer = c /\ r.objects = k /\ r.octets = n /\ r.threw = FALSE
  BY DEF Made, Outcome

Progress(b, vs, i, r) == \E d, k, n : Made(r, Holding(b, d), k, n) /\ Reached(b, vs, i, d, k, n)

\* Nothing has been encoded.
LEMMA NoProgress ==
    ASSUME NEW b, IsBuffer(b), NEW vs \in Seq(Sendable)
    PROVE  Progress(b, vs, 0, Outcome(b, 0, 0, FALSE))
<1> DEFINE zero == 0  a == NewEntries(vs, zero)
<1>1. zero \in 0..Len(vs)
  BY LenProperties
<1>2. Len(a) = zero /\ a \in Seq(Stored)
  <2> HIDE DEF zero
  <2> QED BY <1>1, NewStored
<1>3. a = <<>>
  <2> HIDE DEF a
  <2> QED BY <1>2, EmptySeq
<1>4. OctetsOf(a) = 0
  BY <1>3, TotalEmpty
<1>5. \A q \in Seq(Stored) : q \o a = q
  BY <1>3, ConcatEmptySeq
<1>6. b.size \in Nat /\ IsData(b.data) /\ Len(b.data) <= b.size /\ Len(b.data) \in Nat
  BY LenProperties DEF IsBuffer, IsData
<1> HIDE DEF a
<1>7. zero \in 0..zero /\ zero = OctetsOf(a) /\ zero \in Nat /\ ~(zero < zero)
      /\ Len(b.data) = Len(b.data) + zero
  BY <1>4, <1>6
<1>8. \A q \in Seq(Stored) : b.size # 0 /\ Filling(q, b.data) => Filling(q \o a, b.data)
  BY <1>5, Zenon
<1> HIDE DEF zero
<1>9. Reached(b, vs, zero, b.data, zero, zero)
  BY <1>6, <1>7, <1>8, Zenon DEF Reached, a
<1>10. b = Holding(b, b.data)
  BY Zenon DEF IsBuffer
<1>11. Made(Outcome(b, zero, zero, FALSE), Holding(b, b.data), zero, zero)
  BY <1>10, Zenon DEF Made
<1> QED BY <1>9, <1>11, Zenon DEF Progress, zero

\* Encode on a buffer that holds d.
LEMMA EncodeHolding ==
    ASSUME NEW b, b.size \in Nat, NEW d, IsData(d), NEW v \in Sendable,
           NEW x, x = OwnOctets(v), NEW l, l = Len(x)
    PROVE  /\ Len(d) + l <= b.size =>
                Made(Encode(Holding(b, d), v), Holding(b, d \o x), 1, l)
           /\ Len(d) + l > b.size /\ b.size = 0 =>
                Made(Encode(Holding(b, d), v), Holding(b, d), 1, l)
           /\ Len(d) + l > b.size /\ b.size # 0 =>
                Made(Encode(Holding(b, d), v), Holding(b, d), 0, 0)
<1> DEFINE c == Holding(b, d)  z == b.size
<1>1. c.data = d /\ c.size = z /\ [c EXCEPT !.data = d \o x] = Holding(b, d \o x)
  <2> DEFINE y == d \o x
  <2> HIDE DEF y
  <2>1. [c EXCEPT !.data = y] = Holding(b, y)
    BY DEF Holding
  <2>2. c.data = d /\ c.size = z
    BY DEF Holding
  <2> QED BY <2>1, <2>2 DEF y
<1>2. Len(d) \in Nat /\ l \in Nat /\ IsObject(v)
  BY OwnOctetsShape, LenProperties DEF IsData
<1> HIDE DEF c
<1>3. Encode(c, v) = Encoding(c, v)
  BY <1>1, <1>2, EncodeWhole
<1> DEFINE m == Len(d) + l
<1>5. Encode(c, v) = IF m <= z THEN Outcome([c EXCEPT !.data = d \o x], 1, l, FALSE)
                     ELSE IF z = 0 THEN Outcome(c, 1, l, FALSE) ELSE Outcome(c, 0, 0, FALSE)
  BY <1>1, <1>3, Zenon DEF Encoding, OwnOctets
<1>6. m > z => ~(m <= z)
  BY <1>2
<1> HIDE DEF m, z
<1> QED BY <1>1, <1>5, <1>6, Zenon DEF c, m, z, Made

\* What has been encoded and the i-th object.
Adding(vs, r, i) == IF r.threw \/ r.objects < i - 1 THEN r ELSE Both(r, Encode(r.buffer, vs[i]))

\* One object more, encoded or not, is progress still.
LEMMA ProgressFurther ==
    ASSUME NEW b, IsBuffer(b), NEW vs \in Seq(Sendable), NEW j \in Nat, j < Len(vs),
           NEW r, Progress(b, vs, j, r)
    PROVE  Progress(b, vs, j + 1, Adding(vs, r, j + 1))
<1> DEFINE i == j + 1
<1>1. PICK d, k, n : Made(r, Holding(b, d), k, n) /\ Reached(b, vs, j, d, k, n)
  BY Zenon DEF Progress
<1>2. r.buffer = Holding(b, d) /\ r.objects = k /\ r.octets = n /\ r.threw = FALSE
  BY <1>1, MadeFields
<1>3. /\ k \in 0..j /\ n = OctetsOf(NewEntries(vs, k)) /\ n \in Nat
      /\ IsData(d) /\ Len(d) <= b.size
      /\ b.size = 0 => k = j /\ d = b.data
      /\ b.size # 0 => Len(d) = Len(b.data) + n
      /\ k < j => Len(d) + Len(OwnOctets(vs[k + 1])) > b.size
      /\ \A q \in Seq(Stored) : b.size # 0 /\ Filling(q, b.data) => Filling(q \o NewEntries(vs, k), d)
  BY <1>1, Zenon DEF Reached
<1>4. b.size \in Nat /\ Len(d) \in Nat /\ Len(b.data) \in Nat /\ i - 1 = j /\ i \in 1..Len(vs) /\ k \in Nat
  BY <1>3, LenProperties DEF IsBuffer, IsData
<1>5. CASE k < j
  <2>1. Adding(vs, r, i) = r
    BY <1>2, <1>4, <1>5, Zenon DEF Adding
  <2>2. k \in 0..i /\ b.size # 0
    BY <1>3, <1>5
  <2> HIDE DEF i
  <2>3. Reached(b, vs, i, d, k, n)
    BY <1>3, <1>5, <2>2, Zenon DEF Reached
  <2>4. Progress(b, vs, i, r)
    BY <1>1, <2>3, Zenon DEF Progress
  <2> QED BY <2>1, <2>4 DEF i
<1>6. CASE k = j
  <2> DEFINE v == vs[i]  x == OwnOctets(v)  l == Len(x)  e == Encode(Holding(b, d), v)  t == Adding(vs, r, i)
  <2>1. v \in Sendable
    BY <1>4, ElementOfSeq
  <2>2. IsData(x) /\ l \in Nat \ {0} /\ MayFollow(<<>>, v)
    BY <2>1, OwnOctetsShape
  <2>3. t = Outcome(e.buffer, k + e.objects, n + e.octets, e.threw)
    <3>1. ~(r.objects < i - 1)
      BY <1>2, <1>4, <1>6
    <3>2. t = Both(r, Encode(r.buffer, vs[i]))
      BY <1>2, <3>1, Zenon DEF Adding
    <3> QED BY <1>2, <3>2, Zenon DEF Both
  <2>4. /\ OctetsOf(NewEntries(vs, i)) = n + l
        /\ \A q \in Seq(Stored) : /\ Lengthened(q \o NewEntries(vs, k), q \o NewEntries(vs, i), NewEntries(vs, i)[i])
                                  /\ q \o NewEntries(vs, k) \in Seq(Stored)
    <3>1. k < Len(vs) /\ k + 1 = i
      BY <1>4, <1>6
    <3>2. \A q \in Seq(Stored) :
             /\ OctetsOf(NewEntries(vs, k + 1)) = OctetsOf(NewEntries(vs, k)) + Len(OwnOctets(vs[k + 1]))
             /\ Lengthened(q \o NewEntries(vs, k), q \o NewEntries(vs, k + 1), NewEntries(vs, k + 1)[k + 1])
             /\ q \o NewEntries(vs, k) \in Seq(Stored)
      BY <1>4, <3>1, LengthenedEntry
    <3>3. <<>> \in Seq(Stored)
      BY EmptySeq
    <3> HIDE DEF i
    <3> QED BY <1>3, <3>1, <3>2, <3>3 DEF x, v, l
  <2>5. NewEntries(vs, i)[i].object = v /\ NewEntries(vs, i)[i].octets = l
    <3>1. i \in 0..Len(vs) /\ i \in 1..i
      BY <1>4
    <3> HIDE DEF i
    <3> QED BY <3>1, NewStored DEF x, v, l
  <2>6. /\ Len(d) + l <= b.size => Made(e, Holding(b, d \o x), 1, l)
        /\ Len(d) + l > b.size /\ b.size = 0 => Made(e, Holding(b, d), 1, l)
        /\ Len(d) + l > b.size /\ b.size # 0 => Made(e, Holding(b, d), 0, 0)
    <3> HIDE DEF v, x, l
    <3> QED BY <1>3, <1>4, <2>1, EncodeHolding DEF x, l
  <2> HIDE DEF e, t, l
  <2>7. CASE Len(d) + l <= b.size
    <3> DEFINE y == d \o x  m == n + l
    <3>1. IsData(y) /\ Len(y) = Len(d) + l
      <4> HIDE DEF x
      <4> QED BY <1>3, <2>2, ConcatProperties DEF IsData, l
    <3>2. e.buffer = Holding(b, y) /\ e.objects = 1 /\ e.octets = l /\ e.threw = FALSE
      BY <2>6, <2>7, MadeFields
    <3>3. Made(t, Holding(b, y), i, m)
      <4>1. k + 1 = i
        BY <1>6
      <4> HIDE DEF i
      <4> QED BY <2>3, <3>2, <4>1, Zenon DEF Made
    <3>4. ASSUME NEW q \in Seq(Stored), b.size # 0, Filling(q, b.data)
          PROVE  Filling(q \o NewEntries(vs, i), y)
      <4> DEFINE a == q \o NewEntries(vs, k)  u == q \o NewEntries(vs, i)  w == NewEntries(vs, i)[i]
      <4>1. a \in Seq(Stored) /\ Lengthened(a, u, w) /\ w.object = v /\ w.octets = l /\ Filling(a, d)
        BY <1>3, <2>4, <2>5, <3>4
      <4> HIDE DEF a, u, w, v
      <4>2. Filling(u, d \o x)
        <5> DEFINE none == <<>>
        <5>1. MayFollow(none, v) /\ x = ObjectOctets(v, none)
          BY <2>2 DEF OwnOctets
        <5> HIDE DEF none, x
        <5> QED BY <1>3, <2>1, <4>1, <5>1, StoredInPlace DEF l
      <4> QED BY <4>2 DEF u
    <3>5. /\ i \in 0..i /\ m \in Nat /\ Len(y) <= b.size /\ b.size # 0 /\ ~(i < i)
          /\ b.size # 0 => Len(y) = Len(b.data) + m
      <4> HIDE DEF y
      <4>1. i \in Nat
        BY <1>4
      <4>2. i \in 0..i /\ ~(i < i)
        <5> HIDE DEF i
        <5> QED BY <4>1
      <4>3. b.size # 0
        BY <1>4, <2>2, <2>7
      <4>4. m \in Nat /\ (b.size # 0 => Len(y) = Len(b.data) + m)
        <5>1. n \in Nat /\ (b.size # 0 => Len(d) = Len(b.data) + n)
          BY <1>3
        <5> DEFINE a == Len(y)  c == Len(d)  f == Len(b.data)
        <5>2. l \in Nat /\ a = c + l /\ c \in Nat /\ f \in Nat /\ (b.size # 0 => c = f + n)
          BY <1>4, <2>2, <3>1, <5>1
        <5> HIDE DEF a, c, f
        <5>3. m \in Nat /\ (b.size # 0 => a = f + m)
          BY <5>1, <5>2
        <5> QED BY <5>3 DEF a, f
      <4>5. Len(y) <= b.size
        BY <2>7, <3>1
      <4> HIDE DEF m, i
      <4> QED BY <4>2, <4>3, <4>4, <4>5
    <3> HIDE DEF y, m, i
    <3>6. Reached(b, vs, i, y, i, m)
      BY <2>4, <3>1, <3>4, <3>5, Zenon DEF Reached, m
    <3> QED BY <3>3, <3>6, Zenon DEF Progress, t, i
  <2>8. CASE Len(d) + l > b.size /\ b.size = 0
    <3> DEFINE m == n + l
    <3>1. e.buffer = Holding(b, d) /\ e.objects = 1 /\ e.octets = l /\ e.threw = FALSE
      BY <2>6, <2>8, MadeFields
    <3>2. Made(t, Holding(b, d), i, m)
      <4>1. k + 1 = i
        BY <1>6
      <4> HIDE DEF i
      <4> QED BY <2>3, <3>1, <4>1, Zenon DEF Made
    <3>3. i \in 0..i /\ m \in Nat /\ ~(i < i) /\ d = b.data
      BY <1>3, <1>4, <2>2, <2>8
    <3> HIDE DEF m, i
    <3>4. Reached(b, vs, i, d, i, m)
      BY <1>3, <2>4, <2>8, <3>3, Zenon DEF Reached, m
    <3> QED BY <3>2, <3>4, Zenon DEF Progress, t, i
  <2>9. CASE Len(d) + l > b.size /\ b.size # 0
    <3>1. e.buffer = Holding(b, d) /\ e.objects = 0 /\ e.octets = 0 /\ e.threw = FALSE
      BY <2>6, <2>9, MadeFields
    <3>2. Made(t, Holding(b, d), k, n)
      <4>1. k + 0 = k /\ n + 0 = n
        BY <1>3
      <4> QED BY <2>3, <3>1, <4>1, Zenon DEF Made
    <3>3. k \in 0..i /\ k + 1 = i
      BY <1>3, <1>6
    <3>4. Len(d) + Len(OwnOctets(vs[k + 1])) > b.size
      <4> HIDE DEF i
      <4> QED BY <2>9, <3>3 DEF l, x, v
    <3> HIDE DEF i
    <3>5. Reached(b, vs, i, d, k, n)
      BY <1>3, <2>9, <3>3, <3>4, Zenon DEF Reached
    <3> QED BY <3>2, <3>5, Zenon DEF Progress, t, i
  <2>10. Len(d) + l <= b.size \/ Len(d) + l > b.size
    BY <1>4, <2>2
  <2> QED BY <2>7, <2>8, <2>9, <2>10 DEF t
<1> QED BY <1>3, <1>5, <1>6

\* The recursion of EncodeObjects: f[i] is the outcome of the first i objects.
EncodeRun(f, b, vs) ==
    f = [i \in 0..Len(vs) |-> IF i = 0 THEN Outcome(b, 0, 0, FALSE) ELSE Adding(vs, f[i - 1], i)]

\* EncodeObjects has the recursion it is defined by.
LEMMA EncodeHasRun ==
    ASSUME NEW b, NEW vs, Len(vs) \in Nat
    PROVE  \E f : EncodeRun(f, b, vs) /\ EncodeObjects(b, vs) = f[Len(vs)]
<1> DEFINE n == Len(vs)  r == Outcome(b, 0, 0, FALSE)
           F(i, f) == IF i = 0 THEN r ELSE Adding(vs, f[i - 1], i)
           T == {k \in Nat : \E f : f = [i \in 0..k |-> F(i, f)]}
           h == CHOOSE f : EncodeRun(f, b, vs)
<1>1. 0 \in T
  <2> DEFINE f == [i \in 0..0 |-> r]
  <2> HIDE DEF r
  <2>1. ASSUME NEW i \in 0..0 PROVE f[i] = F(i, f)
    <3>1. i = 0 /\ f[i] = r
      OBVIOUS
    <3> HIDE DEF f
    <3> QED BY <3>1
  <2>2. f = [i \in 0..0 |-> F(i, f)]
    <3>1. f = [i \in 0..0 |-> f[i]]
      OBVIOUS
    <3> HIDE DEF f, F
    <3> QED BY <2>1, <3>1, Zenon
  <2> HIDE DEF f, F
  <2> QED BY <2>2
<1> HIDE DEF r
<1>2. ASSUME NEW k \in Nat, k \in T PROVE k + 1 \in T
  <2>1. PICK f : f = [i \in 0..k |-> F(i, f)]
    BY <1>2
  <2> DEFINE l == k + 1  g == [i \in 0..l |-> IF i = l THEN F(l, f) ELSE f[i]]
  <2>2. ASSUME NEW i \in 0..l PROVE g[i] = F(i, g)
    <3>1. F(i, g) = F(i, f)
      <4>1. i # 0 => g[i - 1] = f[i - 1]
        OBVIOUS
      <4> HIDE DEF g, l
      <4> QED BY <4>1
    <3>2. CASE i = l
      <4>1. g[i] = F(i, f)
        <5> HIDE DEF F
        <5> QED BY <3>2
      <4> HIDE DEF g, F
      <4> QED BY <3>1, <4>1
    <3>3. CASE i # l
      <4>1. i \in 0..k /\ g[i] = f[i]
        <5> HIDE DEF F
        <5> QED BY <3>3
      <4>2. f[i] = F(i, f)
        BY <2>1, <4>1, Zenon
      <4> HIDE DEF g, F
      <4> QED BY <3>1, <4>1, <4>2
    <3> QED BY <3>2, <3>3
  <2>3. g = [i \in 0..l |-> F(i, g)]
    <3>1. g = [i \in 0..l |-> g[i]]
      <4> HIDE DEF F
      <4> QED OBVIOUS
    <3> HIDE DEF g, F
    <3> QED BY <2>2, <3>1, Zenon
  <2>4. l \in Nat
    OBVIOUS
  <2> HIDE DEF g, F
  <2> QED BY <2>3, <2>4
<1>3. n \in T
  <2> HIDE DEF T
  <2> QED BY <1>1, <1>2, Reaches
<1>4. \E f : EncodeRun(f, b, vs)
  <2>1. PICK f : f = [i \in 0..n |-> F(i, f)]
    BY <1>3
  <2> QED BY <2>1, Zenon DEF EncodeRun, r
<1>5. EncodeRun(h, b, vs)
  BY <1>4, Zenon
<1>6. EncodeObjects(b, vs) = h[Len(vs)]
  BY Zenon DEF EncodeObjects, EncodeRun, Adding
<1> HIDE DEF h
<1> QED BY <1>5, <1>6

\* A vector of objects is encoded up to the first that does not fit.
LEMMA ObjectsProgress ==
    ASSUME NEW b, IsBuffer(b), NEW vs \in Seq(Sendable)
    PROVE  Progress(b, vs, Len(vs), EncodeObjects(b, vs))
<1> DEFINE n == Len(vs)
<1>1. n \in Nat
  BY LenProperties
<1>2. PICK f : EncodeRun(f, b, vs) /\ EncodeObjects(b, vs) = f[n]
  BY <1>1, EncodeHasRun
<1>3. \A i \in 0..n : f[i] = IF i = 0 THEN Outcome(b, 0, 0, FALSE) ELSE Adding(vs, f[i - 1], i)
  BY <1>2, Zenon DEF EncodeRun
<1> DEFINE T == {k \in Nat : k <= n => Progress(b, vs, k, f[k])}
<1>4. 0 \in T
  <2>1. 0 \in 0..n
    BY <1>1
  <2>2. f[0] = Outcome(b, 0, 0, FALSE)
    BY <1>3, <2>1
  <2>3. Progress(b, vs, 0, f[0])
    BY <2>2, NoProgress, Zenon
  <2> QED BY <2>3
<1>5. ASSUME NEW k \in Nat, k \in T PROVE k + 1 \in T
  <2> SUFFICES ASSUME k + 1 <= n PROVE Progress(b, vs, k + 1, f[k + 1])
    OBVIOUS
  <2>1. k + 1 \in 0..n /\ k + 1 # 0 /\ (k + 1) - 1 = k /\ k <= n /\ k < n
    BY <1>1
  <2>2. f[k + 1] = Adding(vs, f[k], k + 1)
    BY <1>3, <2>1
  <2>3. Progress(b, vs, k, f[k])
    BY <1>5, <2>1
  <2>4. Progress(b, vs, k + 1, Adding(vs, f[k], k + 1))
    BY <2>1, <2>3, ProgressFurther
  <2> QED BY <2>2, <2>4, Zenon
<1>6. n \in T
  <2> HIDE DEF T
  <2> QED BY <1>1, <1>4, <1>5, Reaches
<1> QED BY <1>1, <1>2, <1>6

\* One object is a vector of one.
LEMMA OneProgress ==
    ASSUME NEW b, IsBuffer(b), NEW v \in Sendable
    PROVE  Progress(b, <<v>>, 1, Encode(b, v)) /\ <<v>> \in Seq(Sendable) /\ Len(<<v>>) = 1
<1> DEFINE vs == <<v>>  r == Outcome(b, 0, 0, FALSE)  e == Encode(b, v)  one == 1  zero == 0
<1>1. vs \in Seq(Sendable) /\ Len(vs) = one /\ vs[one] = v /\ zero \in Nat /\ zero < one /\ zero + 1 = one
      /\ one - 1 = zero /\ ~(zero < zero)
  OBVIOUS
<1>2. Made(r, b, zero, zero)
  BY Zenon DEF Made
<1>3. r.buffer = b /\ r.objects = zero /\ r.octets = zero /\ r.threw = FALSE
  <2> HIDE DEF r, zero
  <2> QED BY <1>2, MadeFields
<1>4. Progress(b, vs, zero, r)
  <2> HIDE DEF vs
  <2> QED BY <1>1, NoProgress, Zenon
<1> HIDE DEF vs, r, one, zero, e
<1>5. Adding(vs, r, one) = Outcome(e.buffer, zero + e.objects, zero + e.octets, e.threw)
  BY <1>1, <1>3, Zenon DEF Adding, Both, e
<1>6. Progress(b, vs, one, Adding(vs, r, one))
  <2>1. Progress(b, vs, zero + 1, Adding(vs, r, zero + 1))
    BY <1>1, <1>4, ProgressFurther
  <2> QED BY <1>1, <2>1
<1>7. b = Holding(b, b.data) /\ b.size \in Nat /\ IsData(b.data) /\ Len(b.data) \in Nat
  BY LenProperties DEF IsBuffer, IsData
<1>8. \E c, k, l : Made(e, c, k, l) /\ k \in Nat /\ l \in Nat
  <2> DEFINE x == OwnOctets(v)  l == Len(x)  d == b.data
  <2>1. /\ Len(d) + l <= b.size => Made(e, Holding(b, d \o x), 1, l)
        /\ Len(d) + l > b.size /\ b.size = 0 => Made(e, Holding(b, d), 1, l)
        /\ Len(d) + l > b.size /\ b.size # 0 => Made(e, Holding(b, d), 0, 0)
    <3>1. e = Encode(Holding(b, d), v)
      BY <1>7, Zenon DEF e
    <3> HIDE DEF x, l, d
    <3>2. IsData(d) /\ b.size \in Nat
      BY <1>7 DEF d
    <3> QED BY <3>1, <3>2, EncodeHolding DEF x, l
  <2>2. l \in Nat /\ (Len(d) + l <= b.size \/ Len(d) + l > b.size)
    BY <1>7, OwnOctetsShape
  <2> HIDE DEF x, l, d
  <2> QED BY <2>1, <2>2
<1>9. PICK c, k, l : Made(e, c, k, l) /\ k \in Nat /\ l \in Nat
  BY <1>8
<1>10. e.buffer = c /\ e.objects = k /\ e.octets = l /\ e.threw = FALSE
  BY <1>9, MadeFields
<1>11. zero + k = k /\ zero + l = l
  BY <1>9 DEF zero
<1>12. Adding(vs, r, one) = e
  BY <1>5, <1>9, <1>10, <1>11, Zenon DEF Made
<1> QED BY <1>1, <1>6, <1>12 DEF vs, one, e

-----------------------------------------------------------------------------
(* An object of a newer peer.                                              *)

\* The octets of the fields known here are those that stand for them.
LEMMA KnownIsBody ==
    ASSUME NEW v, IsObject(v), v.kind # "Unknown"
    PROVE  KnownOctets(v) = BodyOctets(v)
<1>1. CASE v.kind = "HeadIPD1"
  <2>1. HasFields(v, <<One("ipd", "Float16")>>)
    BY <1>1, KindsAreRead DEF IsObject
  <2> DEFINE x == FieldOctets("Float16", v.ipd)
  <2>2. BodyOctets(v) = x \o <<>> /\ IsData(x)
    BY <1>1, <2>1, IPDBody, IPDShape DEF BodyOctets
  <2>3. KnownOctets(v) = x
    BY <1>1 DEF KnownOctets, Octets, FieldOctets
  <2> HIDE DEF x
  <2> QED BY <2>2, <2>3, ConcatEmptySeq DEF IsData
<1>2. CASE v.kind # "HeadIPD1"
  <2>1. v.kind \in Known /\ HasFields(v, WrittenFields[v.kind])
    BY <1>2, KindsAreRead DEF IsObject
  <2>2. KnownOctets(v) = FlattenSeq(SerializeAll(WrittenFields[v.kind], v))
    BY <1>2, Zenon DEF KnownOctets, Octets
  <2> QED BY <2>1, <2>2, AllOctets, Zenon DEF BodyOctets
<1> QED BY <1>1, <1>2

\* What a newer peer writes.
LEMMA ExtensionOctets ==
    ASSUME NEW p \in PeerObjects
    PROVE  LET v == p.object  x == ObjectOctets(v, p.extra)
           IN  /\ v \in Sendable /\ IsObject(v) /\ v.kind # "Unknown"
               /\ Extension(v, p.extra) = x /\ IsData(x) /\ Len(x) \in Nat \ {0}
               /\ IsData(p.extra) /\ IsNumber(Len(BodyOctets(v) \o p.extra))
<1> DEFINE v == p.object  extra == p.extra  body == BodyOctets(v) \o extra  n == Len(body)
           tag == TagOf[v.kind]  a == SerializeVarUint(tag)  b == SerializeVarUint(n)
<1>1. v \in Sendable
  BY DEF Sendable
<1>2. IsObject(v) /\ v.kind # "Unknown" /\ extra \in Seq(Byte) /\ IsNumber(Len(KnownOctets(v) \o extra))
  BY StreamAssumption, Zenon
<1>3. KnownOctets(v) = BodyOctets(v)
  BY <1>2, KnownIsBody
<1>4. IsNumber(n) /\ IsData(extra)
  BY <1>2, <1>3 DEF IsData
<1>5. IsData(BodyOctets(v)) /\ v.kind \in Kinds
  BY <1>2, ObjectDescribed DEF Described
<1>6. IsNumber(tag) /\ IsData(body)
  BY <1>4, <1>5, TagNumbers, DataBoth
<1>7. Extension(v, extra) = FlattenSeq(a \o b) \o body
  BY <1>3, Zenon DEF Extension, Octets
<1>8. ObjectOctets(v, extra) = Framed(tag, body)
  BY <1>2, Zenon DEF ObjectOctets
<1>9. Framed(tag, body) = NumberOctets(tag) \o (NumberOctets(n) \o body)
  BY Zenon DEF Framed
<1> HIDE DEF v, extra, body, n, tag
<1>10. a \in Seq(Strings) /\ b \in Seq(Strings) /\ IsData(NumberOctets(tag)) /\ IsData(NumberOctets(n))
  BY <1>4, <1>6, NumberShape
<1>11. FlattenSeq(a \o b) = NumberOctets(tag) \o NumberOctets(n)
  <2>1. FlattenSeq(a) = NumberOctets(tag) /\ FlattenSeq(b) = NumberOctets(n)
    BY Zenon DEF NumberOctets
  <2> HIDE DEF a, b
  <2> QED BY <1>10, <2>1, FlattenBoth
<1>12. (NumberOctets(tag) \o NumberOctets(n)) \o body = NumberOctets(tag) \o (NumberOctets(n) \o body)
  BY <1>6, <1>10, ConcatAssociative DEF IsData
<1>13. IsData(Framed(tag, body)) /\ Len(Framed(tag, body)) \in Nat \ {0}
  <2>1. n = Len(body)
    BY DEF n
  <2> QED BY <1>4, <1>6, <2>1, FramedShape
<1> QED BY <1>1, <1>2, <1>4, <1>7, <1>8, <1>9, <1>11, <1>12, <1>13 DEF v, extra, body, n

-----------------------------------------------------------------------------
(* Types.                                                                  *)

TypeInv ==
    /\ IsBuffer(buffer) /\ buffer.read \in 0..Len(buffer.data)
    /\ queue \in Seq(Stored) /\ Len(queue) <= MaxObjects
    /\ taken \in Nat
    /\ damaged \in BOOLEAN /\ lost \in BOOLEAN

\* A buffer of which some fields are known.
LEMMA BufferFields ==
    ASSUME NEW size, NEW d, NEW p, size \in Nat, IsData(d), Len(d) <= size, p \in 0..Len(d),
           NEW b, b = [size |-> size, data |-> d, read |-> p]
    PROVE  IsBuffer(b) /\ b.size = size /\ b.data = d /\ b.read = p /\ b.read \in 0..Len(b.data)
  BY DEF IsBuffer, Holding

\* A buffer of which one field has changed.
LEMMA BufferChanged ==
    ASSUME NEW b, IsBuffer(b), NEW x
    PROVE  /\ b = [size |-> b.size, data |-> b.data, read |-> b.read]
           /\ [b EXCEPT !.read = x] = [size |-> b.size, data |-> b.data, read |-> x]
           /\ [b EXCEPT !.data = x] = [size |-> b.size, data |-> x, read |-> b.read]
<1> DEFINE n == b.size  d == b.data  p == b.read
<1>1. b = [size |-> n, data |-> d, read |-> p]
  BY Zenon DEF IsBuffer, Holding
<1> HIDE DEF n, d, p
<1>2. /\ [b EXCEPT !.read = x] = [size |-> n, data |-> d, read |-> x]
      /\ [b EXCEPT !.data = x] = [size |-> n, data |-> x, read |-> p]
  BY <1>1
<1> QED BY <1>1, <1>2 DEF n, d, p

\* The objects of a vector may be sent.
LEMMA VectorSendable ==
    ASSUME NEW vs \in ObjectVectors
    PROVE  vs \in Seq(Sendable)
<1>1. vs \in Seq(Range(vs))
  BY StreamAssumption, Zenon
<1>2. Range(vs) \subseteq Sendable
  BY DEF Sendable
<1> DEFINE R == Range(vs)
<1> HIDE DEF R
<1>3. Len(vs) \in Nat /\ \A i \in 1..Len(vs) : vs[i] \in R
  BY <1>1, LenProperties, ElementOfSeq DEF R
<1>4. vs = [i \in 1..Len(vs) |-> vs[i]]
  BY <1>1, LenProperties DEF R
<1>5. vs \in [1..Len(vs) -> Sendable]
  BY <1>2, <1>3, <1>4 DEF R
<1> QED BY <1>3, <1>5, SeqDef

\* There is a last object that ends within n octets.
LEMMA LastExists ==
    ASSUME NEW q \in Seq(Stored), NEW n \in Nat
    PROVE  \E k : LastWithin(q, n, k)
<1> DEFINE N == Len(q)
           T == {m \in Nat : m <= N => \E k \in 0..m : /\ EndOf(q, k) <= n
                                                       /\ \A j \in 0..m : EndOf(q, j) <= n => j <= k}
<1>1. N \in Nat /\ EndOf(q, 0) = 0
  BY EndsOf
<1> HIDE DEF N
<1>2. 0 \in T
  BY <1>1
<1>3. ASSUME NEW m \in Nat, m \in T PROVE m + 1 \in T
  <2> SUFFICES ASSUME m + 1 <= N
               PROVE  \E k \in 0..(m + 1) : /\ EndOf(q, k) <= n
                                            /\ \A j \in 0..(m + 1) : EndOf(q, j) <= n => j <= k
    OBVIOUS
  <2> DEFINE l == m + 1
  <2>1. m <= N /\ l \in 0..l /\ \A j \in 0..l : j <= l /\ (j = l \/ j \in 0..m)
    BY <1>1
  <2>2. PICK k \in 0..m : EndOf(q, k) <= n /\ \A j \in 0..m : EndOf(q, j) <= n => j <= k
    BY <1>3, <2>1
  <2>3. k \in 0..l
    OBVIOUS
  <2> HIDE DEF l
  <2>4. \E i \in 0..l : EndOf(q, i) <= n /\ \A j \in 0..l : EndOf(q, j) <= n => j <= i
    <3>1. CASE EndOf(q, l) <= n
      BY <2>1, <3>1
    <3>2. CASE ~(EndOf(q, l) <= n)
      BY <2>1, <2>2, <2>3, <3>2
    <3> QED BY <3>1, <3>2
  <2> QED BY <2>4 DEF l
<1>4. N \in T
  <2> HIDE DEF T
  <2> QED BY <1>1, <1>2, <1>3, Reaches
<1>5. PICK k \in 0..N : EndOf(q, k) <= n /\ \A j \in 0..N : EndOf(q, j) <= n => j <= k
  BY <1>1, <1>4
<1> QED BY <1>5 DEF LastWithin, N

\* Where the k-th object of the buffer ends.
LEMMA EndInQueue ==
    ASSUME NEW k \in 0..Len(queue)
    PROVE  End(k) = EndOf(queue, k)
  BY DEF End, EndOf

\* What Lose keeps of the queue.
LEMMA LoseKeeps ==
    ASSUME TypeInv, NEW n \in Cuts, Lose(n), NEW kept, kept = Len(buffer.data) - n
    PROVE  /\ kept \in Nat /\ kept < Len(buffer.data) /\ ~damaged /\ buffer.read = 0
           /\ buffer' = [buffer EXCEPT !.data = SubSeq(@, 1, kept)]
           /\ taken' = taken /\ lost' = lost
           /\ \E k : /\ LastWithin(queue, kept, k) /\ queue' = SubSeq(queue, 1, k)
                     /\ damaged' = (EndOf(queue, k) < kept)
<1> DEFINE whole == {k \in 0..Len(queue) : End(k) <= kept}
           last == CHOOSE k \in whole : \A j \in whole : j <= k
<1>1. n \in Nat \ {0} /\ Len(buffer.data) \in Nat /\ queue \in Seq(Stored)
  BY StreamAssumption, LenProperties DEF TypeInv, IsBuffer, IsData
<1>2. /\ ~damaged /\ buffer.read = 0 /\ kept >= 0
      /\ buffer' = [buffer EXCEPT !.data = SubSeq(@, 1, kept)]
      /\ queue' = SubSeq(queue, 1, last)
      /\ damaged' = (End(last) < kept)
      /\ taken' = taken /\ lost' = lost
  BY Zenon DEF Lose
<1>3. kept \in Nat /\ kept < Len(buffer.data)
  BY <1>1, <1>2
<1>4. \E k \in whole : \A j \in whole : j <= k
  <2>1. PICK k : LastWithin(queue, kept, k)
    BY <1>1, <1>3, LastExists
  <2>2. k \in 0..Len(queue) /\ EndOf(queue, k) <= kept
        /\ \A j \in 0..Len(queue) : EndOf(queue, j) <= kept => j <= k
    BY <2>1 DEF LastWithin
  <2>3. k \in whole /\ \A j \in whole : j <= k
    BY <2>2, EndInQueue
  <2> QED BY <2>3
<1>5. last \in whole /\ \A j \in whole : j <= last
  <2> HIDE DEF whole
  <2> QED BY <1>4, Zenon
<1>6. LastWithin(queue, kept, last) /\ EndOf(queue, last) = End(last)
  <2> HIDE DEF last
  <2>1. last \in 0..Len(queue) /\ End(last) <= kept
    BY <1>5
  <2>2. EndOf(queue, last) = End(last)
    BY <2>1, EndInQueue
  <2>3. ASSUME NEW j \in 0..Len(queue), EndOf(queue, j) <= kept PROVE j <= last
    <3>1. End(j) <= kept
      BY <2>3, EndInQueue
    <3> QED BY <1>5, <3>1
  <2> QED BY <2>1, <2>2, <2>3 DEF LastWithin
<1> HIDE DEF last
<1> QED BY <1>2, <1>3, <1>6, Zenon

\* What an Encode does.
LEMMA EncodedStep ==
    ASSUME TypeInv, NEW vs \in Seq(Sendable), NEW r, Progress(buffer, vs, Len(vs), r), Encoded(vs, r)
    PROVE  \E d, k, n : /\ Reached(buffer, vs, Len(vs), d, k, n) /\ buffer' = Holding(buffer, d)
                        /\ queue' = IF buffer.size = 0 THEN queue ELSE queue \o NewEntries(vs, k)
                        /\ Len(queue) + k <= MaxObjects \/ buffer.size = 0
                        /\ out' = Result("Encode", k, n, FALSE, vs)
                        /\ taken' = taken /\ damaged' = damaged /\ lost' = lost
<1>1. PICK d, k, n : Made(r, Holding(buffer, d), k, n) /\ Reached(buffer, vs, Len(vs), d, k, n)
  BY Zenon DEF Progress
<1>2. r.buffer = Holding(buffer, d) /\ r.objects = k /\ r.octets = n /\ r.threw = FALSE
  BY <1>1, MadeFields
<1>3. /\ Len(queue) + r.objects <= MaxObjects \/ buffer.size = 0
      /\ buffer' = r.buffer
      /\ queue' = IF buffer.size = 0 THEN queue ELSE queue \o NewEntries(vs, r.objects)
      /\ out' = Result("Encode", r.objects, r.octets, r.threw, vs)
      /\ taken' = taken /\ damaged' = damaged /\ lost' = lost
  BY Zenon DEF Encoded, NewEntries
<1> QED BY <1>1, <1>2, <1>3, Zenon

\* Both ways of encoding are such steps.
LEMMA EncodeSteps ==
    ASSUME TypeInv, NEW vs \in ObjectVectors
    PROVE  /\ Len(vs) = 1 /\ EncodeOne(vs[1]) =>
                 \E r : Progress(buffer, <<vs[1]>>, 1, r) /\ Encoded(<<vs[1]>>, r) /\ ~damaged
                        /\ <<vs[1]>> \in Seq(Sendable) /\ Len(<<vs[1]>>) = 1
           /\ EncodeVector(vs) => \E r : Progress(buffer, vs, Len(vs), r) /\ Encoded(vs, r) /\ ~damaged
           /\ vs \in Seq(Sendable)
<1>1. vs \in Seq(Sendable) /\ IsBuffer(buffer)
  BY VectorSendable, Zenon DEF TypeInv
<1>2. ASSUME Len(vs) = 1, EncodeOne(vs[1])
      PROVE  \E r : Progress(buffer, <<vs[1]>>, 1, r) /\ Encoded(<<vs[1]>>, r) /\ ~damaged
                    /\ <<vs[1]>> \in Seq(Sendable) /\ Len(<<vs[1]>>) = 1
  <2> DEFINE v == vs[1]
  <2>1. v \in Sendable
    BY <1>1, <1>2, ElementOfSeq
  <2>2. Encoded(<<v>>, Encode(buffer, v)) /\ ~damaged
    BY <1>2, Zenon DEF EncodeOne
  <2> HIDE DEF v
  <2>3. Progress(buffer, <<v>>, 1, Encode(buffer, v)) /\ <<v>> \in Seq(Sendable) /\ Len(<<v>>) = 1
    BY <1>1, <2>1, OneProgress
  <2> QED BY <2>2, <2>3, Zenon DEF v
<1>3. ASSUME EncodeVector(vs) PROVE \E r : Progress(buffer, vs, Len(vs), r) /\ Encoded(vs, r) /\ ~damaged
  <2>1. Encoded(vs, EncodeObjects(buffer, vs)) /\ ~damaged
    BY <1>3, Zenon DEF EncodeVector
  <2>2. Progress(buffer, vs, Len(vs), EncodeObjects(buffer, vs))
    BY <1>1, ObjectsProgress
  <2> QED BY <2>1, <2>2, Zenon
<1> QED BY <1>1, <1>2, <1>3

\* One lemma per action: what it leaves is well typed.  First the initial state.
LEMMA InitTyped == Init => TypeInv
<1> SUFFICES ASSUME Init PROVE TypeInv
  OBVIOUS
<1>1. buffer = [size |-> 0, data |-> <<>>, read |-> 0]
  BY Zenon DEF Init, Buffer
<1>2. IsData(<<>>) /\ Len(<<>>) = 0 /\ <<>> \in Seq(Stored)
  BY EmptySeq DEF IsData
<1>3. IsBuffer(buffer) /\ buffer.read \in 0..Len(buffer.data)
  <2> DEFINE z == 0  d == <<>>
  <2>1. z \in Nat /\ IsData(d) /\ Len(d) <= z /\ z \in 0..Len(d)
    BY <1>2
  <2>2. buffer = [size |-> z, data |-> d, read |-> z]
    BY <1>1
  <2> HIDE DEF z, d
  <2> QED BY <2>1, <2>2, BufferFields
<1>4. queue = <<>> /\ taken = 0 /\ damaged = FALSE /\ lost = FALSE
  BY DEF Init
<1>5. Len(queue) <= MaxObjects
  BY <1>2, <1>4, StreamAssumption
<1> QED BY <1>2, <1>3, <1>4, <1>5 DEF TypeInv

\* A new buffer is empty.
LEMMA SupplyTyped == ASSUME NEW n \in BufferSizes, Supply(n) PROVE TypeInv'
<1>1. buffer' = [size |-> n, data |-> <<>>, read |-> 0] /\ n \in Nat
  BY StreamAssumption, Zenon DEF Supply, Buffer
<1>2. IsData(<<>>) /\ Len(<<>>) = 0 /\ <<>> \in Seq(Stored)
  BY EmptySeq DEF IsData
<1>3. IsBuffer(buffer') /\ buffer'.read \in 0..Len(buffer'.data)
  <2> DEFINE z == 0  d == <<>>
  <2>1. n \in Nat /\ IsData(d) /\ Len(d) <= n /\ z \in 0..Len(d)
    BY <1>1, <1>2
  <2>2. buffer' = [size |-> n, data |-> d, read |-> z]
    BY <1>1
  <2> HIDE DEF z, d
  <2> QED BY <2>1, <2>2, BufferFields
<1>4. queue' = <<>> /\ taken' = 0 /\ damaged' = FALSE /\ lost' = FALSE
  BY DEF Supply
<1>5. Len(queue') <= MaxObjects
  BY <1>2, <1>4, StreamAssumption
<1> QED BY <1>2, <1>3, <1>4, <1>5 DEF TypeInv

\* Rewind moves the position to 0.
LEMMA RewindTyped == ASSUME TypeInv, Rewind PROVE TypeInv'
<1> DEFINE n == buffer.size  d == buffer.data  z == 0
<1>1. IsBuffer(buffer) /\ buffer' = [buffer EXCEPT !.read = z]
  BY Zenon DEF TypeInv, Rewind
<1>2. n \in Nat /\ IsData(d) /\ Len(d) <= n /\ z \in 0..Len(d)
  BY <1>1, LenProperties DEF IsBuffer, IsData
<1> HIDE DEF z
<1>3. buffer' = [size |-> n, data |-> d, read |-> z]
  BY <1>1, BufferChanged
<1> HIDE DEF n, d
<1>4. IsBuffer(buffer') /\ buffer'.read \in 0..Len(buffer'.data)
  BY <1>2, <1>3, BufferFields
<1>5. taken' = 0 /\ lost' = FALSE /\ queue' = queue /\ damaged' = damaged
  BY DEF Rewind
<1> QED BY <1>4, <1>5 DEF TypeInv

\* Octets appended to a buffer.
LEMMA AppendedTyped ==
    ASSUME NEW b, IsBuffer(b), b.read \in 0..Len(b.data),
           NEW d, IsData(d), Len(d) <= b.size, Len(b.data) <= Len(d), NEW c, c = Holding(b, d)
    PROVE  IsBuffer(c) /\ c.size = b.size /\ c.data = d /\ c.read = b.read /\ c.read \in 0..Len(c.data)
<1> DEFINE n == b.size  p == b.read
<1>1. n \in Nat /\ p \in 0..Len(d) /\ c = [size |-> n, data |-> d, read |-> p]
  BY LenProperties DEF IsBuffer, Holding, IsData
<1> HIDE DEF n, p
<1>2. IsBuffer(c) /\ c.size = n /\ c.data = d /\ c.read = p /\ c.read \in 0..Len(c.data)
  BY <1>1, BufferFields DEF n
<1> QED BY <1>2 DEF n, p

\* What PeerWrites does.
LEMMA PeerStep ==
    ASSUME TypeInv, NEW p \in PeerObjects, PeerWrites(p.object, p.extra),
           NEW x, x = ObjectOctets(p.object, p.extra),
           NEW e, e = [object |-> p.object, octets |-> Len(x)]
    PROVE  /\ ~damaged /\ buffer' = Holding(buffer, buffer.data \o x)
           /\ IsData(x) /\ IsData(buffer.data \o x) /\ Len(x) \in Nat \ {0}
           /\ Len(buffer.data) \in Nat /\ Len(buffer.data \o x) = Len(buffer.data) + Len(x)
           /\ Len(buffer.data) + Len(x) <= buffer.size
           /\ queue' = Append(queue, e) /\ e \in Stored /\ Len(queue) < MaxObjects
           /\ Lengthened(queue, queue', e)
           /\ out' = Result("Client", 0, 0, FALSE, <<>>)
           /\ taken' = taken /\ damaged' = damaged /\ lost' = lost
<1>1. p.object \in Sendable /\ Extension(p.object, p.extra) = x /\ IsData(x) /\ Len(x) \in Nat \ {0}
  BY ExtensionOctets, Zenon
<1>2. /\ ~damaged /\ Len(queue) < MaxObjects /\ Len(buffer.data) + Len(x) <= buffer.size
      /\ buffer' = [buffer EXCEPT !.data = @ \o x]
      /\ queue' = Append(queue, e) /\ out' = Result("Client", 0, 0, FALSE, <<>>)
      /\ taken' = taken /\ damaged' = damaged /\ lost' = lost
  BY <1>1, Zenon DEF PeerWrites
<1>3. IsBuffer(buffer) /\ queue \in Seq(Stored)
  BY Zenon DEF TypeInv
<1>4. IsData(buffer.data)
  BY <1>3 DEF IsBuffer
<1>5. buffer' = Holding(buffer, buffer.data \o x)
  BY <1>2, <1>3, BufferChanged, Zenon DEF Holding
<1>6. e \in Stored
  BY <1>1 DEF Stored
<1>7. Lengthened(queue, queue', e)
  <2> DEFINE S == Stored
  <2>1. queue \in Seq(S) /\ e \in S /\ queue' = Append(queue, e)
    BY <1>2, <1>3, <1>6
  <2> HIDE DEF S
  <2>2. queue' \in Seq(S) /\ Len(queue') = Len(queue) + 1 /\ queue'[Len(queue) + 1] = e
        /\ \A i \in 1..Len(queue) : queue'[i] = queue[i]
    BY <2>1, AppendProperties
  <2> QED BY <2>2 DEF Lengthened, S
<1>8. /\ IsData(buffer.data \o x) /\ Len(buffer.data) \in Nat
      /\ Len(buffer.data \o x) = Len(buffer.data) + Len(x)
  BY <1>1, <1>4, DataBoth
<1> QED BY <1>1, <1>2, <1>5, <1>6, <1>7, <1>8

\* A peer appends octets and an object of a known kind.
LEMMA PeerTyped == ASSUME TypeInv, NEW p \in PeerObjects, PeerWrites(p.object, p.extra) PROVE TypeInv'
<1> DEFINE x == ObjectOctets(p.object, p.extra)  e == [object |-> p.object, octets |-> Len(x)]
           d == buffer.data \o x
<1>1. /\ buffer' = Holding(buffer, d) /\ IsData(d)
      /\ Len(buffer.data) \in Nat /\ Len(d) = Len(buffer.data) + Len(x) /\ Len(x) \in Nat
      /\ Len(buffer.data) + Len(x) <= buffer.size
      /\ Len(queue) < MaxObjects /\ Lengthened(queue, queue', e)
      /\ taken' = taken /\ damaged' = damaged /\ lost' = lost
  BY PeerStep
<1> HIDE DEF x, d, e
<1>2. IsBuffer(buffer') /\ buffer'.read \in 0..Len(buffer'.data)
  <2>1. IsBuffer(buffer) /\ buffer.read \in 0..Len(buffer.data) /\ Len(d) <= buffer.size
        /\ Len(buffer.data) <= Len(d)
    BY <1>1 DEF TypeInv
  <2> QED BY <1>1, <2>1, AppendedTyped
<1>3. queue' \in Seq(Stored) /\ Len(queue') <= MaxObjects
  <2>1. Len(queue) \in Nat
    BY LenProperties DEF TypeInv
  <2>2. queue' \in Seq(Stored) /\ Len(queue') = Len(queue) + 1
    BY <1>1 DEF Lengthened
  <2> QED BY <1>1, <2>1, <2>2, StreamAssumption
<1> QED BY <1>1, <1>2, <1>3 DEF TypeInv

\* Lose keeps a prefix of the octets and of the queue.
LEMMA LoseTyped == ASSUME TypeInv, NEW n \in Cuts, Lose(n) PROVE TypeInv'
<1> DEFINE kept == Len(buffer.data) - n  d == SubSeq(buffer.data, 1, kept)  size == buffer.size  p == buffer.read
<1>1. /\ kept \in Nat /\ kept < Len(buffer.data) /\ p = 0
      /\ buffer' = [buffer EXCEPT !.data = d]
      /\ taken' = taken /\ lost' = lost
      /\ \E k : LastWithin(queue, kept, k) /\ queue' = SubSeq(queue, 1, k)
                /\ damaged' = (EndOf(queue, k) < kept)
  BY LoseKeeps, Zenon
<1>2. IsBuffer(buffer) /\ buffer.data \in Seq(Byte) /\ Len(buffer.data) \in Nat
      /\ size \in Nat /\ Len(buffer.data) <= size
  BY LenProperties DEF TypeInv, IsBuffer, IsData
<1>3. d \in Seq(Byte) /\ Len(d) = kept
  <2>1. kept \in 0..Len(buffer.data)
    BY <1>1, <1>2
  <2> HIDE DEF kept
  <2> QED BY <1>2, <2>1, FirstPart
<1>4. buffer' = [size |-> size, data |-> d, read |-> p]
  <2> HIDE DEF d
  <2> QED BY <1>1, <1>2, BufferChanged
<1> HIDE DEF kept, d, size, p
<1>5. IsBuffer(buffer') /\ buffer'.read \in 0..Len(buffer'.data)
  <2>1. IsData(d) /\ Len(d) <= size /\ p \in 0..Len(d)
    BY <1>1, <1>2, <1>3 DEF IsData
  <2> QED BY <1>2, <1>4, <2>1, BufferFields
<1>6. PICK k : LastWithin(queue, kept, k) /\ queue' = SubSeq(queue, 1, k)
               /\ damaged' = (EndOf(queue, k) < kept)
  BY <1>1
<1>7. queue' \in Seq(Stored) /\ Len(queue') <= MaxObjects
  <2>1. k \in 0..Len(queue) /\ queue \in Seq(Stored) /\ Len(queue) <= MaxObjects /\ Len(queue) \in Nat
    BY <1>6, LenProperties DEF LastWithin, TypeInv
  <2>2. SubSeq(queue, 1, k) \in Seq(Stored) /\ Len(SubSeq(queue, 1, k)) = k
    BY <2>1, FirstPart
  <2> QED BY <1>6, <2>1, <2>2, StreamAssumption
<1>8. damaged' \in BOOLEAN
  <2>1. (EndOf(queue, k) < kept) \in BOOLEAN
    OBVIOUS
  <2>2. damaged' = (EndOf(queue, k) < kept)
    BY <1>6
  <2> QED BY <2>1, <2>2, Zenon
<1> QED BY <1>1, <1>5, <1>7, <1>8 DEF TypeInv

\* What has been encoded is in the buffer, as octets and as objects.
LEMMA EncodedTyped ==
    ASSUME TypeInv, NEW vs \in Seq(Sendable), NEW r, Progress(buffer, vs, Len(vs), r), Encoded(vs, r)
    PROVE  TypeInv'
<1>1. PICK d, k, n : /\ Reached(buffer, vs, Len(vs), d, k, n) /\ buffer' = Holding(buffer, d)
                     /\ queue' = IF buffer.size = 0 THEN queue ELSE queue \o NewEntries(vs, k)
                     /\ Len(queue) + k <= MaxObjects \/ buffer.size = 0
                     /\ taken' = taken /\ damaged' = damaged /\ lost' = lost
  BY EncodedStep
<1>2. k \in 0..Len(vs) /\ n \in Nat /\ IsData(d) /\ Len(d) <= buffer.size
      /\ (buffer.size = 0 => d = buffer.data) /\ (buffer.size # 0 => Len(d) = Len(buffer.data) + n)
  BY <1>1, Zenon DEF Reached
<1>3. IsBuffer(buffer) /\ buffer.read \in 0..Len(buffer.data) /\ queue \in Seq(Stored)
      /\ Len(queue) <= MaxObjects /\ Len(buffer.data) \in Nat
  BY LenProperties DEF TypeInv, IsBuffer, IsData
<1>4. Len(buffer.data) <= Len(d)
  BY <1>2, <1>3
<1>5. IsBuffer(buffer') /\ buffer'.read \in 0..Len(buffer'.data)
  BY <1>1, <1>2, <1>3, <1>4, AppendedTyped
<1>6. queue' \in Seq(Stored) /\ Len(queue') <= MaxObjects
  <2>1. NewEntries(vs, k) \in Seq(Stored) /\ Len(NewEntries(vs, k)) = k
    BY <1>2, NewStored
  <2> DEFINE y == NewEntries(vs, k)  S == Stored
  <2>2. y \in Seq(S) /\ queue \in Seq(S)
    BY <1>3, <2>1
  <2> HIDE DEF y, S
  <2>3. queue \o y \in Seq(S) /\ Len(queue \o y) = Len(queue) + Len(y)
    BY <2>2, ConcatProperties
  <2> QED BY <1>1, <1>3, <2>1, <2>3 DEF y, S
<1> QED BY <1>1, <1>5, <1>6 DEF TypeInv

\* Any read that leaves the position within the data.
LEMMA DecodedTyped ==
    ASSUME TypeInv, NEW r, Decoded(r), r.pos \in 0..Len(buffer.data), Len(r.value) \in Nat
    PROVE  TypeInv'
<1> DEFINE n == buffer.size  d == buffer.data  p == r.pos
<1>1. IsBuffer(buffer) /\ buffer' = [buffer EXCEPT !.read = p] /\ taken' = taken + Len(r.value)
      /\ queue' = queue /\ damaged' = damaged
  BY Zenon DEF TypeInv, Decoded
<1>2. n \in Nat /\ IsData(d) /\ Len(d) <= n /\ p \in 0..Len(d)
  BY <1>1 DEF IsBuffer
<1> HIDE DEF p
<1>3. buffer' = [size |-> n, data |-> d, read |-> p]
  BY <1>1, BufferChanged
<1> HIDE DEF n, d
<1>4. IsBuffer(buffer') /\ buffer'.read \in 0..Len(buffer'.data)
  BY <1>2, <1>3, BufferFields
<1>5. lost' \in BOOLEAN
  <2>1. lost' = (r.threw /\ r.pos # End(taken + Len(r.value)))
    BY Zenon DEF Decoded
  <2> QED BY <2>1, Zenon
<1>6. taken' \in Nat
  BY <1>1 DEF TypeInv
<1> QED BY <1>1, <1>4, <1>5, <1>6 DEF TypeInv

\* A read of one object, as one of several.
LEMMA SingleFields ==
    ASSUME NEW r, IsRead(r)
    PROVE  /\ Single(r).pos = r.pos /\ Single(r).count = r.count /\ Single(r).threw = r.threw
           /\ Single(r).value = IF r.threw THEN <<>> ELSE <<r.value>>
           /\ Len(Single(r).value) \in Nat
<1> DEFINE pos == r.pos  count == r.count  threw == r.threw  val == r.value
           x == IF threw THEN <<>> ELSE <<val>>
<1>1. r = [pos |-> pos, count |-> count, threw |-> threw, value |-> val]
  BY Zenon DEF IsRead, Read
<1>2. Single(r) = [r EXCEPT !.value = x]
  BY Zenon DEF Single
<1>3. Len(x) \in Nat
  OBVIOUS
<1> HIDE DEF pos, count, threw, val, x
<1>4. Single(r) = [pos |-> pos, count |-> count, threw |-> threw, value |-> x]
  BY <1>1, <1>2
<1>5. Single(r).pos = pos /\ Single(r).count = count /\ Single(r).threw = threw /\ Single(r).value = x
  BY <1>4
<1> QED BY <1>3, <1>5, Zenon DEF pos, count, threw, val, x

\* Decoding moves the position within the data.
LEMMA DecodeTyped == ASSUME TypeInv, DecodeOne \/ DecodeVector PROVE TypeInv'
<1> DEFINE s == buffer.data  p == buffer.read
<1>1. IsData(s) /\ p \in 0..Len(s) /\ Len(s) \in Nat
  BY LenProperties DEF TypeInv, IsBuffer, IsData
<1>2. CASE DecodeOne
  <2> DEFINE r == Decode(s, p)
  <2>1. Decoded(Single(r))
    BY <1>2, Zenon DEF DecodeOne
  <2>2. At(s, r)
    <3> HIDE DEF s, p
    <3> QED BY <1>1, DecodeSound DEF Sound
  <2> HIDE DEF r
  <2>3. IsRead(r) /\ r.pos \in 0..Len(s)
    BY <1>1, <2>2 DEF At
  <2>4. Single(r).pos \in 0..Len(s) /\ Len(Single(r).value) \in Nat
    BY <2>3, SingleFields
  <2> QED BY <2>1, <2>4, DecodedTyped
<1>3. CASE DecodeVector
  <2> DEFINE r == DecodeObjects(s, p)
  <2>1. Decoded(r)
    BY <1>3, Zenon DEF DecodeVector
  <2>2. At(s, r) /\ r.value \in Seq(Values(s))
    <3> HIDE DEF s, p
    <3> QED BY <1>1, ObjectsSound
  <2> HIDE DEF r
  <2>3. r.pos \in 0..Len(s) /\ Len(r.value) \in Nat
    BY <1>1, <2>2, LenProperties DEF At
  <2> QED BY <2>1, <2>3, DecodedTyped
<1> QED BY <1>2, <1>3

\* The type invariant is inductive.
LEMMA StepTyped == TypeInv /\ [Next]_vars => TypeInv'
<1> SUFFICES ASSUME TypeInv, [Next]_vars PROVE TypeInv'
  OBVIOUS
<1>1. CASE UNCHANGED vars
  BY <1>1 DEF vars, TypeInv
<1>2. CASE \E n \in BufferSizes : Supply(n)
  BY <1>2, SupplyTyped
<1>3. CASE Rewind
  BY <1>3, RewindTyped
<1>4. CASE \E p \in PeerObjects : PeerWrites(p.object, p.extra)
  BY <1>4, PeerTyped
<1>5. CASE \E n \in Cuts : Lose(n)
  BY <1>5, LoseTyped
<1>6. CASE \E vs \in ObjectVectors : Len(vs) = 1 /\ EncodeOne(vs[1])
  <2>1. PICK vs \in ObjectVectors : Len(vs) = 1 /\ EncodeOne(vs[1])
    BY <1>6
  <2>2. PICK r : Progress(buffer, <<vs[1]>>, 1, r) /\ Encoded(<<vs[1]>>, r)
                 /\ <<vs[1]>> \in Seq(Sendable) /\ Len(<<vs[1]>>) = 1
    BY <2>1, EncodeSteps, Zenon
  <2> DEFINE us == <<vs[1]>>
  <2>3. us \in Seq(Sendable) /\ Progress(buffer, us, Len(us), r) /\ Encoded(us, r)
    BY <2>2, Zenon
  <2> HIDE DEF us
  <2> QED BY <2>3, EncodedTyped
<1>7. CASE \E vs \in ObjectVectors : EncodeVector(vs)
  <2>1. PICK vs \in ObjectVectors : EncodeVector(vs)
    BY <1>7
  <2>2. vs \in Seq(Sendable) /\ \E r : Progress(buffer, vs, Len(vs), r) /\ Encoded(vs, r)
    BY <2>1, EncodeSteps, Zenon
  <2> QED BY <2>2, EncodedTyped
<1>8. CASE DecodeOne \/ DecodeVector
  BY <1>8, DecodeTyped
<1> QED BY <1>1, <1>2, <1>3, <1>4, <1>5, <1>6, <1>7, <1>8 DEF Next

\* Whatever is encoded, received in part or decoded, and whether or not Decode
\* throws, the data stay within the buffer, and the read position within the
\* data (the checks of data_buffer.cpp's Append and Read functions, and of
\* AdvanceReadLength, that the Encoder and the Decoder rely upon).
THEOREM TypeCorrect == Spec => []TypeOK
<1>1. Init => TypeInv
  BY InitTyped
<1>2. TypeInv /\ [Next]_vars => TypeInv'
  BY StepTyped
<1>3. TypeInv => TypeOK
  BY DEF TypeInv, TypeOK, IsBuffer, IsData
<1> QED BY <1>1, <1>2, <1>3, PTL DEF Spec

-----------------------------------------------------------------------------
(* What is read of a queue.                                                *)

\* The next object is read where it is.
LEMMA NextRead ==
    ASSUME NEW q \in Seq(Stored), NEW s, IsData(s), InPlace(q, s), NEW k \in 1..Len(q)
    PROVE  /\ Got(Decode(s, EndOf(q, k - 1)), EndOf(q, k), q[k].octets, q[k].object)
           /\ EndOf(q, k - 1) \in 0..Len(s) /\ EndOf(q, k - 1) < EndOf(q, k)
           /\ EndOf(q, k) \in 0..Len(s) /\ q[k].object \in Sendable
<1> DEFINE p == EndOf(q, k - 1)  v == q[k].object  n == q[k].octets
<1>1. /\ q[k] \in Stored /\ n \in Nat \ {0} /\ EndOf(q, k) = p + n
      /\ k - 1 \in 0..Len(q) /\ p \in Nat
  <2>1. k - 1 \in 0..Len(q)
    BY LenProperties
  <2> QED BY <2>1, EndsOf
<1>2. PICK extra : HoldsAt(q, s, k, extra)
  BY Zenon DEF InPlace
<1>3. MayFollow(extra, v) /\ n = Len(ObjectOctets(v, extra)) /\ StandsAt(ObjectOctets(v, extra), s, p)
  BY <1>2, Zenon DEF HoldsAt
<1>4. v \in Sendable
  BY <1>1 DEF Stored
<1>5. IsObject(v)
  BY <1>4, SendableIsObject
<1> HIDE DEF p, v, n
<1>6. ReadsBack(s, v, extra, p)
  BY <1>1, <1>3, <1>5, RoundTrip
<1>7. Got(Decode(s, p), p + n, n, v)
  BY <1>3, <1>6, Zenon DEF ReadsBack
<1>8. p + n <= Len(s)
  BY <1>3, Zenon DEF StandsAt
<1>9. Len(s) \in Nat
  BY LenProperties DEF IsData
<1>10. p \in 0..Len(s) /\ p < EndOf(q, k) /\ EndOf(q, k) \in 0..Len(s)
  BY <1>1, <1>8, <1>9 DEF p, n
<1>11. Got(Decode(s, p), EndOf(q, k), n, v)
  BY <1>1, <1>7 DEF p, n
<1> QED BY <1>4, <1>10, <1>11 DEF p, v, n

\* At the end of the data nothing is read.
LEMMA NoneRead ==
    ASSUME NEW s, IsData(s), NEW p, p = Len(s)
    PROVE  Decode(s, p).threw /\ Decode(s, p).pos = p
<1> DEFINE r == Read(p, 0, FALSE, 0)  f == ReadVarUint(s, r.pos)
           tag == DeserializeVarUint(s, r)
           nested == [n \in (p + 1)..Len(s) |-> Decode(s, n)]
<1>1. p \in Nat /\ p <= Len(s) /\ p \in 0..Len(s) /\ Len(s) \in Nat
  BY LenProperties DEF IsData
<1>2. Decode(s, p) = ObjectAt(s, p, nested)
  BY <1>1, DecodeEquation, Zenon
<1>3. r.pos = p /\ IsRead(r)
  BY Fields
<1>4. f.threw /\ f.pos = p
  <2>1. s \in Seq(Byte)
    BY DEF IsData
  <2>2. ReadVarUint(s, p).threw /\ ReadVarUint(s, p).pos = p
    BY <1>1, <2>1, VarBounds
  <2> QED BY <1>3, <2>2
<1> DEFINE w == [r EXCEPT !.pos = f.pos]
<1>5. tag = Thrown(w)
  BY <1>4, Zenon DEF DeserializeVarUint, Counted
<1>6. At(s, r)
  BY <1>1, <1>3 DEF At, Read
<1>7. tag.threw /\ tag.pos = p
  <2> HIDE DEF r, f, tag
  <2>1. At(s, w) /\ w.pos = p
    BY <1>1, <1>4, <1>6, Placed
  <2> HIDE DEF w
  <2> QED BY <1>5, <2>1, Changed
<1>8. ObjectAt(s, p, nested) = Thrown(tag)
  BY <1>7, Zenon DEF ObjectAt
<1>9. Thrown(tag).threw /\ Thrown(tag).pos = p
  <2>1. At(s, tag)
    <3> HIDE DEF r
    <3> QED BY <1>6, VarUintMoves DEF Moves
  <2> HIDE DEF tag
  <2> QED BY <1>7, <2>1, Changed
<1> QED BY <1>2, <1>8, <1>9, Zenon

\* A part of an object is not taken for one.
LEMMA CutRead ==
    ASSUME NEW q \in Seq(Stored), NEW s, IsData(s), Remains(q, s)
    PROVE  Decode(s, EndOf(q, Len(q))).threw /\ EndOf(q, Len(q)) < Decode(s, EndOf(q, Len(q))).pos
<1> DEFINE p == EndOf(q, Len(q))
<1>1. p \in Nat
  BY EndsOf
<1>2. PICK v \in Sendable : \E extra : MayFollow(extra, v) /\ StandsCut(ObjectOctets(v, extra), s, p)
  BY Zenon DEF Remains
<1>3. PICK extra : MayFollow(extra, v) /\ StandsCut(ObjectOctets(v, extra), s, p)
  BY <1>2
<1>4. IsObject(v)
  BY SendableIsObject
<1>5. p < Len(s)
  BY Zenon DEF Remains
<1>7. p <= Len(s)
  BY <1>3, Zenon DEF StandsCut
<1> HIDE DEF p
<1>6. Decode(s, p).threw /\ p < Decode(s, p).pos
  <2>1. Decode(s, p).threw /\ MovesOn(s, p, Decode(s, p))
    BY <1>1, <1>3, <1>4, <1>7, CutObjectThrows
  <2> QED BY <1>5, <2>1 DEF MovesOn
<1> QED BY <1>6 DEF p

\* The objects of q from the k-th on.
ObjectsFrom(q, k) == [i \in 1..(Len(q) - k) |-> q[k + i].object]

\* Decoding from the k-th object gives the objects that follow, and ends as a
\* read of what follows the last of them does.
RestRead(q, s, k, t) ==
    LET last == DecodeObjects(s, EndOf(q, Len(q)))
    IN  /\ At(s, t) /\ t.pos = last.pos /\ (t.threw <=> last.threw)
        /\ t.count = last.count + (EndOf(q, Len(q)) - EndOf(q, k))
        /\ t.value = ObjectsFrom(q, k)

\* Nothing is read at the end of a queue.
LEMMA LastRead ==
    ASSUME NEW q \in Seq(Stored), NEW s, IsData(s),
           EndOf(q, Len(q)) = Len(s) \/ Remains(q, s)
    PROVE  LET p == EndOf(q, Len(q))  last == DecodeObjects(s, p)
           IN  /\ p \in 0..Len(s) /\ At(s, last) /\ last.value = <<>> /\ last.count = 0
               /\ p = Len(s) => ~last.threw /\ last.pos = p
               /\ Remains(q, s) => last.threw /\ last.pos = Decode(s, p).pos /\ p < Len(s)
<1> DEFINE p == EndOf(q, Len(q))  last == DecodeObjects(s, p)  first == Decode(s, p)
           z == 0  e == <<>>  no == FALSE
<1>1. p \in Nat /\ Len(s) \in Nat
  BY EndsOf, LenProperties DEF IsData
<1>2. Remains(q, s) => p < Len(s)
  BY Zenon DEF Remains
<1>3. p \in 0..Len(s) /\ (Remains(q, s) => p # Len(s) /\ first.threw)
  BY <1>1, <1>2, CutRead
<1>4. PICK f : Steps(s, p, f) /\ last = f[Len(s)]
  BY ObjectsRun
<1>5. f[0] = Read(p, z, no, e) /\ ~no
  BY <1>4 DEF Steps
<1> HIDE DEF p, last, first, z, e, no
<1>6. \A i \in 0..Len(s) : At(s, f[i]) /\ f[i].value \in Seq(Values(s))
  BY <1>3, <1>4, StepsSound
<1>7. At(s, last)
  BY <1>1, <1>4, <1>6
<1>8. /\ f[0].pos = p /\ f[0].count = z /\ f[0].threw = no /\ f[0].value = e
      /\ 0 \in 0..Len(s) /\ Len(s) \in 0..Len(s)
  BY <1>1, <1>5, Fields
<1>9. CASE p = Len(s)
  <2>1. Ended(s, f[0])
    BY <1>8, <1>9 DEF Ended
  <2>2. last = f[0]
    BY <1>4, <1>8, <2>1, StaysEnded
  <2> QED BY <1>3, <1>5, <1>7, <1>8, <1>9, <2>2 DEF p, last, first, z, e, no
<1>10. CASE Remains(q, s)
  <2>1. ~Ended(s, f[0]) /\ first = Decode(s, f[0].pos) /\ first.threw
    BY <1>3, <1>5, <1>8, <1>10 DEF Ended, first
  <2>2. 1 \in 0..Len(s) /\ 1 \in 1..Len(s) /\ 1 - 1 = 0 /\ Len(s) \in 1..Len(s)
    BY <1>1, <1>2, <1>10
  <2>3. f[1] = OneMore(s, f[0])
    BY <1>4, <2>2 DEF Steps
  <2>4. f[1].pos = first.pos /\ f[1].threw /\ f[1].count = z /\ f[1].value = e
    BY <1>6, <1>8, <2>1, <2>3, OneMoreSound
  <2>5. Ended(s, f[1])
    BY <2>4 DEF Ended
  <2>6. last = f[1]
    BY <1>4, <2>2, <2>5, StaysEnded
  <2> QED BY <1>2, <1>3, <1>7, <1>10, <2>4, <2>6 DEF p, last, first, z, e
<1> QED BY <1>9, <1>10 DEF p

\* The i objects of q that follow the first k.
ObjectsWithin(q, k, i) == [j \in 1..i |-> q[k + j].object]

\* One object more.
LEMMA WithinOneMore ==
    ASSUME NEW q \in Seq(Stored), NEW k \in Nat, NEW i \in Nat, k + i < Len(q)
    PROVE  Append(ObjectsWithin(q, k, i), q[k + (i + 1)].object) = ObjectsWithin(q, k, i + 1)
<1> DEFINE n == Len(q)  O(j) == q[j].object  l == i + 1  x == O(k + l)
           a == [j \in 1..i |-> O(k + j)]  c == [j \in 1..l |-> O(k + j)]
           S == {O(j) : j \in 1..n}  d == Append(a, x)
<1>1. n \in Nat /\ k + i < n
  BY LenProperties
<1> HIDE DEF n
<1>2. l \in Nat /\ (\A j \in 1..l : k + j \in 1..n) /\ (\A j \in 1..i : k + j \in 1..n)
  BY <1>1
<1>3. \A j \in 1..n : O(j) \in S
  OBVIOUS
<1>4. x \in S
  <2>1. l \in 1..l
    BY <1>2
  <2> HIDE DEF S, O, l
  <2> QED BY <1>2, <1>3, <2>1
<1> HIDE DEF S, O
<1>5. a \in [1..i -> S] /\ c \in [1..l -> S]
  BY <1>2, <1>3
<1>6. \A j \in 1..i : a[j] = O(k + j)
  OBVIOUS
<1>7. \A j \in 1..l : c[j] = O(k + j)
  OBVIOUS
<1> HIDE DEF a, c, d
<1>8. a \in Seq(S) /\ Len(a) = i /\ c \in Seq(S) /\ Len(c) = l
  BY <1>2, <1>5, SeqDef
<1>9. d \in Seq(S) /\ Len(d) = i + 1 /\ (\A j \in 1..i : d[j] = a[j]) /\ d[i + 1] = x
  BY <1>4, <1>8, AppendProperties DEF d
<1>10. ASSUME NEW j \in 1..Len(d) PROVE d[j] = c[j]
  <2>1. j \in 1..l /\ (j # l => j \in 1..i)
    BY <1>9
  <2>2. CASE j = l
    BY <1>7, <1>9, <2>1, <2>2
  <2>3. CASE j # l
    BY <1>6, <1>7, <1>9, <2>1, <2>3
  <2> QED BY <2>2, <2>3
<1>11. d = c
  BY <1>8, <1>9, <1>10, SeqEqual
<1> QED BY <1>11, Zenon DEF ObjectsWithin, d, a, c, x, O, l

\* What the first i iterations make of the queue from its k-th object on.
RestStep(q, k, i, r) ==
    /\ Got(r, EndOf(q, k + i), EndOf(q, k + i) - EndOf(q, k), ObjectsWithin(q, k, i))
    /\ i <= EndOf(q, k + i)

\* They give its objects one by one.
LEMMA RestSteps ==
    ASSUME NEW q \in Seq(Stored), NEW s, IsData(s), InPlace(q, s), NEW k \in 0..Len(q),
           EndOf(q, k) \in 0..Len(s), NEW f, Steps(s, EndOf(q, k), f)
    PROVE  \A i \in 0..(Len(q) - k) : RestStep(q, k, i, f[i])
<1> DEFINE n == Len(q) - k  E(i) == EndOf(q, k + i)
           D == {i \in Nat : RestStep(q, k, i, f[i])}
<1>1. /\ n \in Nat /\ Len(q) \in Nat /\ k \in Nat /\ Len(s) \in Nat
      /\ \A i \in 0..n : k + i \in 0..Len(q)
  <2>1. Len(q) \in Nat /\ Len(s) \in Nat
    BY LenProperties DEF IsData
  <2> QED BY <2>1
<1>2. 0 \in D
  <2> DEFINE e == EndOf(q, k)  x == ObjectsWithin(q, k, 0)
  <2>1. e \in Nat /\ k + 0 = k /\ e - e = 0
    <3>1. e \in Nat
      BY EndsOf
    <3> HIDE DEF e
    <3> QED BY <1>1, <3>1
  <2>2. x = <<>>
    <3> DEFINE O(j) == q[j].object
    <3>1. x = [j \in 1..0 |-> O(k + j)]
      BY Zenon DEF ObjectsWithin
    <3> HIDE DEF x, O
    <3> QED BY <3>1
  <2>3. f[0] = Read(e, 0, FALSE, <<>>)
    BY DEF Steps
  <2>4. Got(f[0], e, e - e, x)
    BY <2>1, <2>2, <2>3, Zenon DEF Got
  <2> HIDE DEF e, x
  <2>5. RestStep(q, k, 0, f[0])
    <3>1. 0 <= e
      BY <2>1
    <3> QED BY <2>1, <2>4, <3>1 DEF RestStep, e, x
  <2> QED BY <2>5
<1>3. ASSUME NEW i \in Nat, i < n /\ i \in D PROVE i + 1 \in D
  <2> DEFINE l == k + i  h == l + 1  p == EndOf(q, l)  e == EndOf(q, h)  c == q[h].octets  v == q[h].object
             b == EndOf(q, k)  x == ObjectsWithin(q, k, i)  r == f[i]  t == f[i + 1]  u == p - b
  <2>1. h \in 1..Len(q) /\ h - 1 = l /\ l \in 0..Len(q) /\ k + (i + 1) = h /\ l < Len(q) /\ l \in Nat
    BY <1>1, <1>3
  <2>2. RestStep(q, k, i, r)
    BY <1>3
  <2>3. Got(r, p, u, x) /\ i <= p
    BY <2>2, Zenon DEF RestStep
  <2>4. /\ Got(Decode(s, p), e, c, v) /\ p \in 0..Len(s) /\ p < e /\ e \in 0..Len(s)
    <3> HIDE DEF h, c, v, e
    <3>1. /\ Got(Decode(s, EndOf(q, h - 1)), EndOf(q, h), q[h].octets, q[h].object)
          /\ EndOf(q, h - 1) \in 0..Len(s) /\ EndOf(q, h - 1) < EndOf(q, h)
          /\ EndOf(q, h) \in 0..Len(s)
      BY <2>1, NextRead
    <3> QED BY <2>1, <3>1 DEF c, v, e
  <2>5. c \in Nat \ {0} /\ e = p + c /\ b \in Nat
    <3> HIDE DEF h
    <3>1. c \in Nat \ {0} /\ EndOf(q, h) = EndOf(q, h - 1) + c
      BY <2>1, EndsOf
    <3>2. b \in Nat
      BY EndsOf
    <3> QED BY <2>1, <3>1, <3>2
  <2>6. i + 1 \in 1..Len(s) /\ (i + 1) - 1 = i /\ i \in 0..Len(s)
    <3> HIDE DEF p, e
    <3> QED BY <1>1, <2>3, <2>4
  <2>7. t = OneMore(s, r)
    BY <2>6 DEF Steps
  <2>8. At(s, r) /\ r.value \in Seq(Values(s))
    BY <2>6, StepsSound
  <2> DEFINE first == Decode(s, p)
  <2> HIDE DEF l, h, p, e, c, v, b, x, r, t, first, u
  <2>9. r.pos = p /\ r.count = u /\ ~r.threw /\ r.value = x
    BY <2>3, GotFields
  <2>10. first.pos = e /\ first.count = c /\ ~first.threw /\ first.value = v
    BY <2>4, GotFields DEF first
  <2>11. ~Ended(s, r) /\ first = Decode(s, r.pos)
    BY <1>1, <2>4, <2>9 DEF Ended, first
  <2>12. /\ At(s, t) /\ t.pos = e /\ ~t.threw
         /\ t.count = r.count + first.count /\ t.value = Append(r.value, first.value)
    BY <2>7, <2>8, <2>10, <2>11, OneMoreSound
  <2>13. t.count = e - b
    <3>1. t.count = u + c /\ u = p - b
      BY <2>9, <2>10, <2>12 DEF u
    <3> QED BY <1>1, <2>4, <2>5, <3>1
  <2>14. t.value = ObjectsWithin(q, k, i + 1)
    <3>1. Append(ObjectsWithin(q, k, i), q[k + (i + 1)].object) = ObjectsWithin(q, k, i + 1)
      BY <1>1, <2>1, WithinOneMore DEF l
    <3> QED BY <2>1, <2>9, <2>10, <2>12, <3>1 DEF x, v
  <2> DEFINE y == e - b  w == ObjectsWithin(q, k, i + 1)
  <2>15. Got(t, e, y, w)
    <3>1. t = Read(t.pos, t.count, t.threw, t.value) /\ t.threw = FALSE
      BY <2>12 DEF At, IsRead
    <3> HIDE DEF y, w
    <3> QED BY <2>12, <2>13, <2>14, <3>1 DEF Got, y, w
  <2>16. i + 1 <= e
    BY <2>3, <2>4, <2>5
  <2>17. RestStep(q, k, i + 1, f[i + 1])
    BY <2>1, <2>15, <2>16, Zenon DEF RestStep, t, e, h, b
  <2> QED BY <2>17
<1>4. \A i \in 0..n : i \in D
  <2> HIDE DEF D
  <2> QED BY <1>1, <1>2, <1>3, UpTo
<1> QED BY <1>4

\* All of the objects from any of them on.
LEMMA RestGiven ==
    ASSUME NEW q \in Seq(Stored), NEW s, IsData(s), InPlace(q, s),
           EndOf(q, Len(q)) = Len(s) \/ Remains(q, s)
    PROVE  \A k \in 0..Len(q) : RestRead(q, s, k, DecodeObjects(s, EndOf(q, k)))
<1> SUFFICES ASSUME NEW k \in 0..Len(q)
             PROVE  RestRead(q, s, k, DecodeObjects(s, EndOf(q, k)))
  OBVIOUS
<1> DEFINE n == Len(q)  p == EndOf(q, n)  last == DecodeObjects(s, p)  first == Decode(s, p)
           b == EndOf(q, k)  t == DecodeObjects(s, b)  m == n - k  x == ObjectsFrom(q, k)  u == p - b
           l == Len(s)
<1>1. /\ n \in Nat /\ m \in 0..(n - k) /\ k + m = n /\ b \in Nat /\ p \in Nat /\ u \in Int
      /\ l \in Nat /\ b \in 0..l
  <2>1. n \in Nat /\ Len(s) \in Nat
    BY LenProperties DEF IsData
  <2>2. b \in Nat /\ p \in Nat
    BY <2>1, EndsOf
  <2>3. b \in 0..l
    <3>1. CASE k = n
      <4>1. p \in 0..Len(s)
        BY LastRead
      <4> QED BY <3>1, <4>1
    <3>2. CASE k # n
      <4> DEFINE h == k + 1
      <4>1. h \in 1..Len(q) /\ h - 1 = k
        BY <2>1, <3>2
      <4> HIDE DEF h
      <4>2. EndOf(q, h - 1) \in 0..Len(s)
        BY <4>1, NextRead
      <4> QED BY <4>1, <4>2
    <3> QED BY <3>1, <3>2
  <2> HIDE DEF b, p
  <2> QED BY <2>1, <2>2, <2>3
<1>2. PICK f : Steps(s, b, f) /\ t = f[l]
  BY ObjectsRun
<1>3. \A i \in 0..(n - k) : RestStep(q, k, i, f[i])
  BY <1>1, <1>2, RestSteps
<1>4. \A i \in 0..l : At(s, f[i]) /\ f[i].value \in Seq(Values(s))
  BY <1>1, <1>2, StepsSound
<1>5. Got(f[m], p, u, x) /\ m <= p
  <2>1. RestStep(q, k, m, f[m])
    <3> HIDE DEF n, m
    <3> QED BY <1>1, <1>3
  <2>2. ObjectsWithin(q, k, m) = x
    BY Zenon DEF ObjectsWithin, ObjectsFrom
  <2> HIDE DEF m, x, n
  <2>3. Got(f[m], EndOf(q, k + m), EndOf(q, k + m) - EndOf(q, k), x) /\ m <= EndOf(q, k + m)
    BY <2>1, <2>2, Zenon DEF RestStep
  <2> QED BY <1>1, <2>3
<1>6. /\ p \in 0..l /\ At(s, last) /\ last.count = 0
      /\ p = l => ~last.threw /\ last.pos = p
      /\ Remains(q, s) => last.threw /\ last.pos = first.pos /\ p < l
  BY LastRead
<1>7. Remains(q, s) => first.threw
  BY CutRead
<1>8. p = l \/ Remains(q, s)
  OBVIOUS
<1> HIDE DEF n, p, last, first, b, t, m, x, u, l
<1>9. f[m].pos = p /\ f[m].count = u /\ ~f[m].threw /\ f[m].value = x
  BY <1>5, GotFields
<1>10. m \in 0..l /\ l \in 0..l /\ l \in m..l
  BY <1>1, <1>5, <1>6 DEF m
<1>11. last.count + u = u
  BY <1>1, <1>6
<1>12. At(s, t)
  BY <1>2, <1>4, <1>10
<1>13. CASE p = l
  <2>1. Ended(s, f[m])
    BY <1>9, <1>13 DEF Ended, l
  <2>2. \A i \in m..Len(s) : f[i] = f[m]
    BY <1>2, <1>10, <2>1, StaysEnded DEF l
  <2>3. t = f[m]
    BY <1>2, <1>10, <2>2 DEF l
  <2>4. /\ At(s, t) /\ t.pos = last.pos /\ (t.threw <=> last.threw)
        /\ t.count = last.count + u /\ t.value = x
    BY <1>6, <1>9, <1>11, <1>12, <1>13, <2>3
  <2> QED BY <2>4, Zenon DEF RestRead, n, p, last, t, b, x, u
<1>14. CASE Remains(q, s)
  <2>1. ~Ended(s, f[m]) /\ first = Decode(s, f[m].pos) /\ first.threw
    BY <1>6, <1>7, <1>9, <1>14 DEF Ended, first, l
  <2>2. m + 1 \in 1..l /\ m + 1 \in 0..l /\ l \in (m + 1)..l /\ (m + 1) - 1 = m
    BY <1>1, <1>5, <1>6, <1>10, <1>14
  <2>3. f[m + 1] = OneMore(s, f[m])
    BY <1>2, <2>2 DEF Steps, l
  <2>4. f[m + 1].pos = first.pos /\ f[m + 1].threw /\ f[m + 1].count = u /\ f[m + 1].value = x
    BY <1>4, <1>9, <1>10, <2>1, <2>3, OneMoreSound
  <2>5. Ended(s, f[m + 1])
    BY <2>4 DEF Ended
  <2>6. \A i \in (m + 1)..Len(s) : f[i] = f[m + 1]
    BY <1>2, <2>2, <2>5, StaysEnded DEF l
  <2>7. t = f[m + 1]
    BY <1>2, <2>2, <2>6 DEF l
  <2>8. /\ At(s, t) /\ t.pos = last.pos /\ (t.threw <=> last.threw)
        /\ t.count = last.count + u /\ t.value = x
    BY <1>6, <1>11, <1>12, <1>14, <2>4, <2>7
  <2> QED BY <2>8, Zenon DEF RestRead, n, p, last, t, b, x, u
<1> QED BY <1>8, <1>13, <1>14

-----------------------------------------------------------------------------
(* Where the reader is.                                                    *)

\* A newer peer has nothing follow the optional part of an object: Decode does
\* not skip it (the run extended shows what happens otherwise).
NoneExtended == \A p \in PeerObjects : p.object.kind \in {"Head1", "Object1"} => p.extra = <<>>

\* The data are the octets of the queue's objects, one after the other, then
\* nothing, or the first octets of one that was cut off.
Contents ==
    /\ InPlace(queue, buffer.data)
    /\ ~damaged => EndOf(queue, Len(queue)) = Len(buffer.data)
    /\ damaged => Remains(queue, buffer.data)

\* The reader is where an object ends, or lost in what was cut off.
Reader ==
    /\ taken <= Len(queue)
    /\ ~lost => buffer.read = EndOf(queue, taken)
    /\ lost => damaged

StreamInv == TypeInv /\ Contents /\ Reader

\* What a newer peer adds may follow.
LEMMA PeerMayFollow ==
    ASSUME NoneExtended, NEW p \in PeerObjects
    PROVE  MayFollow(p.extra, p.object)
<1>1. IsData(p.extra) /\ IsNumber(Len(BodyOctets(p.object) \o p.extra))
  BY ExtensionOctets, Zenon
<1>2. p.object.kind \in DOMAIN OptionalOf => p.extra = <<>>
  <2>1. DOMAIN OptionalOf = {"Head1", "Object1"}
    BY DEF OptionalOf
  <2> QED BY <2>1, Zenon DEF NoneExtended
<1> QED BY <1>1, <1>2, Zenon DEF MayFollow

\* An empty buffer.
LEMMA EmptyStream ==
    ASSUME NEW b, b.data = <<>>, b.read = 0
    PROVE  /\ InPlace(<<>>, b.data) /\ EndOf(<<>>, Len(<<>>)) = Len(b.data)
           /\ 0 <= Len(<<>>) /\ b.read = EndOf(<<>>, 0)
<1> DEFINE q == <<>>
<1>1. q \in Seq(Stored) /\ Len(q) = 0
  BY EmptySeq
<1>2. EndOf(q, 0) = 0
  BY <1>1, EndsOf
<1>3. InPlace(q, b.data)
  BY <1>1 DEF InPlace
<1> HIDE DEF q
<1>4. Len(b.data) = 0
  OBVIOUS
<1> QED BY <1>1, <1>2, <1>3, <1>4 DEF q

\* One lemma per action again, for the stream.  The empty buffer is a stream.
LEMMA InitStream == Init => StreamInv
<1> SUFFICES ASSUME Init PROVE StreamInv
  OBVIOUS
<1>1. TypeInv
  BY InitTyped
<1>2. queue = <<>> /\ taken = 0 /\ damaged = FALSE /\ lost = FALSE /\ buffer = Buffer(0)
  BY DEF Init
<1>3. buffer.data = <<>> /\ buffer.read = 0
  BY <1>2 DEF Buffer
<1>4. InPlace(queue, buffer.data) /\ EndOf(queue, Len(queue)) = Len(buffer.data)
      /\ taken <= Len(queue) /\ buffer.read = EndOf(queue, taken)
  BY <1>2, <1>3, EmptyStream
<1> QED BY <1>1, <1>2, <1>4 DEF StreamInv, Contents, Reader

\* So is a new one.
LEMMA SupplyStream == ASSUME NEW n \in BufferSizes, Supply(n) PROVE StreamInv'
<1>1. TypeInv'
  BY SupplyTyped
<1>2. queue' = <<>> /\ taken' = 0 /\ damaged' = FALSE /\ lost' = FALSE /\ buffer' = Buffer(n)
  BY DEF Supply
<1>3. buffer'.data = <<>> /\ buffer'.read = 0
  BY <1>2 DEF Buffer
<1>4. InPlace(queue', buffer'.data) /\ EndOf(queue', Len(queue')) = Len(buffer'.data)
      /\ taken' <= Len(queue') /\ buffer'.read = EndOf(queue', taken')
  BY <1>2, <1>3, EmptyStream
<1> QED BY <1>1, <1>2, <1>4 DEF StreamInv, Contents, Reader

\* The start of the data is where the objects before the first end.
LEMMA RewindStream == ASSUME StreamInv, Rewind PROVE StreamInv'
<1> DEFINE z == 0
<1>1. TypeInv' /\ TypeInv
  BY RewindTyped DEF StreamInv
<1>2. buffer' = [buffer EXCEPT !.read = z] /\ taken' = z /\ lost' = FALSE /\ queue' = queue /\ damaged' = damaged
  BY DEF Rewind
<1> HIDE DEF z
<1>3. buffer' = [size |-> buffer.size, data |-> buffer.data, read |-> z]
  BY <1>1, <1>2, BufferChanged DEF TypeInv
<1>4. buffer'.data = buffer.data /\ buffer'.read = z
  BY <1>3
<1>5. queue \in Seq(Stored) /\ Len(queue) \in Nat /\ EndOf(queue, z) = 0 /\ z = 0
  BY <1>1, EndsOf DEF TypeInv, z
<1>6. Contents'
  BY <1>2, <1>4, Zenon DEF StreamInv, Contents
<1>7. Reader'
  BY <1>2, <1>4, <1>5 DEF Reader
<1> QED BY <1>1, <1>6, <1>7 DEF StreamInv

\* Objects appended to a buffer in which nothing is damaged.
LEMMA AppendedStream ==
    ASSUME StreamInv, ~damaged, TypeInv', Filling(queue', buffer'.data),
           buffer'.read = buffer.read, taken' = taken, damaged' = damaged, lost' = lost,
           Len(queue) <= Len(queue'), \A i \in 1..Len(queue) : queue'[i] = queue[i]
    PROVE  StreamInv'
<1>1. /\ queue \in Seq(Stored) /\ queue' \in Seq(Stored) /\ taken <= Len(queue) /\ ~lost /\ taken \in Nat
      /\ buffer.read = EndOf(queue, taken)
  BY DEF StreamInv, TypeInv, Reader
<1>2. EndOf(queue, taken) = EndOf(queue', taken)
  <2>1. Len(queue) \in Nat /\ Len(queue') \in Nat
    BY <1>1, LenProperties
  <2>2. taken \in 0..Len(queue) /\ taken <= Len(queue') /\ \A i \in 1..taken : queue[i] = queue'[i]
    BY <1>1, <2>1
  <2> QED BY <1>1, <2>2, EndsEqual
<1>3. Contents'
  BY Zenon DEF Contents, Filling
<1>4. taken <= Len(queue')
  BY <1>1, LenProperties
<1>5. Reader'
  BY <1>1, <1>2, <1>4 DEF Reader
<1> QED BY <1>3, <1>5 DEF StreamInv

\* What is in an undamaged buffer.
LEMMA Undamaged == ASSUME StreamInv, ~damaged PROVE Filling(queue, buffer.data) /\ ~lost
  BY Zenon DEF StreamInv, Contents, Filling, Reader

\* A peer appends an object to the data and to the queue.
LEMMA PeerStream ==
    ASSUME NoneExtended, StreamInv, NEW p \in PeerObjects, PeerWrites(p.object, p.extra)
    PROVE  StreamInv'
<1> DEFINE v == p.object  extra == p.extra  x == ObjectOctets(v, extra)
           e == [object |-> v, octets |-> Len(x)]  s == buffer.data
<1>1. TypeInv /\ TypeInv'
  BY PeerTyped DEF StreamInv
<1>2. ~damaged /\ buffer' = Holding(buffer, s \o x) /\ Lengthened(queue, queue', e)
      /\ taken' = taken /\ damaged' = damaged /\ lost' = lost
  BY <1>1, PeerStep, Zenon
<1>3. Filling(queue, s) /\ queue \in Seq(Stored) /\ IsData(s)
  BY <1>1, <1>2, Undamaged DEF TypeInv, IsBuffer
<1>4. v \in Sendable /\ MayFollow(extra, v)
  BY ExtensionOctets, PeerMayFollow
<1>5. e.object = v /\ e.octets = Len(x)
  OBVIOUS
<1> HIDE DEF v, extra, x, e
<1>6. Filling(queue', s \o x)
  <2>1. x = ObjectOctets(v, extra)
    BY DEF x
  <2> HIDE DEF s
  <2> QED BY <1>2, <1>3, <1>4, <1>5, <2>1, StoredInPlace
<1>7. buffer'.data = s \o x /\ buffer'.read = buffer.read
  BY <1>2 DEF Holding
<1>8. Len(queue') = Len(queue) + 1 /\ \A i \in 1..Len(queue) : queue'[i] = queue[i]
  BY <1>2 DEF Lengthened
<1>9. Len(queue) <= Len(queue')
  BY <1>3, <1>8, LenProperties
<1> HIDE DEF s
<1> QED BY <1>1, <1>2, <1>6, <1>7, <1>8, <1>9, AppendedStream

\* So does Encode, with every object that fits.
LEMMA EncodedStream ==
    ASSUME StreamInv, ~damaged, NEW vs \in Seq(Sendable), NEW r,
           Progress(buffer, vs, Len(vs), r), Encoded(vs, r)
    PROVE  StreamInv'
<1>1. TypeInv /\ TypeInv'
  BY EncodedTyped DEF StreamInv
<1>2. PICK d, k, n : /\ Reached(buffer, vs, Len(vs), d, k, n) /\ buffer' = Holding(buffer, d)
                     /\ queue' = IF buffer.size = 0 THEN queue ELSE queue \o NewEntries(vs, k)
                     /\ taken' = taken /\ damaged' = damaged /\ lost' = lost
  BY <1>1, EncodedStep
<1>3. /\ k \in 0..Len(vs) /\ (buffer.size = 0 => d = buffer.data)
      /\ \A q \in Seq(Stored) : buffer.size # 0 /\ Filling(q, buffer.data) => Filling(q \o NewEntries(vs, k), d)
  BY <1>2, Zenon DEF Reached
<1>4. Filling(queue, buffer.data) /\ queue \in Seq(Stored) /\ Len(queue) \in Nat
  BY <1>1, Undamaged, LenProperties DEF TypeInv
<1>5. buffer'.data = d /\ buffer'.read = buffer.read
  BY <1>2 DEF Holding
<1>6. Filling(queue', buffer'.data)
  BY <1>2, <1>3, <1>4, <1>5, Zenon
<1>7. Len(queue) <= Len(queue') /\ \A i \in 1..Len(queue) : queue'[i] = queue[i]
  <2> DEFINE y == NewEntries(vs, k)  S == Stored
  <2>1. y \in Seq(S) /\ queue \in Seq(S)
    BY <1>3, <1>4, NewStored
  <2> HIDE DEF y, S
  <2>2. Len(queue \o y) = Len(queue) + Len(y) /\ Len(y) \in Nat
        /\ \A i \in 1..(Len(queue) + Len(y)) : (queue \o y)[i] = IF i <= Len(queue) THEN queue[i] ELSE y[i - Len(queue)]
    BY <2>1, ConcatProperties, LenProperties
  <2>3. Len(queue) <= Len(queue \o y) /\ \A i \in 1..Len(queue) : (queue \o y)[i] = queue[i]
    BY <1>4, <2>2
  <2>4. queue' = queue \/ queue' = queue \o y
    BY <1>2 DEF y
  <2> QED BY <1>4, <2>3, <2>4
<1> QED BY <1>1, <1>2, <1>5, <1>6, <1>7, AppendedStream

\* A reader at the start of the data has taken nothing.
LEMMA NothingTaken ==
    ASSUME StreamInv, ~lost, buffer.read = 0
    PROVE  taken = 0
<1>1. queue \in Seq(Stored) /\ taken \in Nat /\ taken <= Len(queue) /\ EndOf(queue, taken) = 0
  BY Zenon DEF StreamInv, TypeInv, Reader
<1>2. taken \in 0..Len(queue) /\ 0 \in 0..taken /\ EndOf(queue, 0) = 0
  BY <1>1, EndsOf, LenProperties
<1>3. 0 # taken => EndOf(queue, 0) < EndOf(queue, taken)
  BY <1>1, <1>2, EndsOrdered
<1> QED BY <1>1, <1>2, <1>3

\* What Lose keeps is a stream, damaged if it ends inside an object.
LEMMA LoseStream == ASSUME StreamInv, NEW n \in Cuts, Lose(n) PROVE StreamInv'
<1> DEFINE kept == Len(buffer.data) - n  s == buffer.data  t == SubSeq(s, 1, kept)
<1>1. TypeInv /\ TypeInv'
  BY LoseTyped DEF StreamInv
<1>2. /\ kept \in Nat /\ kept < Len(s) /\ ~damaged /\ buffer.read = 0
      /\ buffer' = [buffer EXCEPT !.data = t] /\ taken' = taken /\ lost' = lost
      /\ \E k : LastWithin(queue, kept, k) /\ queue' = SubSeq(queue, 1, k)
                /\ damaged' = (EndOf(queue, k) < kept)
  BY <1>1, LoseKeeps, Zenon
<1>3. PICK k : LastWithin(queue, kept, k) /\ queue' = SubSeq(queue, 1, k)
               /\ damaged' = (EndOf(queue, k) < kept)
  BY <1>2
<1>4. Filling(queue, s) /\ ~lost /\ queue \in Seq(Stored) /\ IsData(s) /\ IsBuffer(buffer)
  BY <1>1, <1>2, Undamaged DEF TypeInv, IsBuffer
<1>5. buffer'.data = t /\ buffer'.read = buffer.read
  <2> HIDE DEF t
  <2>1. buffer' = [size |-> buffer.size, data |-> t, read |-> buffer.read]
    BY <1>2, <1>4, BufferChanged
  <2> QED BY <2>1
<1> HIDE DEF kept, s
<1>6. /\ queue' \in Seq(Stored) /\ Len(queue') = k /\ k < Len(queue) /\ EndOf(queue', k) = EndOf(queue, k)
      /\ Len(t) = kept /\ InPlace(queue', t)
      /\ EndOf(queue, k) < kept => Remains(queue', t)
  BY <1>2, <1>3, <1>4, Truncated
<1>7. EndOf(queue, k) <= kept /\ EndOf(queue, k) \in Nat /\ k \in Nat
  <2>1. k \in 0..Len(queue) /\ EndOf(queue, k) <= kept
    BY <1>3 DEF LastWithin
  <2> QED BY <1>4, <2>1, EndsOf
<1>8. ~(EndOf(queue, k) < kept) => EndOf(queue', Len(queue')) = Len(t)
  BY <1>2, <1>6, <1>7
<1> HIDE DEF t
<1>9. Contents'
  BY <1>3, <1>5, <1>6, <1>8, Zenon DEF Contents
<1>10. taken = 0
  BY <1>2, <1>4, NothingTaken
<1>11. Reader'
  <2>1. EndOf(queue', 0) = 0 /\ taken' = 0 /\ buffer'.read = 0 /\ ~lost'
    BY <1>2, <1>4, <1>5, <1>6, <1>10, EndsOf
  <2>2. taken' <= Len(queue')
    BY <1>6, <1>7, <2>1
  <2> QED BY <2>1, <2>2 DEF Reader
<1> QED BY <1>1, <1>9, <1>11 DEF StreamInv

\* A read of which the position is known.
LEMMA DecodedStream ==
    ASSUME StreamInv, NEW r, Decoded(r), r.pos \in 0..Len(buffer.data),
           NEW m, m = taken + Len(r.value), Len(r.value) \in Nat, m <= Len(queue),
           (r.threw /\ damaged) \/ r.pos = EndOf(queue, m)
    PROVE  StreamInv'
<1>1. TypeInv /\ TypeInv'
  BY DecodedTyped DEF StreamInv
<1>2. /\ buffer' = [buffer EXCEPT !.read = r.pos] /\ taken' = m
      /\ lost' = (r.threw /\ r.pos # End(m)) /\ queue' = queue /\ damaged' = damaged
  BY Zenon DEF Decoded
<1>3. m \in 0..Len(queue)
  BY <1>1, LenProperties DEF TypeInv
<1>4. End(m) = EndOf(queue, m)
  BY <1>3, EndInQueue
<1>5. buffer'.data = buffer.data /\ buffer'.read = r.pos
  <2> DEFINE p == r.pos
  <2>1. IsBuffer(buffer) /\ buffer' = [buffer EXCEPT !.read = p]
    BY <1>1, <1>2 DEF TypeInv
  <2> HIDE DEF p
  <2>2. buffer' = [size |-> buffer.size, data |-> buffer.data, read |-> p]
    BY <2>1, BufferChanged
  <2>3. buffer'.data = buffer.data /\ buffer'.read = p
    BY <2>2
  <2> QED BY <2>3 DEF p
<1>6. Contents'
  BY <1>2, <1>5, Zenon DEF StreamInv, Contents
<1>7. (~lost' => r.pos = EndOf(queue, m)) /\ (lost' => damaged)
  BY <1>2, <1>4, Zenon
<1>8. Reader'
  BY <1>2, <1>5, <1>7 DEF Reader
<1> QED BY <1>1, <1>6, <1>8 DEF StreamInv

\* Where the reader reads from.
LEMMA ReaderPlace ==
    ASSUME StreamInv, ~lost, NEW s, s = buffer.data, NEW p, p = buffer.read
    PROVE  /\ queue \in Seq(Stored) /\ IsData(s) /\ Len(s) \in Nat /\ Len(queue) \in Nat
           /\ taken \in 0..Len(queue) /\ p = EndOf(queue, taken) /\ p \in 0..Len(s)
           /\ InPlace(queue, s)
           /\ ~damaged => EndOf(queue, Len(queue)) = Len(s)
           /\ damaged => Remains(queue, s)
<1>1. /\ queue \in Seq(Stored) /\ IsData(s) /\ taken \in Nat /\ taken <= Len(queue) /\ p = EndOf(queue, taken)
      /\ p \in 0..Len(s)
      /\ InPlace(queue, s)
      /\ ~damaged => EndOf(queue, Len(queue)) = Len(s)
      /\ damaged => Remains(queue, s)
  BY Zenon DEF StreamInv, TypeInv, IsBuffer, Contents, Reader
<1>2. Len(queue) \in Nat /\ Len(s) \in Nat
  BY <1>1, LenProperties DEF IsData
<1> QED BY <1>1, <1>2

\* What Decode makes of one object: the next, or an exception at the end.
LEMMA OneRead ==
    ASSUME StreamInv, ~lost, NEW s, s = buffer.data, NEW r, r = Decode(s, buffer.read)
    PROVE  /\ IsRead(r) /\ r.pos \in 0..Len(s)
           /\ taken < Len(queue) =>
                 /\ Got(r, EndOf(queue, taken + 1), queue[taken + 1].octets, queue[taken + 1].object)
           /\ taken = Len(queue) => r.threw /\ (~damaged => r.pos = EndOf(queue, taken))
           /\ taken < Len(queue) \/ taken = Len(queue)
<1> DEFINE p == buffer.read
<1>1. /\ queue \in Seq(Stored) /\ IsData(s) /\ Len(s) \in Nat /\ Len(queue) \in Nat
      /\ taken \in 0..Len(queue) /\ p = EndOf(queue, taken) /\ p \in 0..Len(s)
      /\ InPlace(queue, s)
      /\ ~damaged => EndOf(queue, Len(queue)) = Len(s)
      /\ damaged => Remains(queue, s)
  BY ReaderPlace
<1>2. r = Decode(s, p)
  OBVIOUS
<1> HIDE DEF p
<1>3. At(s, r)
  BY <1>1, <1>2, DecodeSound DEF Sound
<1>4. IsRead(r) /\ r.pos \in 0..Len(s)
  BY <1>1, <1>3 DEF At
<1>5. ASSUME taken < Len(queue)
      PROVE  Got(r, EndOf(queue, taken + 1), queue[taken + 1].octets, queue[taken + 1].object)
  <2> DEFINE k == taken + 1
  <2>1. k \in 1..Len(queue) /\ k - 1 = taken
    BY <1>1, <1>5
  <2> HIDE DEF k
  <2>2. Got(Decode(s, EndOf(queue, k - 1)), EndOf(queue, k), queue[k].octets, queue[k].object)
    BY <1>1, <2>1, NextRead
  <2> QED BY <1>1, <1>2, <2>1, <2>2 DEF k
<1>6. ASSUME taken = Len(queue) PROVE r.threw /\ (~damaged => r.pos = EndOf(queue, taken))
  <2>1. CASE damaged
    <3>1. Decode(s, EndOf(queue, Len(queue))).threw
      BY <1>1, <2>1, CutRead
    <3> QED BY <1>1, <1>2, <1>6, <2>1, <3>1
  <2>2. CASE ~damaged
    <3>1. p = Len(s)
      BY <1>1, <1>6, <2>2
    <3>2. Decode(s, p).threw /\ Decode(s, p).pos = p
      BY <1>1, <3>1, NoneRead
    <3> QED BY <1>1, <1>2, <3>2
  <2> QED BY <2>1, <2>2
<1> QED BY <1>1, <1>4, <1>5, <1>6

\* What Decode makes of all of the objects.
LEMMA AllRead ==
    ASSUME StreamInv, ~lost, NEW s, s = buffer.data, NEW r, r = DecodeObjects(s, buffer.read)
    PROVE  /\ r.pos \in 0..Len(s) /\ r.value = ObjectsFrom(queue, taken)
           /\ Len(r.value) = Len(queue) - taken /\ Len(queue) - taken \in Nat /\ taken + Len(r.value) = Len(queue)
           /\ ~damaged => ~r.threw /\ r.pos = EndOf(queue, Len(queue))
                          /\ r.count = EndOf(queue, Len(queue)) - EndOf(queue, taken)
           /\ damaged => r.threw /\ r.pos = Decode(s, EndOf(queue, Len(queue))).pos
<1> DEFINE p == buffer.read  n == Len(queue)  e == EndOf(queue, n)  last == DecodeObjects(s, e)
<1>1. /\ queue \in Seq(Stored) /\ IsData(s) /\ Len(s) \in Nat /\ n \in Nat
      /\ taken \in 0..n /\ p = EndOf(queue, taken) /\ p \in 0..Len(s)
      /\ InPlace(queue, s)
      /\ ~damaged => e = Len(s)
      /\ damaged => Remains(queue, s)
  BY ReaderPlace
<1>2. e = Len(s) \/ Remains(queue, s)
  BY <1>1
<1>3. RestRead(queue, s, taken, r)
  <2>1. \A k \in 0..n : RestRead(queue, s, k, DecodeObjects(s, EndOf(queue, k)))
    BY <1>1, <1>2, RestGiven
  <2>2. r = DecodeObjects(s, EndOf(queue, taken))
    BY <1>1
  <2> QED BY <1>1, <2>1, <2>2, Zenon
<1>4. /\ e \in 0..Len(s) /\ At(s, last)
      /\ e = Len(s) => ~last.threw /\ last.pos = e /\ last.count = 0
      /\ Remains(queue, s) => last.threw /\ last.pos = Decode(s, e).pos
  BY <1>1, <1>2, LastRead
<1>5. /\ At(s, r) /\ r.pos = last.pos /\ (r.threw <=> last.threw)
      /\ r.count = last.count + (e - EndOf(queue, taken)) /\ r.value = ObjectsFrom(queue, taken)
  BY <1>3, Zenon DEF RestRead
<1>6. EndOf(queue, taken) \in Nat /\ e \in Nat
  BY <1>1, <1>4
<1> HIDE DEF e, last, p
<1>7. n - taken \in Nat /\ Len(ObjectsFrom(queue, taken)) = n - taken
  <2> DEFINE m == n - taken  O(i) == queue[i].object
  <2>1. m \in Nat
    BY <1>1
  <2> HIDE DEF m, O
  <2>2. Len([i \in 1..m |-> O(taken + i)]) = m
    <3>1. [i \in 1..m |-> O(taken + i)] \in [1..m -> {O(taken + i) : i \in 1..m}]
      OBVIOUS
    <3> QED BY <2>1, <3>1, SeqDef
  <2> QED BY <2>1, <2>2 DEF ObjectsFrom, m, O
<1>8. Len(r.value) = n - taken /\ taken + Len(r.value) = n
  BY <1>1, <1>5, <1>7
<1>9. r.pos \in 0..Len(s)
  BY <1>1, <1>5 DEF At
<1>10. ~damaged => ~r.threw /\ r.pos = e /\ r.count = e - EndOf(queue, taken)
  <2> DEFINE x == EndOf(queue, taken)  y == last.count
  <2>1. ~damaged => y = 0 /\ ~r.threw /\ r.pos = e
    BY <1>1, <1>4, <1>5
  <2>2. r.count = y + (e - x) /\ e \in Nat /\ x \in Nat
    BY <1>5, <1>6
  <2> HIDE DEF x, y
  <2>3. ~damaged => r.count = e - x
    BY <2>1, <2>2
  <2> QED BY <2>1, <2>3 DEF x
<1>11. damaged => r.threw /\ r.pos = Decode(s, e).pos
  BY <1>1, <1>4, <1>5
<1> QED BY <1>5, <1>7, <1>8, <1>9, <1>10, <1>11 DEF e

\* Decoding moves the reader from one end to another, or loses it in what was
\* cut off.
LEMMA DecodeStream == ASSUME StreamInv, DecodeOne \/ DecodeVector PROVE StreamInv'
<1> DEFINE s == buffer.data  p == buffer.read
<1>1. CASE DecodeOne
  <2> DEFINE r == Decode(s, p)  u == Single(r)
  <2>1. Decoded(u) /\ ~lost
    BY <1>1, Zenon DEF DecodeOne, Decoded
  <2>2. /\ IsRead(r) /\ r.pos \in 0..Len(s)
        /\ taken < Len(queue) =>
              Got(r, EndOf(queue, taken + 1), queue[taken + 1].octets, queue[taken + 1].object)
        /\ taken = Len(queue) => r.threw /\ (~damaged => r.pos = EndOf(queue, taken))
        /\ taken < Len(queue) \/ taken = Len(queue)
    BY <2>1, OneRead
  <2>3. taken \in Nat /\ Len(queue) \in Nat
    BY LenProperties DEF StreamInv, TypeInv
  <2> HIDE DEF r, u
  <2>4. u.pos = r.pos /\ u.threw = r.threw /\ u.value = (IF r.threw THEN <<>> ELSE <<r.value>>)
        /\ Len(u.value) \in Nat
    BY <2>2, SingleFields DEF u
  <2>5. CASE taken < Len(queue)
    <3>1. r.pos = EndOf(queue, taken + 1) /\ ~r.threw
      BY <2>2, <2>5, GotFields
    <3>2. Len(u.value) = 1
      BY <2>4, <3>1
    <3>3. taken + Len(u.value) <= Len(queue) /\ u.pos = EndOf(queue, taken + Len(u.value))
          /\ u.pos \in 0..Len(buffer.data)
      BY <2>2, <2>3, <2>4, <2>5, <3>1, <3>2
    <3> QED BY <2>1, <2>4, <3>3, DecodedStream
  <2>6. CASE taken = Len(queue)
    <3>1. u.value = <<>> /\ u.threw
      BY <2>2, <2>4, <2>6
    <3>2. Len(u.value) = 0
      BY <3>1
    <3>3. taken + Len(u.value) = taken
      BY <2>3, <3>2
    <3>4. taken + Len(u.value) <= Len(queue) /\ u.pos \in 0..Len(buffer.data)
          /\ ((u.threw /\ damaged) \/ u.pos = EndOf(queue, taken + Len(u.value)))
      BY <2>2, <2>3, <2>4, <2>6, <3>1, <3>3
    <3> QED BY <2>1, <2>4, <3>4, DecodedStream
  <2> QED BY <2>2, <2>5, <2>6
<1>2. CASE DecodeVector
  <2> DEFINE r == DecodeObjects(s, p)
  <2>1. Decoded(r) /\ ~lost
    BY <1>2, Zenon DEF DecodeVector, Decoded
  <2>2. /\ r.pos \in 0..Len(s) /\ Len(r.value) = Len(queue) - taken /\ Len(queue) - taken \in Nat
        /\ taken + Len(r.value) = Len(queue)
        /\ ~damaged => r.pos = EndOf(queue, Len(queue))
        /\ damaged => r.threw
    BY <2>1, AllRead
  <2>3. Len(queue) \in Nat
    BY LenProperties DEF StreamInv, TypeInv
  <2> HIDE DEF r
  <2>4. /\ taken + Len(r.value) <= Len(queue) /\ Len(r.value) \in Nat /\ r.pos \in 0..Len(buffer.data)
        /\ (r.threw /\ damaged) \/ r.pos = EndOf(queue, taken + Len(r.value))
    BY <2>2, <2>3
  <2> QED BY <2>1, <2>4, DecodedStream
<1> QED BY <1>1, <1>2

\* The stream invariant is inductive, if no peer extends a Head1 or Object1.
LEMMA StepStream == NoneExtended /\ StreamInv /\ [Next]_vars => StreamInv'
<1> SUFFICES ASSUME NoneExtended, StreamInv, [Next]_vars PROVE StreamInv'
  OBVIOUS
<1>0. TypeInv
  BY DEF StreamInv
<1>1. CASE UNCHANGED vars
  BY <1>1 DEF vars, StreamInv, TypeInv, Contents, Reader
<1>2. CASE \E n \in BufferSizes : Supply(n)
  BY <1>2, SupplyStream
<1>3. CASE Rewind
  BY <1>3, RewindStream
<1>4. CASE \E p \in PeerObjects : PeerWrites(p.object, p.extra)
  BY <1>4, PeerStream
<1>5. CASE \E n \in Cuts : Lose(n)
  BY <1>5, LoseStream
<1>6. CASE \E vs \in ObjectVectors : Len(vs) = 1 /\ EncodeOne(vs[1])
  <2>1. PICK vs \in ObjectVectors : Len(vs) = 1 /\ EncodeOne(vs[1])
    BY <1>6
  <2>2. PICK r : Progress(buffer, <<vs[1]>>, 1, r) /\ Encoded(<<vs[1]>>, r) /\ ~damaged
                 /\ <<vs[1]>> \in Seq(Sendable) /\ Len(<<vs[1]>>) = 1
    BY <1>0, <2>1, EncodeSteps, Zenon
  <2> DEFINE us == <<vs[1]>>
  <2>3. us \in Seq(Sendable) /\ Progress(buffer, us, Len(us), r) /\ Encoded(us, r) /\ ~damaged
    BY <2>2, Zenon
  <2> HIDE DEF us
  <2> QED BY <2>3, EncodedStream
<1>7. CASE \E vs \in ObjectVectors : EncodeVector(vs)
  <2>1. PICK vs \in ObjectVectors : EncodeVector(vs)
    BY <1>7
  <2>2. vs \in Seq(Sendable) /\ \E r : Progress(buffer, vs, Len(vs), r) /\ Encoded(vs, r) /\ ~damaged
    BY <1>0, <2>1, EncodeSteps, Zenon
  <2> QED BY <2>2, EncodedStream
<1>8. CASE DecodeOne \/ DecodeVector
  BY <1>8, DecodeStream
<1> QED BY <1>1, <1>2, <1>3, <1>4, <1>5, <1>6, <1>7, <1>8 DEF Next

\* The invariant says more than Aligned.
LEMMA StreamAligned == StreamInv => Aligned
<1> SUFFICES ASSUME StreamInv, ~lost PROVE taken <= Len(queue) /\ buffer.read = End(taken)
  BY Zenon DEF Aligned
<1>1. /\ taken \in 0..Len(queue) /\ buffer.read = EndOf(queue, taken) /\ Len(queue) \in Nat
  BY ReaderPlace
<1>2. End(taken) = EndOf(queue, taken)
  BY <1>1, EndInQueue
<1> QED BY <1>1, <1>2

\* Unless a peer has more octets follow the optional part of a Head1 or an
\* Object1, the position is where an object ends after any Encode, Decode and
\* loss: the reader never takes the middle of an object for the start of the
\* next one (gs_decoder.cpp:250 and 579, "Discard any octets not understood").
THEOREM ReaderAligned == ASSUME NoneExtended PROVE Spec => []Aligned
<1>1. Init => StreamInv
  BY InitStream
<1>2. StreamInv /\ [Next]_vars => StreamInv'
  BY StepStream
<1>3. StreamInv => Aligned
  BY StreamAligned
<1> QED BY <1>1, <1>2, <1>3, PTL DEF Spec

-----------------------------------------------------------------------------
(* Octets that are not understood make an object no shorter.               *)

\* The octets that a number takes.
Width(n) == IF n < 128 THEN 1 ELSE IF n < 16384 THEN 2 ELSE IF n < 2097152 THEN 3 ELSE 5

\* A number takes the shortest form that its word fits.
LEMMA NumberWidth ==
    ASSUME NEW n, IsNumber(n)
    PROVE  Len(NumberOctets(n)) = Width(n)
<1> DEFINE a == n \div 65536  b == (n \div 256) % 256  c == n % 256  w == WordOf(n)
<1>1. n \in Nat /\ n < 16777216
  BY DEF IsNumber, Huge
<1>2. a \in 0..255 /\ b \in 0..255 /\ c \in 0..255 /\ 65536 * a + 256 * b + c = n
  BY <1>1
<1>3. w = <<0, 0, 0, 0, 0, a, b, c>>
  BY DEF WordOf
<1>4. w \in Word
  BY SmallNumbers DEF IsNumber
<1>5. NumberOctets(n) = Joined(VarUintPieces(w))
  BY NumberShape
<1> HIDE DEF a, b, c
<1>6. w[1] = 0 /\ w[2] = 0 /\ w[3] = 0 /\ w[4] = 0 /\ w[5] = 0 /\ w[6] = a /\ w[7] = b /\ w[8] = c
  BY <1>3
<1> HIDE DEF w
<1>7. (Leads(w, 7, 0) <=> a = 0 /\ b = 0) /\ (Leads(w, 6, 0) <=> a = 0) /\ Leads(w, 5, 0)
  <2>1. 1..7 = {1, 2, 3, 4, 5, 6, 7} /\ 1..6 = {1, 2, 3, 4, 5, 6} /\ 1..5 = {1, 2, 3, 4, 5}
    OBVIOUS
  <2>2. (\A i \in {1, 2, 3, 4, 5, 6, 7} : w[i] = 0) <=> a = 0 /\ b = 0
    BY <1>6
  <2>3. ((\A i \in {1, 2, 3, 4, 5, 6} : w[i] = 0) <=> a = 0) /\ \A i \in {1, 2, 3, 4, 5} : w[i] = 0
    BY <1>6
  <2> QED BY <2>1, <2>2, <2>3 DEF Leads
<1>8. CASE n < 128
  <2>1. a = 0 /\ b = 0 /\ c < 128
    BY <1>2, <1>8
  <2>2. VarUintPieces(w) = <<<<c>>>>
    BY <1>6, <1>7, <2>1 DEF VarUintPieces
  <2>3. NumberOctets(n) = <<c>>
    BY <1>4, <1>5, <2>2, JoinedForms
  <2> QED BY <1>8, <2>3 DEF Width
<1>9. CASE n >= 128 /\ n < 16384
  <2>1. a = 0 /\ b < 64 /\ ~(b = 0 /\ c < 128)
    BY <1>2, <1>9
  <2>2. VarUintPieces(w) = <<<<128 + b, c>>>>
    BY <1>6, <1>7, <2>1 DEF VarUintPieces
  <2>3. NumberOctets(n) = <<128 + b, c>>
    BY <1>4, <1>5, <2>2, JoinedForms
  <2> QED BY <1>1, <1>9, <2>3 DEF Width
<1>10. CASE n >= 16384 /\ n < 2097152
  <2>1. a < 32 /\ ~(a = 0 /\ b < 64)
    BY <1>2, <1>10
  <2>2. b < 64 \/ ~(b < 64)
    OBVIOUS
  <2>3. VarUintPieces(w) = Three(w)
    BY <1>2, <1>6, <1>7, <2>1 DEF VarUintPieces
  <2>4. NumberOctets(n) = <<192 + (w[6] % 32), w[7], w[8]>>
    BY <1>4, <1>5, <2>3, JoinedForms
  <2> QED BY <1>1, <1>10, <2>4 DEF Width
<1>11. CASE n >= 2097152
  <2>1. a >= 32
    BY <1>2, <1>11
  <2>2. Leads(w, 4, 0)
    BY <1>6 DEF Leads
  <2>3. VarUintPieces(w) = WithE1(w)
    BY <1>2, <1>6, <1>7, <2>1, <2>2 DEF VarUintPieces
  <2>4. NumberOctets(n) = <<225, w[5], w[6], w[7], w[8]>>
    BY <1>4, <1>5, <2>3, JoinedForms
  <2> QED BY <1>1, <1>11, <2>4 DEF Width
<1> QED BY <1>1, <1>8, <1>9, <1>10, <1>11

\* An object with octets that are not understood is no shorter than without.
LEMMA ExtendedLength ==
    ASSUME NEW v, IsObject(v), v.kind # "Unknown", NEW extra, IsData(extra),
           IsNumber(Len(BodyOctets(v) \o extra))
    PROVE  Len(OwnOctets(v)) <= Len(ObjectOctets(v, extra))
<1> DEFINE body == BodyOctets(v)  more == body \o extra  none == <<>>  bare == body \o none
           n == Len(body)  m == Len(more)  tag == TagOf[v.kind]
<1>1. IsData(body) /\ IsNumber(n) /\ v.kind \in Kinds /\ IsNumber(m)
  BY ObjectDescribed DEF Described
<1>2. IsNumber(tag)
  BY <1>1, TagNumbers
<1>3. bare = body
  <2> HIDE DEF body
  <2> QED BY <1>1, ConcatEmptySeq DEF IsData
<1>4. OwnOctets(v) = Framed(tag, body) /\ ObjectOctets(v, extra) = Framed(tag, more)
  BY <1>3, Zenon DEF OwnOctets, ObjectOctets
<1> HIDE DEF body, tag
<1>5. IsData(more) /\ m = n + Len(extra) /\ Len(extra) \in Nat /\ n \in Nat
  BY <1>1, DataBoth
<1> HIDE DEF more
<1>6. Len(Framed(tag, body)) = Len(NumberOctets(tag)) + (Len(NumberOctets(n)) + n)
  BY <1>1, <1>2, FramedShape
<1>7. Len(Framed(tag, more)) = Len(NumberOctets(tag)) + (Len(NumberOctets(m)) + m)
  BY <1>1, <1>2, <1>5, FramedShape
<1>8. Len(NumberOctets(n)) = Width(n) /\ Len(NumberOctets(m)) = Width(m) /\ Len(NumberOctets(tag)) \in Nat
  BY <1>1, <1>2, NumberWidth, NumberShape
<1> HIDE DEF n, m
<1>9. Width(n) <= Width(m) /\ n <= m /\ Width(n) \in Nat /\ Width(m) \in Nat /\ m \in Nat
  BY <1>5 DEF Width
<1> DEFINE l == Len(NumberOctets(tag))  wn == Width(n)  wm == Width(m)
<1> HIDE DEF l, wn, wm
<1>10. l + (wn + n) <= l + (wm + m)
  BY <1>5, <1>8, <1>9 DEF l, wn, wm
<1> QED BY <1>4, <1>6, <1>7, <1>8, <1>10 DEF l, wn, wm

-----------------------------------------------------------------------------
(* The buffer is a queue of objects.                                       *)

\* The two sums are the same.
LEMMA SameTotal == ASSUME NEW q PROVE Queue!Total(q) = OctetsOf(q)
  BY DEF Queue!Total, OctetsOf

\* An undamaged buffer is full of its queue.
LEMMA TotalIsData ==
    ASSUME StreamInv, ~damaged
    PROVE  Queue!Total(queue) = Len(buffer.data)
<1>1. queue \in Seq(Stored) /\ EndOf(queue, Len(queue)) = Len(buffer.data)
  BY Undamaged DEF StreamInv, TypeInv, Filling
<1>2. EndOf(queue, Len(queue)) = OctetsOf(queue)
  BY <1>1, EndsOf
<1> QED BY <1>1, <1>2, SameTotal

\* The initial state is one of a queue.
LEMMA InitRefines == Init => Queue!Init
  BY DEF Init, Buffer, Result, Queue!Init

\* One lemma per action: which step of the queue it is.
LEMMA SupplyRefines == ASSUME NEW n \in BufferSizes, Supply(n) PROVE Queue!Supply
<1>1. n \in Nat
  BY StreamAssumption
<1>2. buffer'.size = n
  BY DEF Supply, Buffer
<1> QED BY <1>1, <1>2 DEF Supply, Result, Queue!Supply, Queue!Ok

\* A Rewind.
LEMMA RewindRefines == ASSUME TypeInv, Rewind PROVE Queue!Rewind
<1> DEFINE z == 0
<1>1. buffer' = [buffer EXCEPT !.read = z] /\ IsBuffer(buffer)
  BY Zenon DEF Rewind, TypeInv
<1> HIDE DEF z
<1>2. buffer'.size = buffer.size
  <2>1. buffer' = [size |-> buffer.size, data |-> buffer.data, read |-> z]
    BY <1>1, BufferChanged
  <2> QED BY <2>1
<1>3. taken' = 0 /\ lost' = FALSE /\ queue' = queue /\ damaged' = damaged
      /\ out' = Result("Client", 0, 0, FALSE, <<>>)
  BY DEF Rewind
<1> QED BY <1>2, <1>3 DEF Result, Queue!Rewind, Queue!Ok

\* What a newer peer appends is Foreign: it takes what the object does, or more.
LEMMA PeerRefines ==
    ASSUME StreamInv, NEW p \in PeerObjects, PeerWrites(p.object, p.extra)
    PROVE  queue' # <<>> /\ LET e == queue'[Len(queue')] IN Queue!Foreign(e.object, e.octets)
<1> DEFINE v == p.object  x == ObjectOctets(v, p.extra)  n == Len(x)
           e == [object |-> v, octets |-> n]  last == queue'[Len(queue')]
<1>1. /\ ~damaged /\ buffer' = Holding(buffer, buffer.data \o x)
      /\ Len(buffer.data) + n <= buffer.size
      /\ queue' = Append(queue, e) /\ Lengthened(queue, queue', e)
      /\ out' = Result("Client", 0, 0, FALSE, <<>>)
      /\ taken' = taken /\ damaged' = damaged /\ lost' = lost
  BY PeerStep, Zenon DEF StreamInv
<1>2. buffer'.size = buffer.size
  BY <1>1 DEF Holding
<1>3. Len(queue) \in Nat
  BY LenProperties DEF StreamInv, TypeInv
<1> HIDE DEF e
<1>4. last = e /\ queue' # <<>>
  <2>1. Len(queue') = Len(queue) + 1 /\ queue'[Len(queue) + 1] = e
    BY <1>1 DEF Lengthened
  <2> QED BY <1>3, <2>1
<1>5. last.object = v /\ last.octets = n /\ Queue!Entry(v, n) = e
  BY <1>4 DEF e, Queue!Entry
<1>6. Queue!Total(queue) + n <= buffer.size
  BY <1>1, TotalIsData
<1>7. n >= LengthWritten(v)
  <2>1. /\ v \in Sendable /\ IsObject(v) /\ v.kind # "Unknown" /\ IsData(x) /\ n \in Nat \ {0}
        /\ IsData(p.extra) /\ IsNumber(Len(BodyOctets(v) \o p.extra))
    BY ExtensionOctets, Zenon
  <2>2. Len(OwnOctets(v)) <= n
    <3> DEFINE extra == p.extra
    <3>1. x = ObjectOctets(v, extra)
      OBVIOUS
    <3> HIDE DEF v, extra, x
    <3> QED BY <2>1, <3>1, ExtendedLength DEF extra
  <2>3. Length(Written(v)) = Len(OwnOctets(v)) /\ Len(OwnOctets(v)) \in Nat
    BY <2>1, OwnOctetsShape
  <2> QED BY <2>1, <2>2, <2>3 DEF LengthWritten
<1> HIDE DEF v, n, last
<1>8. Queue!Foreign(v, n)
  <2>1. Queue!Ok("Client", 0, 0, <<>>)
    BY <1>1 DEF Result, Queue!Ok
  <2> QED BY <1>1, <1>2, <1>5, <1>6, <1>7, <2>1 DEF Queue!Foreign
<1> QED BY <1>4, <1>5, <1>8, Zenon DEF last

\* A loss keeps some of the objects, and may leave a part of the next one.
LEMMA LoseRefines ==
    ASSUME StreamInv, NEW n \in Cuts, Lose(n)
    PROVE  \E k \in 0..Len(queue) : Queue!Truncate(k)
<1> DEFINE kept == Len(buffer.data) - n  s == buffer.data  t == SubSeq(s, 1, kept)
<1>1. TypeInv
  BY DEF StreamInv
<1>2. /\ kept \in Nat /\ kept < Len(s) /\ ~damaged /\ buffer.read = 0
      /\ buffer' = [buffer EXCEPT !.data = t] /\ taken' = taken /\ lost' = lost
      /\ \E k : LastWithin(queue, kept, k) /\ queue' = SubSeq(queue, 1, k)
                /\ damaged' = (EndOf(queue, k) < kept)
  BY <1>1, LoseKeeps, Zenon
<1>3. PICK k : LastWithin(queue, kept, k) /\ queue' = SubSeq(queue, 1, k)
               /\ damaged' = (EndOf(queue, k) < kept)
  BY <1>2
<1>4. Filling(queue, s) /\ ~lost /\ queue \in Seq(Stored) /\ IsData(s) /\ IsBuffer(buffer)
  BY <1>1, <1>2, Undamaged DEF TypeInv, IsBuffer
<1>5. buffer'.size = buffer.size
  <2> HIDE DEF t
  <2>1. buffer' = [size |-> buffer.size, data |-> t, read |-> buffer.read]
    BY <1>2, <1>4, BufferChanged
  <2> QED BY <2>1
<1> HIDE DEF kept, s
<1>6. k < Len(queue) /\ k \in 0..Len(queue)
  BY <1>2, <1>3, <1>4, Truncated DEF LastWithin
<1>7. taken = 0
  BY <1>2, <1>4, NothingTaken
<1>8. damaged' \in BOOLEAN
  BY LoseTyped, Zenon DEF StreamInv, TypeInv
<1>9. Queue!Ok("Client", 0, 0, <<>>)
  BY DEF Lose, Result, Queue!Ok
<1> QED BY <1>2, <1>3, <1>5, <1>6, <1>7, <1>8, <1>9 DEF Queue!Truncate

\* What Encode puts in the buffer are the first objects and their lengths.
LEMMA EntriesOfFirst ==
    ASSUME NEW vs \in Seq(Sendable), NEW k \in 0..Len(vs)
    PROVE  /\ Queue!Entries(SubSeq(vs, 1, k)) = NewEntries(vs, k)
           /\ Queue!Entries(vs) = NewEntries(vs, Len(vs))
<1> DEFINE u == SubSeq(vs, 1, k)  S == Sendable
<1>1. u \in Seq(S) /\ Len(u) = k /\ (\A i \in 1..k : u[i] = vs[i]) /\ vs \in Seq(S)
  <2> HIDE DEF S
  <2>1. vs \in Seq(S)
    BY DEF S
  <2> QED BY <2>1, FirstPart
<1> HIDE DEF u, S
<1>2. DOMAIN u = 1..k /\ DOMAIN vs = 1..Len(vs)
  BY <1>1, LenProperties
<1>3. Queue!Entries(u) = [i \in 1..k |-> Queue!Entry(u[i], LengthWritten(u[i]))]
  BY <1>2, Zenon DEF Queue!Entries
<1>4. Queue!Entries(vs) = [i \in 1..Len(vs) |-> Queue!Entry(vs[i], LengthWritten(vs[i]))]
  BY <1>2, Zenon DEF Queue!Entries
<1>5. \A v : Queue!Entry(v, LengthWritten(v)) = [object |-> v, octets |-> Length(Written(v))]
  BY Zenon DEF Queue!Entry, LengthWritten
<1> DEFINE E(v) == Queue!Entry(v, LengthWritten(v))  N(v) == [object |-> v, octets |-> Length(Written(v))]
<1>6. \A v : E(v) = N(v)
  BY <1>5
<1> HIDE DEF E, N
<1>7. [i \in 1..k |-> E(u[i])] = [i \in 1..k |-> N(vs[i])]
  BY <1>1, <1>6
<1>8. [i \in 1..Len(vs) |-> E(vs[i])] = [i \in 1..Len(vs) |-> N(vs[i])]
  BY <1>6
<1> QED BY <1>3, <1>4, <1>7, <1>8, Zenon DEF E, N, NewEntries, u

\* Encode measures objects, or puts the first of them in the queue, and stops
\* only at one that does not fit.
LEMMA EncodedRefines ==
    ASSUME StreamInv, ~damaged, NEW vs \in Seq(Sendable), NEW r,
           Progress(buffer, vs, Len(vs), r), Encoded(vs, r)
    PROVE  \/ Queue!Measure(out'.values)
           \/ out'.objects <= Len(out'.values) /\ Queue!Put(out'.values, out'.objects)
<1>1. PICK d, k, n : /\ Reached(buffer, vs, Len(vs), d, k, n) /\ buffer' = Holding(buffer, d)
                     /\ queue' = IF buffer.size = 0 THEN queue ELSE queue \o NewEntries(vs, k)
                     /\ out' = Result("Encode", k, n, FALSE, vs)
                     /\ taken' = taken /\ damaged' = damaged /\ lost' = lost
  BY EncodedStep, Zenon DEF StreamInv
<1>2. /\ k \in 0..Len(vs) /\ n = OctetsOf(NewEntries(vs, k)) /\ n \in Nat /\ IsData(d)
      /\ Len(d) <= buffer.size
      /\ buffer.size = 0 => k = Len(vs) /\ d = buffer.data
      /\ buffer.size # 0 => Len(d) = Len(buffer.data) + n
      /\ k < Len(vs) => Len(d) + Len(OwnOctets(vs[k + 1])) > buffer.size
  BY <1>1, Zenon DEF Reached
<1>3. buffer'.size = buffer.size
  BY <1>1 DEF Holding
<1>4. out'.values = vs /\ out'.objects = k /\ Queue!Ok("Encode", k, n, vs)
  BY <1>1 DEF Result, Queue!Ok
<1>5. /\ buffer.size \in Nat /\ Len(buffer.data) \in Nat /\ Len(vs) \in Nat
      /\ Queue!Total(queue) = Len(buffer.data)
  BY LenProperties, TotalIsData DEF StreamInv, TypeInv, IsBuffer, IsData
<1>6. CASE buffer.size = 0
  <2>1. k = Len(vs) /\ Queue!Entries(vs) = NewEntries(vs, Len(vs))
    BY <1>2, <1>6, EntriesOfFirst
  <2>2. n = Queue!Total(Queue!Entries(vs))
    BY <1>2, <2>1, SameTotal
  <2>3. Queue!Measure(vs)
    BY <1>1, <1>3, <1>4, <1>6, <2>1, <2>2, Zenon DEF Queue!Measure
  <2> QED BY <1>4, <2>3
<1>7. CASE buffer.size # 0
  <2> DEFINE new == Queue!Entries(SubSeq(vs, 1, k))
  <2>1. new = NewEntries(vs, k)
    BY <1>2, EntriesOfFirst
  <2>2. n = Queue!Total(new)
    BY <1>2, <2>1, SameTotal
  <2>3. Queue!Total(queue) + Queue!Total(new) = Len(d)
    BY <1>2, <1>5, <1>7, <2>2
  <2>4. k < Len(vs) => Queue!Total(queue) + Queue!Total(new) + LengthWritten(vs[k + 1]) > buffer.size
    <3> SUFFICES ASSUME k < Len(vs)
                 PROVE  Queue!Total(queue) + Queue!Total(new) + LengthWritten(vs[k + 1]) > buffer.size
      OBVIOUS
    <3> DEFINE v == vs[k + 1]
    <3>1. k + 1 \in 1..Len(vs)
      BY <1>2, <1>5
    <3>2. v \in Sendable
      BY <3>1, ElementOfSeq
    <3>3. LengthWritten(v) = Len(OwnOctets(v))
      BY <3>2, OwnOctetsShape DEF LengthWritten
    <3> HIDE DEF new
    <3> QED BY <1>2, <2>3, <3>3
  <2> HIDE DEF new
  <2>5. buffer.size > 0 /\ k <= Len(vs)
    BY <1>2, <1>5, <1>7
  <2>6. Queue!Put(vs, k)
    <3>1. queue' = queue \o new /\ Queue!Ok("Encode", k, Queue!Total(new), vs)
      BY <1>1, <1>4, <1>7, <2>1, <2>2
    <3>2. Queue!Total(queue) + Queue!Total(new) <= buffer.size
      BY <1>2, <2>3
    <3> QED BY <1>1, <1>3, <2>4, <2>5, <3>1, <3>2, Zenon DEF Queue!Put, new
  <2> QED BY <1>4, <2>5, <2>6
<1> QED BY <1>6, <1>7

\* The rest of a sequence.
LEMMA LastPart ==
    ASSUME NEW S, NEW q \in Seq(S), NEW k \in 0..Len(q), NEW j \in k..Len(q)
    PROVE  /\ SubSeq(q, k + 1, j) \in Seq(S) /\ Len(SubSeq(q, k + 1, j)) = j - k
           /\ \A i \in 1..(j - k) : SubSeq(q, k + 1, j)[i] = q[k + i]
<1> DEFINE a == k + 1  u == SubSeq(q, a, j)
<1>1. Len(q) \in Nat /\ k \in Nat /\ j \in Nat /\ k <= j /\ j <= Len(q)
  BY LenProperties
<1>2. a \in Int /\ a = k + 1 /\ a \in Nat
  BY <1>1
<1> HIDE DEF a
<1>3. \A i \in a..j : q[i] \in S
  <2>1. \A i \in a..j : i \in 1..Len(q)
    BY <1>1, <1>2
  <2> QED BY <2>1, ElementOfSeq
<1>4. /\ u \in Seq(S) /\ Len(u) = IF a <= j THEN j - a + 1 ELSE 0
      /\ \A i \in 1..(j - a + 1) : u[i] = q[a + i - 1]
  <2>1. j \in Int
    BY <1>1
  <2> QED BY <1>2, <1>3, <2>1, SubSeqProperties
<1> HIDE DEF u
<1>5. Len(u) = j - k /\ j - a + 1 = j - k /\ \A i \in 1..(j - k) : a + i - 1 = k + i
  BY <1>1, <1>2, <1>4
<1>6. \A i \in 1..(j - k) : u[i] = q[k + i]
  BY <1>4, <1>5
<1> QED BY <1>4, <1>5, <1>6 DEF u, a

\* The octets of the objects from one to another.
LEMMA TotalBetween ==
    ASSUME NEW q \in Seq(Stored), NEW k \in 0..Len(q)
    PROVE  OctetsOf(SubSeq(q, k + 1, Len(q))) = EndOf(q, Len(q)) - EndOf(q, k)
<1> DEFINE n == Len(q)  Part(j) == SubSeq(q, k + 1, j)
           Good(m) == OctetsOf(Part(k + m)) = EndOf(q, k + m) - EndOf(q, k)
           T == {m \in Nat : k + m <= n => Good(m)}
<1>1. /\ n \in Nat /\ k \in Nat /\ k <= n /\ \A i \in 0..n : EndOf(q, i) \in Nat
      /\ \A i \in 1..n : q[i].octets \in Nat \ {0} /\ EndOf(q, i) = EndOf(q, i - 1) + q[i].octets
  <2>1. k \in Nat /\ n \in Nat /\ k <= n
    BY LenProperties
  <2> QED BY <2>1, EndsOf
<1>2. \A j \in k..n : Len(Part(j)) = j - k /\ \A i \in 1..(j - k) : Part(j)[i] = q[k + i]
  <2> DEFINE S == Stored
  <2>1. q \in Seq(S)
    OBVIOUS
  <2> HIDE DEF S
  <2> QED BY <2>1, LastPart
<1>3. 0 \in T
  <2> DEFINE z == 0  u == Part(k + z)
  <2>1. z \in Nat /\ k + z \in k..n /\ k + z = k /\ k - k = z
    BY <1>1
  <2>2. u = <<>>
    <3>1. k \in Int /\ k + 1 \in Int /\ k < k + 1
      BY <1>1
    <3>2. SubSeq(q, k + 1, k) = <<>>
      BY <3>1, SubSeqEmpty
    <3> QED BY <2>1, <3>2
  <2>3. OctetsOf(u) = z
    BY <2>2, TotalEmpty
  <2>4. EndOf(q, k + z) - EndOf(q, k) = z
    <3> DEFINE x == EndOf(q, k)
    <3>1. x \in Nat /\ EndOf(q, k + z) = x
      BY <1>1, <2>1
    <3> HIDE DEF x
    <3>2. x - x = z
      BY <3>1 DEF z
    <3> QED BY <3>1, <3>2 DEF x
  <2> HIDE DEF z
  <2>5. z \in T
    BY <2>1, <2>3, <2>4
  <2> QED BY <2>5 DEF z
<1>4. ASSUME NEW m \in Nat, m \in T PROVE m + 1 \in T
  <2> SUFFICES ASSUME k + (m + 1) <= n PROVE Good(m + 1)
    OBVIOUS
  <2> DEFINE j == k + m  l == k + (m + 1)  a == Part(j)  b == Part(l)  e == q[l]
  <2>1. j \in k..n /\ l \in k..n /\ l \in 1..n /\ j \in 0..n /\ l = j + 1 /\ l - 1 = j /\ j <= n
        /\ j - k = m /\ l - k = m + 1
    BY <1>1
  <2>2. OctetsOf(a) = EndOf(q, j) - EndOf(q, k)
    BY <1>4, <2>1
  <2>3. /\ Len(a) = j - k /\ \A i \in 1..(j - k) : a[i] = q[k + i]
        /\ Len(b) = l - k /\ \A i \in 1..(l - k) : b[i] = q[k + i]
    <3> HIDE DEF Part, j, l
    <3> QED BY <1>2, <2>1
  <2> HIDE DEF a, b
  <2>4. Len(a) = m /\ Len(b) = m + 1 /\ (\A i \in 1..m : b[i] = a[i]) /\ b[m + 1] = e
    BY <2>1, <2>3
  <2> HIDE DEF e
  <2>5. OctetsOf(b) = OctetsOf(a) + e.octets
    BY <2>4, TotalAppend
  <2>6. e.octets \in Nat /\ EndOf(q, l) = EndOf(q, j) + e.octets
        /\ EndOf(q, j) \in Nat /\ EndOf(q, k) \in Nat
    BY <1>1, <2>1 DEF e
  <2> DEFINE x == EndOf(q, k)  y == EndOf(q, j)  w == EndOf(q, l)  o == e.octets
  <2> HIDE DEF x, y, w, o, l, j, Part
  <2>7. OctetsOf(b) = w - x
    <3>1. OctetsOf(a) = y - x /\ OctetsOf(b) = OctetsOf(a) + o
      BY <2>2, <2>5 DEF x, y, o
    <3>2. o \in Nat /\ w = y + o /\ y \in Nat /\ x \in Nat
      BY <2>6 DEF x, y, o, w
    <3> QED BY <3>1, <3>2
  <2> QED BY <2>7 DEF b, w, x, l
<1>5. n - k \in Nat /\ k + (n - k) = n
  BY <1>1
<1>6. n - k \in T
  <2> HIDE DEF T
  <2> QED BY <1>3, <1>4, <1>5, Reaches
<1> DEFINE m == n - k
<1>7. Good(m)
  <2>1. k + m <= n
    BY <1>1, <1>5
  <2> QED BY <1>6, <2>1
<1> QED BY <1>5, <1>7

\* What is in the queue still.
LEMMA RestOfQueue ==
    ASSUME queue \in Seq(Stored), taken \in 0..Len(queue)
    PROVE  /\ Queue!Rest \in Seq(Stored) /\ Len(Queue!Rest) = Len(queue) - taken
           /\ taken + Len(Queue!Rest) = Len(queue)
           /\ Queue!Total(Queue!Rest) = EndOf(queue, Len(queue)) - EndOf(queue, taken)
           /\ Queue!Objects(Queue!Rest) = ObjectsFrom(queue, taken)
<1> DEFINE n == Len(queue)  k == taken  q == queue  u == SubSeq(q, k + 1, n)
           O(i) == q[i].object
<1>1. n \in Nat /\ k \in Nat /\ n \in k..n /\ k \in 0..n
  BY LenProperties
<1>2. u \in Seq(Stored) /\ Len(u) = n - k /\ \A i \in 1..(n - k) : u[i] = q[k + i]
  <2> DEFINE S == Stored
  <2>1. q \in Seq(S)
    OBVIOUS
  <2> HIDE DEF S, k
  <2>2. u \in Seq(S) /\ Len(u) = n - k /\ \A i \in 1..(n - k) : u[i] = q[k + i]
    BY <1>1, <2>1, LastPart
  <2> QED BY <2>2 DEF S
<1>3. OctetsOf(u) = EndOf(q, n) - EndOf(q, k)
  BY TotalBetween
<1>4. Queue!Rest = u
  BY DEF Queue!Rest
<1> HIDE DEF u
<1>5. k + Len(u) = n /\ DOMAIN u = 1..(n - k)
  BY <1>1, <1>2, LenProperties
<1>6. Queue!Objects(u) = [i \in 1..(n - k) |-> u[i].object]
  BY <1>5, Zenon DEF Queue!Objects
<1>7. [i \in 1..(n - k) |-> u[i].object] = [i \in 1..(n - k) |-> q[k + i].object]
  BY <1>2
<1>8. Queue!Objects(u) = ObjectsFrom(q, k)
  BY <1>6, <1>7 DEF ObjectsFrom
<1>9. Queue!Total(u) = EndOf(q, n) - EndOf(q, k)
  BY <1>3, SameTotal
<1> QED BY <1>2, <1>4, <1>5, <1>8, <1>9

\* A single object as a queue.
LEMMA OneInQueue ==
    ASSUME NEW e
    PROVE  Len(<<e>>) = 1 /\ Queue!Total(<<e>>) = 0 + e.octets /\ Queue!Objects(<<e>>) = <<e.object>>
<1> DEFINE u == <<e>>  q == <<>>
<1>1. Len(u) = 1 /\ u[1] = e /\ Len(q) = 0 /\ DOMAIN u = 1..1
  OBVIOUS
<1>2. OctetsOf(u) = OctetsOf(q) + e.octets
  <2> HIDE DEF u, q
  <2>1. Len(q) \in Nat /\ Len(u) = Len(q) + 1 /\ (\A i \in 1..Len(q) : u[i] = q[i]) /\ u[Len(q) + 1] = e
    BY <1>1
  <2> QED BY <2>1, TotalAppend
<1>3. OctetsOf(u) = 0 + e.octets
  BY <1>2, TotalEmpty
<1>4. Queue!Objects(u) = <<e.object>>
  <2> DEFINE o == e.object
  <2>1. \A i \in 1..1 : u[i].object = o
    OBVIOUS
  <2> HIDE DEF u, o
  <2>2. Queue!Objects(u) = [i \in 1..1 |-> o]
    BY <1>1, <2>1 DEF Queue!Objects
  <2>3. [i \in 1..1 |-> o] = <<o>>
    OBVIOUS
  <2> QED BY <2>2, <2>3 DEF o
<1> QED BY <1>1, <1>3, <1>4, SameTotal

\* Decode moves into what was cut off before it throws.
LEMMA DamagedRead ==
    ASSUME StreamInv, damaged, NEW s, s = buffer.data, NEW p, p = EndOf(queue, Len(queue))
    PROVE  Decode(s, p).pos # p
<1>1. queue \in Seq(Stored) /\ IsData(s) /\ Remains(queue, s)
  BY DEF StreamInv, TypeInv, IsBuffer, Contents
<1>2. p \in Nat
  BY <1>1, EndsOf
<1> DEFINE r == Decode(s, p)
<1>3. p < r.pos
  BY <1>1, CutRead
<1> HIDE DEF r
<1>4. r.pos # p
  BY <1>2, <1>3
<1> QED BY <1>4 DEF r

\* What Decoded changes.
LEMMA DecodedStep ==
    ASSUME StreamInv, NEW r, Decoded(r), NEW m, m = taken + Len(r.value), m \in 0..Len(queue)
    PROVE  /\ ~lost /\ buffer'.size = buffer.size /\ taken' = m
           /\ lost' = (r.threw /\ r.pos # EndOf(queue, m)) /\ queue' = queue /\ damaged' = damaged
           /\ r.threw => Queue!Threw("Decode", r.value)
           /\ ~r.threw => Queue!Ok("Decode", Len(r.value), r.count, r.value)
<1> DEFINE p == r.pos
<1>1. /\ ~lost /\ buffer' = [buffer EXCEPT !.read = p] /\ taken' = m
      /\ lost' = (r.threw /\ r.pos # End(m)) /\ queue' = queue /\ damaged' = damaged
      /\ out' = IF r.threw THEN Result("Decode", 0, 0, TRUE, r.value)
                ELSE Result("Decode", Len(r.value), r.count, FALSE, r.value)
  BY Zenon DEF Decoded
<1>2. End(m) = EndOf(queue, m)
  BY EndInQueue
<1>3. buffer'.size = buffer.size
  <2>1. IsBuffer(buffer) /\ buffer' = [buffer EXCEPT !.read = p]
    BY <1>1, Zenon DEF StreamInv, TypeInv
  <2> HIDE DEF p
  <2>2. buffer' = [size |-> buffer.size, data |-> buffer.data, read |-> p]
    BY <2>1, BufferChanged
  <2> QED BY <2>2
<1>4. /\ r.threw => out' = Result("Decode", 0, 0, TRUE, r.value)
      /\ ~r.threw => out' = Result("Decode", Len(r.value), r.count, FALSE, r.value)
  BY <1>1, Zenon
<1>5. /\ r.threw => Queue!Threw("Decode", r.value)
      /\ ~r.threw => Queue!Ok("Decode", Len(r.value), r.count, r.value)
  BY <1>4, Zenon DEF Result, Queue!Threw, Queue!Ok
<1>6. lost' = (r.threw /\ r.pos # EndOf(queue, m))
  BY <1>1, <1>2, Zenon
<1> QED BY <1>1, <1>3, <1>5, <1>6

\* A read that throws has come to the end of the queue.
LEMMA ThrowRefines ==
    ASSUME StreamInv, NEW r, Decoded(r), r.threw, r.value = Queue!Objects(Queue!Rest),
           taken + Len(r.value) = Len(queue), taken \in 0..Len(queue),
           r.pos = IF damaged THEN Decode(buffer.data, EndOf(queue, Len(queue))).pos
                              ELSE EndOf(queue, Len(queue))
    PROVE  Queue!GetThrows(Queue!Rest)
<1> DEFINE m == Len(queue)  p == EndOf(queue, m)  yes == (r.threw /\ r.pos # p)
<1>1. queue \in Seq(Stored) /\ damaged \in BOOLEAN
  BY Zenon DEF StreamInv, TypeInv
<1>2. m \in 0..m
  <2>1. m \in Nat
    BY <1>1, LenProperties
  <2> QED BY <2>1
<1>3. /\ ~lost /\ buffer'.size = buffer.size /\ taken' = m /\ lost' = yes
      /\ queue' = queue /\ damaged' = damaged /\ Queue!Threw("Decode", r.value)
  BY <1>2, DecodedStep
<1>4. taken + Len(Queue!Rest) = m
  BY <1>1, RestOfQueue
<1>5. damaged => Decode(buffer.data, p).pos # p
  BY DamagedRead
<1>6. lost' = damaged
  <2>1. yes \in BOOLEAN
    OBVIOUS
  <2>2. yes <=> damaged
    BY <1>5
  <2> HIDE DEF yes
  <2> QED BY <1>1, <1>3, <2>1, <2>2, Zenon
<1> QED BY <1>3, <1>4, <1>6, Zenon DEF Queue!GetThrows

\* DecodeOne is GetOne, or GetThrows where there is no object left.
LEMMA OneRefines ==
    ASSUME StreamInv, DecodeOne
    PROVE  Queue!GetOne \/ Queue!GetThrows(Queue!Rest)
<1> DEFINE s == buffer.data  r == Decode(s, buffer.read)  u == Single(r)  k == taken  n == Len(queue)
<1>1. Decoded(u) /\ ~lost
  BY Zenon DEF DecodeOne, Decoded
<1>2. /\ IsRead(r) /\ r.pos \in 0..Len(s)
      /\ k < n => Got(r, EndOf(queue, k + 1), queue[k + 1].octets, queue[k + 1].object)
      /\ k = n => r.threw /\ (~damaged => r.pos = EndOf(queue, k))
      /\ k < n \/ k = n
  BY <1>1, OneRead
<1>3. queue \in Seq(Stored) /\ k \in 0..n /\ n \in Nat /\ k \in Nat /\ buffer.read = EndOf(queue, k)
  BY <1>1, ReaderPlace
<1>4. lost \in BOOLEAN
  BY Zenon DEF StreamInv, TypeInv
<1>5. r = Decode(s, EndOf(queue, k))
  BY <1>3
<1> HIDE DEF r, u
<1>6. u.pos = r.pos /\ u.count = r.count /\ u.threw = r.threw
      /\ u.value = (IF r.threw THEN <<>> ELSE <<r.value>>)
  BY <1>2, SingleFields DEF u
<1>7. CASE k < n
  <2> DEFINE e == queue[k + 1]  m == k + 1
  <2>1. ~r.threw /\ r.count = e.octets /\ r.value = e.object
    BY <1>2, <1>7, GotFields
  <2>2. u.value = <<e.object>> /\ u.count = e.octets /\ ~u.threw
    BY <1>6, <2>1
  <2>3. Len(u.value) = 1
    BY <2>2
  <2>4. m = k + Len(u.value) /\ m \in 0..n /\ m \in 1..n
    BY <1>3, <1>7, <2>3
  <2> HIDE DEF m
  <2>5. /\ ~lost /\ buffer'.size = buffer.size /\ taken' = m
        /\ lost' = (u.threw /\ u.pos # EndOf(queue, m)) /\ queue' = queue /\ damaged' = damaged
        /\ Queue!Ok("Decode", Len(u.value), u.count, u.value)
    BY <1>1, <2>2, <2>4, DecodedStep
  <2>6. lost' = lost
    BY <1>4, <2>2, <2>5, Zenon
  <2>7. e.octets \in Nat
    BY <2>4, <1>3, EndsOf DEF m
  <2>8. Len(<<e>>) = 1 /\ Queue!Total(<<e>>) = e.octets /\ Queue!Objects(<<e>>) = <<e.object>>
    <3>1. Len(<<e>>) = 1 /\ Queue!Total(<<e>>) = 0 + e.octets /\ Queue!Objects(<<e>>) = <<e.object>>
      <4> HIDE DEF e
      <4> QED BY OneInQueue
    <3>2. 0 + e.octets = e.octets
      BY <2>7
    <3> QED BY <3>1, <3>2
  <2> DEFINE es == <<e>>
  <2>9. Queue!Get(es)
    <3>1. Len(es) = Len(u.value) /\ Queue!Total(es) = u.count /\ Queue!Objects(es) = u.value
          /\ taken' = k + Len(es)
      BY <2>2, <2>3, <2>4, <2>5, <2>8
    <3> HIDE DEF es
    <3> QED BY <2>5, <2>6, <3>1, Zenon DEF Queue!Get
  <2> QED BY <1>7, <2>9, Zenon DEF Queue!GetOne, es, e
<1>8. CASE k = n
  <2>1. r.threw /\ u.threw /\ u.value = <<>>
    BY <1>2, <1>6, <1>8
  <2>2. Len(u.value) = 0
    BY <2>1
  <2>3. k + Len(u.value) = n
    BY <1>3, <1>8, <2>2
  <2>4. Queue!Objects(Queue!Rest) = <<>>
    <3>1. Queue!Rest \in Seq(Stored) /\ Len(Queue!Rest) = 0
      BY <1>3, <1>8, RestOfQueue
    <3>2. Queue!Rest = <<>>
      BY <3>1, EmptySeq
    <3>3. Queue!Objects(<<>>) = <<>>
      BY DEF Queue!Objects
    <3> QED BY <3>2, <3>3
  <2>5. u.pos = IF damaged THEN Decode(s, EndOf(queue, n)).pos ELSE EndOf(queue, n)
    BY <1>2, <1>5, <1>6, <1>8
  <2> QED BY <1>1, <1>3, <2>1, <2>3, <2>4, <2>5, ThrowRefines
<1> QED BY <1>2, <1>7, <1>8

\* DecodeVector is GetAll, or GetThrows where a part of an object is left.
LEMMA VectorRefines ==
    ASSUME StreamInv, DecodeVector
    PROVE  Queue!GetAll \/ Queue!GetThrows(Queue!Rest)
<1> DEFINE s == buffer.data  r == DecodeObjects(s, buffer.read)  k == taken  n == Len(queue)
<1>1. Decoded(r) /\ ~lost
  BY Zenon DEF DecodeVector, Decoded
<1>2. /\ r.value = ObjectsFrom(queue, k) /\ Len(r.value) = n - k /\ k + Len(r.value) = n
      /\ ~damaged => ~r.threw /\ r.pos = EndOf(queue, n) /\ r.count = EndOf(queue, n) - EndOf(queue, k)
      /\ damaged => r.threw /\ r.pos = Decode(s, EndOf(queue, n)).pos
  BY <1>1, AllRead
<1>3. queue \in Seq(Stored) /\ k \in 0..n /\ n \in Nat
  BY <1>1, ReaderPlace
<1>4. lost \in BOOLEAN
  BY Zenon DEF StreamInv, TypeInv
<1>5. /\ Len(Queue!Rest) = n - k /\ k + Len(Queue!Rest) = n
      /\ Queue!Total(Queue!Rest) = EndOf(queue, n) - EndOf(queue, k)
      /\ Queue!Objects(Queue!Rest) = ObjectsFrom(queue, k)
  BY <1>3, RestOfQueue
<1> HIDE DEF r
<1>6. CASE damaged
  <2>1. /\ r.threw /\ r.value = Queue!Objects(Queue!Rest)
        /\ r.pos = IF damaged THEN Decode(s, EndOf(queue, n)).pos ELSE EndOf(queue, n)
    BY <1>2, <1>5, <1>6
  <2> QED BY <1>1, <1>2, <1>3, <2>1, ThrowRefines
<1>7. CASE ~damaged
  <2>1. n = taken + Len(r.value) /\ n \in 0..Len(queue) /\ ~r.threw
    BY <1>2, <1>3, <1>7
  <2> HIDE DEF n
  <2>2. /\ ~lost /\ buffer'.size = buffer.size /\ taken' = n
        /\ lost' = (r.threw /\ r.pos # EndOf(queue, n)) /\ queue' = queue /\ damaged' = damaged
        /\ Queue!Ok("Decode", Len(r.value), r.count, r.value)
    BY <1>1, <2>1, DecodedStep
  <2>3. lost' = lost
    BY <1>4, <2>1, <2>2, Zenon
  <2>4. Queue!Get(Queue!Rest)
    <3>1. Len(Queue!Rest) = Len(r.value) /\ Queue!Total(Queue!Rest) = r.count
          /\ Queue!Objects(Queue!Rest) = r.value /\ taken' = taken + Len(Queue!Rest)
      BY <1>2, <1>5, <1>7, <2>2 DEF n
    <3> DEFINE es == Queue!Rest
    <3> HIDE DEF es
    <3>2. Queue!Get(es)
      BY <2>2, <2>3, <3>1, Zenon DEF Queue!Get, es
    <3> QED BY <3>2 DEF es
  <2> QED BY <1>7, <2>4 DEF Queue!GetAll
<1> QED BY <1>6, <1>7

-----------------------------------------------------------------------------
(* The mapping. *)

\* Every step is a step of the queue.
LEMMA StepRefines ==
    ASSUME StreamInv, [Next]_vars
    PROVE  [Queue!Next]_Queue!vars
<1>0. TypeInv
  BY DEF StreamInv
<1>1. CASE UNCHANGED vars
  BY <1>1 DEF vars, Queue!vars
<1>2. CASE \E n \in BufferSizes : Supply(n)
  BY <1>2, SupplyRefines DEF Queue!Next
<1>3. CASE Rewind
  BY <1>0, <1>3, RewindRefines DEF Queue!Next
<1>4. CASE \E p \in PeerObjects : PeerWrites(p.object, p.extra)
  BY <1>4, PeerRefines DEF Queue!Next
<1>5. CASE \E n \in Cuts : Lose(n)
  BY <1>5, LoseRefines DEF Queue!Next
<1>6. CASE \E vs \in ObjectVectors : Len(vs) = 1 /\ EncodeOne(vs[1])
  <2>1. PICK vs \in ObjectVectors : Len(vs) = 1 /\ EncodeOne(vs[1])
    BY <1>6
  <2>2. PICK r : Progress(buffer, <<vs[1]>>, 1, r) /\ Encoded(<<vs[1]>>, r) /\ ~damaged
                 /\ <<vs[1]>> \in Seq(Sendable) /\ Len(<<vs[1]>>) = 1
    BY <1>0, <2>1, EncodeSteps, Zenon
  <2> DEFINE us == <<vs[1]>>
  <2>3. us \in Seq(Sendable) /\ Progress(buffer, us, Len(us), r) /\ Encoded(us, r) /\ ~damaged
    BY <2>2, Zenon
  <2> HIDE DEF us
  <2> QED BY <2>3, EncodedRefines DEF Queue!Next
<1>7. CASE \E vs \in ObjectVectors : EncodeVector(vs)
  <2>1. PICK vs \in ObjectVectors : EncodeVector(vs)
    BY <1>7
  <2>2. vs \in Seq(Sendable) /\ \E r : Progress(buffer, vs, Len(vs), r) /\ Encoded(vs, r) /\ ~damaged
    BY <1>0, <2>1, EncodeSteps, Zenon
  <2> QED BY <2>2, EncodedRefines DEF Queue!Next
<1>8. CASE DecodeOne
  BY <1>8, OneRefines DEF Queue!Next
<1>9. CASE DecodeVector
  BY <1>9, VectorRefines DEF Queue!Next
<1> QED BY <1>1, <1>2, <1>3, <1>4, <1>5, <1>6, <1>7, <1>8, <1>9 DEF Next

\* Unless a peer has more octets follow the optional part of a Head1 or an
\* Object1, the buffer is a queue of whole objects, of any kinds: Encode
\* appends those that fit and says how many octets they take, Decode gives them
\* back in order and unchanged, and throws exactly when nothing whole is left.
THEOREM BufferIsQueue == ASSUME NoneExtended PROVE Spec => ImplementsObjectQueue
<1>1. Init => StreamInv
  BY InitStream
<1>2. StreamInv /\ [Next]_vars => StreamInv'
  BY StepStream
<1> QED BY <1>1, <1>2, InitRefines, StepRefines, PTL DEF Spec, ImplementsObjectQueue, Queue!Spec
=============================================================================
