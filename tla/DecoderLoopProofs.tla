-------------------------- MODULE DecoderLoopProofs --------------------------
(***************************************************************************)
(* The loop of Decoder::Decode on any octets at all.  Every iteration      *)
(* leaves the position within the data, and further on unless the octets   *)
(* hold a VarUint close to 2^64 (DecodeSound).  A loop that has not ended  *)
(* after as many objects as there are octets has been at one position      *)
(* twice, goes round for ever, and so neither returns nor throws: where it *)
(* does, it is with what DecodeObjects says at once.                       *)
(***************************************************************************)
EXTENDS DecoderLoop, CodecProofs, FiniteSetTheorems

-----------------------------------------------------------------------------
(* A loop that goes round for ever.                                        *)

\* One iteration of a loop that has not ended after the last of the steps.
LEMMA NotEnded ==
    ASSUME NEW s, IsData(s), NEW f, Steps(s, 0, f), ~Ended(s, f[Len(s)]), NEW k \in 0..Len(s)
    PROVE  /\ f[k].pos \in 0..(Len(s) - 1) /\ ~f[k].threw
           /\ k < Len(s) => /\ ~Decode(s, f[k].pos).threw
                            /\ f[k + 1].pos = Decode(s, f[k].pos).pos
<1>1. Len(s) \in Nat /\ 0 \in 0..Len(s)
  BY LenProperties DEF IsData
<1>2. \A i \in 0..Len(s) : ~Ended(s, f[i])
  <2> SUFFICES ASSUME NEW i \in 0..Len(s), Ended(s, f[i]) PROVE FALSE
    OBVIOUS
  <2>1. Len(s) \in i..Len(s)
    BY <1>1
  <2>2. f[Len(s)] = f[i]
    BY <2>1, StaysEnded
  <2> QED BY <2>2
<1>3. \A i \in 0..Len(s) : At(s, f[i]) /\ f[i].value \in Seq(Values(s))
  BY <1>1, StepsSound
<1>4. f[k].pos # Len(s) /\ ~f[k].threw
  BY <1>2 DEF Ended
<1>5. f[k].pos \in 0..(Len(s) - 1)
  BY <1>1, <1>3, <1>4 DEF At
<1>6. ASSUME k < Len(s)
      PROVE  ~Decode(s, f[k].pos).threw /\ f[k + 1].pos = Decode(s, f[k].pos).pos
  <2>1. k + 1 \in 1..Len(s) /\ (k + 1) - 1 = k /\ k + 1 \in 0..Len(s)
    BY <1>1, <1>6
  <2>2. f[k + 1] = OneMore(s, f[k])
    BY <2>1 DEF Steps
  <2>3. f[k + 1].pos = Decode(s, f[k].pos).pos /\ (f[k + 1].threw <=> Decode(s, f[k].pos).threw)
    BY <1>2, <1>3, <2>2, OneMoreSound
  <2>4. ~f[k + 1].threw
    BY <1>2, <2>1 DEF Ended
  <2> QED BY <2>3, <2>4
<1> QED BY <1>4, <1>5, <1>6

\* Of the positions before and after as many objects as there are octets two
\* are the same: there are fewer places where data is left.
LEMMA PlaceTwice ==
    ASSUME NEW n \in Nat, NEW g, \A k \in 0..n : g[k] \in 0..(n - 1)
    PROVE  \E i, j \in 0..n : i < j /\ g[i] = g[j]
<1> DEFINE S == 0..n  T == 0..(n - 1)  h == [k \in S |-> g[k]]
<1>1. IsFiniteSet(S) /\ Cardinality(S) = n + 1
  <2>1. IsFiniteSet(S) /\ Cardinality(S) = IF 0 > n THEN 0 ELSE n - 0 + 1
    BY FS_Interval
  <2> QED BY <2>1
<1>2. IsFiniteSet(T) /\ Cardinality(T) = n
  <2>1. IsFiniteSet(T) /\ Cardinality(T) = IF 0 > n - 1 THEN 0 ELSE n - 1 - 0 + 1
    BY FS_Interval
  <2> QED BY <2>1
<1>3. h \in [S -> T]
  OBVIOUS
<1>4. Cardinality(T) < Cardinality(S)
  BY <1>1, <1>2
<1> HIDE DEF T, h
<1>5. \E x, y \in S : x # y /\ h[x] = h[y]
  <2> HIDE DEF S
  <2> QED BY <1>1, <1>2, <1>3, <1>4, FS_PigeonHole
<1>6. PICK x \in S, y \in S : x # y /\ h[x] = h[y]
  BY <1>5
<1>7. g[x] = g[y]
  BY <1>6 DEF h
<1> QED BY <1>6, <1>7

\* From each of these positions Decode goes to one of them.
LEMMA GoesRound ==
    ASSUME NEW s, IsData(s), NEW f, Steps(s, 0, f), ~Ended(s, f[Len(s)]), NEW k \in 0..Len(s)
    PROVE  /\ ~Decode(s, f[k].pos).threw
           /\ \E j \in 0..Len(s) : Decode(s, f[k].pos).pos = f[j].pos
<1> DEFINE n == Len(s)
           g == [i \in 0..n |-> f[i].pos]
           Threw(p) == Decode(s, p).threw
           Goes(p) == Decode(s, p).pos
<1>1. n \in Nat
  BY LenProperties DEF IsData
<1>2. \A i \in 0..n : /\ g[i] \in 0..(n - 1)
                      /\ i < n => ~Threw(f[i].pos) /\ f[i + 1].pos = Goes(f[i].pos)
  BY NotEnded
<1> HIDE DEF n, Threw, Goes
<1>3. PICK i \in 0..n, j \in 0..n : i < j /\ g[i] = g[j]
  <2> HIDE DEF g
  <2> QED BY <1>1, <1>2, PlaceTwice
<1>4. \A m \in 0..n : m < n => ~Threw(g[m]) /\ g[m + 1] = Goes(g[m])
  <2> SUFFICES ASSUME NEW m \in 0..n, m < n PROVE ~Threw(g[m]) /\ g[m + 1] = Goes(g[m])
    OBVIOUS
  <2>1. g[m] = f[m].pos /\ g[m + 1] = f[m + 1].pos
    BY <1>1
  <2> QED BY <1>2, <2>1
<1> DEFINE D == {d \in Nat : j + d <= n => g[i + d] = g[j + d]}
<1>5. n - j \in D
  <2>1. 0 \in D
    BY <1>1, <1>3
  <2>2. ASSUME NEW d \in Nat, d < n - j /\ d \in D PROVE d + 1 \in D
    <3>1. i + d \in 0..n /\ i + d < n /\ j + d \in 0..n /\ j + d < n /\ j + d <= n
      BY <1>1, <1>3, <2>2
    <3>2. g[i + d] = g[j + d]
      BY <2>2, <3>1
    <3>3. g[(i + d) + 1] = g[(j + d) + 1]
      <4> HIDE DEF g
      <4> QED BY <1>4, <3>1, <3>2
    <3>4. (i + d) + 1 = i + (d + 1) /\ (j + d) + 1 = j + (d + 1)
      BY <1>1
    <3> HIDE DEF g
    <3> QED BY <3>3, <3>4
  <2>3. n - j \in Nat /\ n - j \in 0..(n - j)
    BY <1>1
  <2> HIDE DEF D
  <2> QED BY <2>1, <2>2, <2>3, UpTo
<1>6. PICK m \in 0..n : m < n /\ g[m] = g[n]
  <2> DEFINE q == i + (n - j)
  <2>1. q \in 0..n /\ q < n /\ j + (n - j) = n
    BY <1>1, <1>3
  <2>2. g[q] = g[n]
    <3> HIDE DEF g
    <3> QED BY <1>5, <2>1
  <2> QED BY <2>1, <2>2
<1>7. \E l \in 0..n : l < n /\ g[l] = g[k]
  BY <1>1, <1>6 DEF n
<1>8. PICK l \in 0..n : l < n /\ g[l] = g[k]
  BY <1>7
<1>9. ~Threw(g[l]) /\ Goes(g[l]) = g[l + 1] /\ l + 1 \in 0..n
  <2> HIDE DEF g
  <2> QED BY <1>1, <1>4, <1>8
<1>10. g[l + 1] = f[l + 1].pos /\ g[k] = f[k].pos
  BY <1>9 DEF n
<1> HIDE DEF g
<1>11. ~Threw(f[k].pos) /\ Goes(f[k].pos) = f[l + 1].pos
  BY <1>8, <1>9, <1>10
<1> QED BY <1>9, <1>11 DEF Threw, Goes, n

-----------------------------------------------------------------------------
(* The loop.                                                               *)

\* A count, and the sum of two of which the first may have been cut before.
LEMMA CountsAdd ==
    ASSUME NEW a \in Int, NEW b \in Int
    PROVE  /\ a % SizeModulus \in 0..(SizeModulus - 1)
           /\ ((a % SizeModulus) + b) % SizeModulus = (a + b) % SizeModulus
<1>1. SizeModulus \in Nat /\ SizeModulus > 0
  BY SMT DEF SizeModulus
<1>2. ((a % SizeModulus) + b) % SizeModulus = (a + b) % SizeModulus
  BY SMT DEF SizeModulus
<1>3. a % SizeModulus \in 0..(SizeModulus - 1)
  BY <1>1
<1> QED BY <1>2, <1>3

\* The loop is where the steps f of decoding it all at once have been.
InStepWith(f) ==
    /\ Len(value) \in 0..Len(data)
    /\ f[Len(value)].pos = position /\ f[Len(value)].value = value
    /\ ~f[Len(value)].threw /\ read_length = f[Len(value)].count % SizeModulus

\* The loop has come further than those, and is at a place where they have been.
Beyond(f) ==
    /\ Len(value) = Len(data) + 1 /\ ~Ended(data, f[Len(data)])
    /\ \E k \in 0..Len(data) : position = f[k].pos

\* The inductive invariant: the loop is in step with what decodes it all at
\* once, or has come further and goes round for ever.
IInv ==
    /\ data \in Inputs
    /\ decoded = [p \in 0..Len(data) |-> Decode(data, p)]
    /\ position \in 0..Len(data)
    /\ value \in Seq(Values(data) \cup {Partial}) /\ Len(value) <= Len(data) + 1
    /\ read_length \in 0..(SizeModulus - 1)
    /\ pc \in {"loop", "returned", "threw"}
    /\ pc = "loop" =>
         \E f : /\ Steps(data, 0, f) /\ DecodeObjects(data, 0) = f[Len(data)]
                /\ InStepWith(f) \/ Beyond(f)
    /\ LoopAtOnce

LEMMA InitInv == Init => IInv
<1> SUFFICES ASSUME Init PROVE IInv
  OBVIOUS
<1>1. IsData(data)
  BY InputsAssumption DEF Init, IsData
<1>2. Len(data) \in Nat
  BY <1>1, LenProperties DEF IsData
<1>3. /\ data \in Inputs /\ decoded = [p \in 0..Len(data) |-> Decode(data, p)]
      /\ position = 0 /\ value = <<>> /\ read_length = 0 /\ pc = "loop"
  BY Zenon DEF Init
<1>4. value \in Seq(Values(data) \cup {Partial}) /\ Len(value) = 0
  BY <1>3, EmptySeq
<1>5. PICK f : Steps(data, 0, f) /\ DecodeObjects(data, 0) = f[Len(data)]
  BY <1>1, ObjectsRun
<1>6. InStepWith(f)
  <2>1. f[0] = Read(0, 0, FALSE, <<>>)
    BY <1>5 DEF Steps
  <2>2. f[0].pos = 0 /\ f[0].value = <<>> /\ ~f[0].threw /\ f[0].count = 0
    BY <2>1, SMT DEF Read
  <2>3. 0 % SizeModulus = 0
    BY SMT DEF SizeModulus
  <2> QED BY <1>2, <1>3, <1>4, <2>2, <2>3 DEF InStepWith
<1>7. /\ position \in 0..Len(data) /\ Len(value) <= Len(data) + 1
      /\ read_length \in 0..(SizeModulus - 1)
  <2>1. read_length = 0 % SizeModulus
    BY <1>3, SMT DEF SizeModulus
  <2>2. read_length \in 0..(SizeModulus - 1)
    BY <2>1, CountsAdd
  <2> QED BY <1>2, <1>3, <1>4, <2>2
<1>8. LoopAtOnce
  BY <1>3, Zenon DEF LoopAtOnce, EndsAs
<1> QED BY <1>3, <1>4, <1>5, <1>6, <1>7, <1>8, Zenon DEF IInv

\* What an iteration and what is known of it have in common.
LEMMA IterationIs ==
    ASSUME IInv, Iteration, NEW r, r = Decode(data, position)
    PROVE  /\ IsData(data) /\ Len(data) \in Nat /\ position < Len(data) /\ pc = "loop"
           /\ Sound(data, position, r) /\ r.value \in Values(data)
           /\ value' = PushBack(IF r.threw THEN Partial ELSE r.value)
           /\ read_length' = IF r.threw THEN read_length ELSE Added(r.count)
           /\ pc' = (IF r.threw THEN "threw" ELSE "loop")
           /\ position' = r.pos /\ data' = data /\ decoded' = decoded
<1>1. IsData(data)
  BY InputsAssumption DEF IInv, IsData
<1>2. Len(data) \in Nat
  BY <1>1, LenProperties DEF IsData
<1>3. decoded = [p \in 0..Len(data) |-> Decode(data, p)] /\ position \in 0..Len(data)
  BY Zenon DEF IInv
<1>4. decoded[position] = r
  BY <1>3, Zenon
<1>5. Sound(data, position, r) /\ r.value \in Values(data)
  BY <1>1, <1>3, DecodeSound, Zenon DEF Values
<1>6. /\ position < Len(data) /\ pc = "loop"
      /\ position' = r.pos /\ data' = data /\ decoded' = decoded
      /\ value' = PushBack(IF r.threw THEN Partial ELSE r.value)
      /\ read_length' = IF r.threw THEN read_length ELSE Added(r.count)
      /\ pc' = IF r.threw THEN "threw" ELSE pc
  BY <1>4, Zenon DEF Iteration
<1> QED BY <1>1, <1>2, <1>5, <1>6, Zenon

\* The types of what an iteration changes.
LEMMA IterationTypes ==
    ASSUME IInv, Iteration
    PROVE  /\ data' \in Inputs /\ decoded' = [p \in 0..Len(data') |-> Decode(data', p)]
           /\ position' \in 0..Len(data')
           /\ value' \in Seq(Values(data') \cup {Partial}) /\ Len(value') <= Len(data') + 1
           /\ read_length' \in 0..(SizeModulus - 1)
           /\ pc' \in {"loop", "returned", "threw"}
<1> DEFINE r == Decode(data, position)
           V == Values(data) \cup {Partial}
           x == IF r.threw THEN Partial ELSE r.value
<1>1. /\ IsData(data) /\ Len(data) \in Nat /\ Sound(data, position, r) /\ r.value \in Values(data)
      /\ value' = PushBack(x) /\ read_length' = IF r.threw THEN read_length ELSE Added(r.count)
      /\ pc' = (IF r.threw THEN "threw" ELSE "loop")
      /\ position' = r.pos /\ data' = data /\ decoded' = decoded
  BY IterationIs, Zenon
<1>2. /\ data \in Inputs /\ decoded = [p \in 0..Len(data) |-> Decode(data, p)]
      /\ value \in Seq(V) /\ Len(value) <= Len(data) + 1 /\ read_length \in 0..(SizeModulus - 1)
  BY Zenon DEF IInv
<1>3. x \in V
  BY <1>1
<1> HIDE DEF r, V, x
<1>4. r.pos \in 0..Len(data) /\ r.count \in Int
  BY <1>1 DEF Sound, At
<1>5. value' \in Seq(V) /\ Len(value') <= Len(data) + 1
  <2>1. Append(value, x) \in Seq(V) /\ Len(Append(value, x)) = Len(value) + 1 /\ Len(value) \in Nat
    BY <1>2, <1>3, AppendProperties, LenProperties
  <2> QED BY <1>1, <1>2, <2>1 DEF PushBack, InBound
<1>6. read_length' \in 0..(SizeModulus - 1)
  <2>1. read_length + r.count \in Int
    <3>1. SizeModulus \in Nat
      BY SMT DEF SizeModulus
    <3> QED BY <1>2, <1>4, <3>1
  <2>2. (read_length + r.count) % SizeModulus \in 0..(SizeModulus - 1)
    BY <2>1, CountsAdd
  <2> QED BY <1>1, <1>2, <2>2 DEF Added
<1>7. pc' \in {"loop", "returned", "threw"}
  BY <1>1
<1> QED BY <1>1, <1>2, <1>4, <1>5, <1>6, <1>7, Zenon DEF V

\* An iteration of a loop in step is the next of the steps.
LEMMA NextStep ==
    ASSUME IInv, Iteration, NEW f, Steps(data, 0, f), InStepWith(f), Len(value) < Len(data),
           NEW k, k = Len(value), NEW r, r = Decode(data, position)
    PROVE  /\ k + 1 \in 0..Len(data) /\ f[k + 1].pos = r.pos /\ (f[k + 1].threw <=> r.threw)
           /\ r.threw => f[k + 1].value = value
           /\ ~r.threw => /\ f[k + 1].value = Append(value, r.value)
                          /\ f[k + 1].count % SizeModulus = (read_length + r.count) % SizeModulus
<1>1. IsData(data) /\ Len(data) \in Nat /\ position < Len(data) /\ Sound(data, position, r)
  BY IterationIs, Zenon
<1>2. /\ k \in 0..Len(data) /\ f[k].pos = position /\ f[k].value = value
      /\ ~f[k].threw /\ read_length = f[k].count % SizeModulus
  BY DEF InStepWith
<1>3. k + 1 \in 1..Len(data) /\ k + 1 \in 0..Len(data) /\ (k + 1) - 1 = k /\ 0 \in 0..Len(data)
  BY <1>1, <1>2
<1>4. f[k + 1] = OneMore(data, f[k])
  BY <1>3 DEF Steps
<1>5. At(data, f[k]) /\ f[k].value \in Seq(Values(data))
  BY <1>1, <1>2, <1>3, StepsSound
<1>6. ~Ended(data, f[k])
  BY <1>1, <1>2 DEF Ended
<1>7. /\ f[k + 1].pos = r.pos /\ (f[k + 1].threw <=> r.threw)
      /\ r.threw => f[k + 1].value = f[k].value
      /\ ~r.threw => /\ f[k + 1].count = f[k].count + r.count
                     /\ f[k + 1].value = Append(f[k].value, r.value)
  BY <1>1, <1>2, <1>4, <1>5, <1>6, OneMoreSound
<1>8. f[k].count \in Int /\ r.count \in Int
  BY <1>1, <1>5 DEF Sound, At
<1>9. (read_length + r.count) % SizeModulus = (f[k].count + r.count) % SizeModulus
  BY <1>2, <1>8, CountsAdd
<1> QED BY <1>2, <1>3, <1>7, <1>9

\* An object was decoded: the loop is in step, or goes round.
LEMMA ReturnedInStep ==
    ASSUME IInv, Iteration, NEW f, Steps(data, 0, f), InStepWith(f) \/ Beyond(f),
           ~Decode(data, position).threw
    PROVE  InStepWith(f)' \/ Beyond(f)'
<1> DEFINE r == Decode(data, position)
<1>1. /\ IsData(data) /\ Len(data) \in Nat /\ position < Len(data)
      /\ Sound(data, position, r) /\ r.value \in Values(data)
      /\ value' = PushBack(r.value) /\ read_length' = Added(r.count)
      /\ position' = r.pos /\ data' = data
  BY IterationIs, Zenon
<1>2. value \in Seq(Values(data) \cup {Partial}) /\ Len(value) \in Nat
  <2>1. value \in Seq(Values(data) \cup {Partial})
    BY Zenon DEF IInv
  <2> QED BY <2>1, LenProperties
<1>3. Len(Append(value, r.value)) = Len(value) + 1
  BY <1>1, <1>2, AppendProperties
<1> HIDE DEF r
<1>4. CASE InStepWith(f) /\ Len(value) < Len(data)
  <2> DEFINE k == Len(value)
  <2>1. /\ k + 1 \in 0..Len(data) /\ f[k + 1].pos = r.pos /\ ~f[k + 1].threw
        /\ f[k + 1].value = Append(value, r.value)
        /\ f[k + 1].count % SizeModulus = (read_length + r.count) % SizeModulus
    BY <1>4, NextStep DEF r
  <2>2. InBound
    BY <1>1, <1>2, <1>4 DEF InBound
  <2>3. value' = Append(value, r.value) /\ read_length' = (read_length + r.count) % SizeModulus
    BY <1>1, <2>2 DEF PushBack, Added
  <2>4. Len(value') = k + 1
    BY <1>3, <2>3
  <2> HIDE DEF k
  <2> QED BY <1>1, <2>1, <2>3, <2>4 DEF InStepWith
<1>5. CASE InStepWith(f) /\ ~(Len(value) < Len(data))
  <2>1. Len(value) = Len(data) /\ f[Len(data)].pos = position /\ ~f[Len(data)].threw
    BY <1>1, <1>2, <1>5 DEF InStepWith
  <2>2. ~Ended(data, f[Len(data)])
    BY <1>1, <2>1 DEF Ended
  <2>3. Len(data) \in 0..Len(data)
    BY <1>1
  <2>4. \E j \in 0..Len(data) : r.pos = f[j].pos
    BY <1>1, <2>1, <2>2, <2>3, GoesRound DEF r
  <2>5. value' = Append(value, r.value)
    BY <1>1, <2>1 DEF PushBack, InBound
  <2>6. Len(value') = Len(data) + 1
    BY <1>3, <2>1, <2>5
  <2> QED BY <1>1, <2>2, <2>4, <2>6 DEF Beyond
<1>6. CASE Beyond(f)
  <2>1. Len(value) = Len(data) + 1 /\ ~Ended(data, f[Len(data)])
    BY <1>6 DEF Beyond
  <2>2. PICK k \in 0..Len(data) : position = f[k].pos
    BY <1>6 DEF Beyond
  <2>3. \E j \in 0..Len(data) : r.pos = f[j].pos
    BY <1>1, <2>1, <2>2, GoesRound DEF r
  <2>4. value' = value
    BY <1>1, <2>1 DEF PushBack, InBound
  <2> QED BY <1>1, <2>1, <2>3, <2>4 DEF Beyond
<1> QED BY <1>4, <1>5, <1>6

\* An exception: decoding it all at once ends with the same.
LEMMA ThrownAtOnce ==
    ASSUME IInv, Iteration, NEW f, Steps(data, 0, f), InStepWith(f) \/ Beyond(f),
           DecodeObjects(data, 0) = f[Len(data)], Decode(data, position).threw
    PROVE  LoopAtOnce'
<1> DEFINE r == Decode(data, position)  all == DecodeObjects(data, 0)
<1>1. /\ IsData(data) /\ Len(data) \in Nat /\ position < Len(data)
      /\ value' = PushBack(Partial) /\ pc' = "threw"
      /\ position' = r.pos /\ data' = data
  BY IterationIs, Zenon
<1>2. InStepWith(f)
  <2> SUFFICES ASSUME Beyond(f) PROVE FALSE
    OBVIOUS
  <2>1. PICK k \in 0..Len(data) : position = f[k].pos
    BY DEF Beyond
  <2>2. ~Ended(data, f[Len(data)])
    BY DEF Beyond
  <2> QED BY <1>1, <2>1, <2>2, GoesRound
<1>3. Len(value) \in 0..Len(data)
  BY <1>2 DEF InStepWith
<1>4. Len(value) < Len(data)
  <2> SUFFICES ASSUME ~(Len(value) < Len(data)) PROVE FALSE
    OBVIOUS
  <2>1. Len(value) = Len(data) /\ Len(data) \in 0..Len(data)
    BY <1>1, <1>3
  <2>2. f[Len(data)].pos = position /\ ~f[Len(data)].threw
    BY <1>2, <2>1 DEF InStepWith
  <2>3. ~Ended(data, f[Len(data)])
    BY <1>1, <2>2 DEF Ended
  <2> QED BY <1>1, <2>1, <2>2, <2>3, GoesRound
<1> DEFINE k == Len(value) + 1
<1>5. k \in 0..Len(data) /\ f[k].pos = r.pos /\ f[k].threw /\ f[k].value = value
  BY <1>2, <1>4, NextStep
<1> HIDE DEF k
<1>6. Len(data) \in k..Len(data) /\ Ended(data, f[k])
  BY <1>1, <1>5 DEF Ended
<1>7. f[Len(data)] = f[k]
  BY <1>1, <1>5, <1>6, StaysEnded
<1>8. Ended(data, all) /\ all.pos = r.pos /\ all.threw /\ all.value = value
  BY <1>5, <1>6, <1>7
<1>9. value' = Append(value, Partial)
  BY <1>1, <1>3 DEF PushBack, InBound
<1> HIDE DEF r, all
<1>10. pc' # "returned" /\ pc' # "loop"
  BY <1>1
<1> QED BY <1>1, <1>8, <1>9, <1>10, Zenon DEF LoopAtOnce, EndsAs, all

LEMMA IterationInv ==
    ASSUME IInv, Iteration
    PROVE  IInv'
<1>1. pc = "loop" /\ pc' = (IF Decode(data, position).threw THEN "threw" ELSE "loop") /\ data' = data
  BY IterationIs, Zenon
<1>2. PICK f : /\ Steps(data, 0, f) /\ DecodeObjects(data, 0) = f[Len(data)]
               /\ InStepWith(f) \/ Beyond(f)
  BY <1>1, Zenon DEF IInv
<1>3. CASE Decode(data, position).threw
  <2>1. LoopAtOnce'
    BY <1>2, <1>3, ThrownAtOnce, Zenon
  <2>2. pc' # "loop"
    BY <1>1, <1>3
  <2> QED BY <2>1, <2>2, IterationTypes, Zenon DEF IInv
<1>4. CASE ~Decode(data, position).threw
  <2>1. InStepWith(f)' \/ Beyond(f)'
    BY <1>2, <1>4, ReturnedInStep, Zenon
  <2>2. pc' = "loop"
    BY <1>1, <1>4
  <2>3. LoopAtOnce'
    BY <2>2, Zenon DEF LoopAtOnce, EndsAs
  <2>4. \E g : /\ Steps(data', 0, g) /\ DecodeObjects(data', 0) = g[Len(data')]
               /\ InStepWith(g)' \/ Beyond(g)'
    BY <1>1, <1>2, <2>1, Zenon
  <2> QED BY <2>3, <2>4, IterationTypes, Zenon DEF IInv
<1> QED BY <1>3, <1>4

LEMMA ReturnInv ==
    ASSUME IInv, Return
    PROVE  IInv'
<1> DEFINE all == DecodeObjects(data, 0)
<1>1. IsData(data) /\ Len(data) \in Nat
  <2>1. IsData(data)
    BY InputsAssumption DEF IInv, IsData
  <2> QED BY <2>1, LenProperties DEF IsData
<1>2. /\ position >= Len(data) /\ pc = "loop" /\ pc' = "returned" /\ data' = data
      /\ decoded' = decoded /\ position' = position /\ value' = value
      /\ read_length' = read_length
  BY Zenon DEF Return
<1>3. /\ data \in Inputs /\ decoded = [p \in 0..Len(data) |-> Decode(data, p)]
      /\ position \in 0..Len(data)
      /\ value \in Seq(Values(data) \cup {Partial}) /\ Len(value) <= Len(data) + 1
      /\ read_length \in 0..(SizeModulus - 1)
  BY Zenon DEF IInv
<1>4. PICK f : Steps(data, 0, f) /\ all = f[Len(data)] /\ (InStepWith(f) \/ Beyond(f))
  BY <1>2, Zenon DEF IInv
<1> HIDE DEF all
<1>5. position = Len(data)
  BY <1>1, <1>2, <1>3
<1>6. InStepWith(f)
  <2> SUFFICES ASSUME Beyond(f) PROVE FALSE
    BY <1>4
  <2>1. PICK k \in 0..Len(data) : position = f[k].pos
    BY DEF Beyond
  <2>2. ~Ended(data, f[Len(data)])
    BY DEF Beyond
  <2>3. f[k].pos \in 0..(Len(data) - 1)
    BY <1>1, <1>4, <2>1, <2>2, NotEnded
  <2> QED BY <1>1, <1>5, <2>1, <2>3
<1> DEFINE k == Len(value)
<1>7. /\ k \in 0..Len(data) /\ f[k].pos = position /\ f[k].value = value
      /\ ~f[k].threw /\ read_length = f[k].count % SizeModulus
  BY <1>6 DEF InStepWith
<1> HIDE DEF k
<1>8. Ended(data, f[k]) /\ Len(data) \in k..Len(data)
  BY <1>1, <1>5, <1>7 DEF Ended
<1>9. f[Len(data)] = f[k]
  BY <1>1, <1>4, <1>7, <1>8, StaysEnded
<1>10. /\ Ended(data, all) /\ all.pos = position /\ ~all.threw /\ all.value = value
       /\ read_length = all.count % SizeModulus
  BY <1>4, <1>7, <1>8, <1>9
<1>11. pc' # "threw" /\ pc' # "loop" /\ pc' \in {"loop", "returned", "threw"}
  BY <1>2
<1>12. LoopAtOnce'
  BY <1>2, <1>10, <1>11, Zenon DEF LoopAtOnce, EndsAs, all
<1> QED BY <1>2, <1>3, <1>11, <1>12, Zenon DEF IInv

LEMMA NextInv == IInv /\ [Next]_vars => IInv'
<1> SUFFICES ASSUME IInv, [Next]_vars PROVE IInv'
  OBVIOUS
<1>1. CASE Iteration
  BY <1>1, IterationInv, Zenon
<1>2. CASE Return
  BY <1>2, ReturnInv, Zenon
<1>3. CASE UNCHANGED vars
  <2>1. /\ data' = data /\ decoded' = decoded /\ position' = position /\ value' = value
        /\ read_length' = read_length /\ pc' = pc
    BY <1>3 DEF vars
  <2>2. LoopAtOnce'
    <3>1. LoopAtOnce
      BY Zenon DEF IInv
    <3> QED BY <2>1, <3>1, Zenon DEF LoopAtOnce, EndsAs
  <2>3. pc = "loop" =>
          \E f : /\ Steps(data, 0, f) /\ DecodeObjects(data, 0) = f[Len(data)]
                 /\ InStepWith(f) \/ Beyond(f)
    BY Zenon DEF IInv
  <2>4. \A f : (InStepWith(f) => InStepWith(f)') /\ (Beyond(f) => Beyond(f)')
    BY <2>1, Zenon DEF InStepWith, Beyond
  <2>5. pc' = "loop" =>
          \E f : /\ Steps(data', 0, f) /\ DecodeObjects(data', 0) = f[Len(data')]
                 /\ InStepWith(f)' \/ Beyond(f)'
    BY <2>1, <2>3, <2>4, Zenon
  <2>6. /\ data \in Inputs /\ decoded = [p \in 0..Len(data) |-> Decode(data, p)]
        /\ position \in 0..Len(data)
        /\ value \in Seq(Values(data) \cup {Partial}) /\ Len(value) <= Len(data) + 1
        /\ read_length \in 0..(SizeModulus - 1)
        /\ pc \in {"loop", "returned", "threw"}
    BY Zenon DEF IInv
  <2> QED BY <2>1, <2>2, <2>5, <2>6, Zenon DEF IInv
<1> QED BY <1>1, <1>2, <1>3, Zenon DEF Next

\* Whatever the octets, also those that make the sum in AdvanceReadLength wrap
\* (data_buffer.cpp:788), the loop stays within them (gs_decoder.cpp:78).
THEOREM TypeCorrect == Spec => []TypeOK
<1>1. IInv => TypeOK
  BY Zenon DEF IInv, TypeOK
<1> QED BY <1>1, NextInv, InitInv, PTL DEF Spec

\* Unless the octets hold a VarUint close to 2^64, every iteration leaves the
\* position further on, also when the octets not understood make it go back
\* within the object (gs_decoder.cpp:250 and 579).
THEOREM IterationsAdvance == Spec => Advances
<1>1. IInv /\ [Next]_vars => [~Wrapping(data) /\ pc' = "loop" => position' > position]_vars
  <2> SUFFICES ASSUME IInv, Next, ~Wrapping(data), pc' = "loop"
               PROVE  position' > position
    BY DEF vars
  <2>1. CASE Iteration
    <3> DEFINE r == Decode(data, position)
    <3>1. /\ Sound(data, position, r) /\ position' = r.pos
          /\ pc' = (IF r.threw THEN "threw" ELSE "loop")
      BY <2>1, IterationIs, Zenon
    <3> HIDE DEF r
    <3>2. ~r.threw
      BY <3>1
    <3>3. position < r.pos /\ position \in Nat /\ r.pos \in Nat
      <4>1. position \in Nat
        BY DEF IInv
      <4> QED BY <3>1, <3>2, <4>1 DEF Sound, At
    <3> QED BY <3>1, <3>3
  <2>2. CASE Return
    BY <2>2 DEF Return
  <2> QED BY <2>1, <2>2 DEF Next
<1> QED BY <1>1, NextInv, InitInv, PTL DEF Spec, Advances

\* Whatever the octets, a loop that ends does so with the objects, the octets
\* counted and the outcome that decoding the whole buffer is defined to have,
\* within as many objects as there are octets (gs_decoder.cpp:79).
THEOREM LoopCorrect == Spec => []LoopAtOnce
<1>1. IInv => LoopAtOnce
  BY Zenon DEF IInv
<1> QED BY <1>1, NextInv, InitInv, PTL DEF Spec

=============================================================================
