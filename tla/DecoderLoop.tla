----------------------------- MODULE DecoderLoop -----------------------------
(***************************************************************************)
(* Decoder::Decode of all the objects in a buffer, an iteration of its     *)
(* loop at a time, on octets that anyone may have sent.  The loop has no   *)
(* bound of its own.  It ends where every object takes at least an octet,  *)
(* which is so unless octets not understood are skipped by a length close  *)
(* to 2^64: then the position goes back, and it may do so for ever.        *)
(***************************************************************************)
EXTENDS Decoder

CONSTANT Inputs         \* what may be in the buffer

ASSUME InputsAssumption == Inputs \subseteq Seq(Byte)

VARIABLES
    data,           \* the octets in the buffer
    decoded,        \* what Decode of one object makes of each position in them
    position,       \* its read length
    value,          \* the objects decoded
    read_length,    \* the octets they took, as Decode counts them
    pc              \* in the loop, after it, or left by an exception

vars == <<data, decoded, position, value, read_length, pc>>

\* What an exception leaves of the object that was being decoded: the fields
\* read before it, which are not told apart here.
Partial == [kind |-> "Partial"]

\* Bound: the vector and the count are followed until there is an object more
\* than there are octets.  A loop that comes so far does not end.
InBound == Len(value) <= Len(data)

\* The vector with one object more, the count with n octets more.
PushBack(x) == IF InBound THEN Append(value, x) ELSE value
Added(n)    == IF InBound THEN (read_length + n) % SizeModulus ELSE read_length

Init ==
    /\ data \in Inputs
    /\ decoded = [p \in 0..Len(data) |-> Decode(data, p)]
    /\ position = 0 /\ value = <<>> /\ read_length = 0 /\ pc = "loop"

\* Mutant: an exception is caught and the same octets are tried for ever.
IterationCatches ==
    /\ pc = "loop" /\ position < Len(data)
    /\ LET r == decoded[position]
       IN  /\ ~r.threw
           /\ position' = r.pos
           /\ value' = PushBack(r.value)
           /\ read_length' = Added(r.count)
    /\ UNCHANGED <<data, decoded, pc>>

\* Mutant: the same, and every try leaves another empty object.
IterationRetries ==
    /\ pc = "loop" /\ position < Len(data)
    /\ LET r == decoded[position]
       IN  /\ position' = IF r.threw THEN position ELSE r.pos
           /\ value' = PushBack(IF r.threw THEN Partial ELSE r.value)
           /\ read_length' = IF r.threw THEN read_length ELSE Added(r.count)
    /\ UNCHANGED <<data, decoded, pc>>

\* Mutant: the octets are counted for the last object only.
IterationRecounts ==
    /\ pc = "loop" /\ position < Len(data)
    /\ LET r == decoded[position]
       IN  /\ position' = r.pos
           /\ value' = PushBack(IF r.threw THEN Partial ELSE r.value)
           /\ read_length' = IF r.threw THEN read_length ELSE r.count % SizeModulus
           /\ pc' = IF r.threw THEN "threw" ELSE pc
    /\ UNCHANGED <<data, decoded>>

\* The object is in the vector before its octets are read.
Iteration ==
    /\ pc = "loop" /\ position < Len(data)
    /\ LET r == decoded[position]
       IN  /\ position' = r.pos
           /\ value' = PushBack(IF r.threw THEN Partial ELSE r.value)
           /\ read_length' = IF r.threw THEN read_length ELSE Added(r.count)
           /\ pc' = IF r.threw THEN "threw" ELSE pc
    /\ UNCHANGED <<data, decoded>>

Return ==
    /\ pc = "loop" /\ position >= Len(data)
    /\ pc' = "returned"
    /\ UNCHANGED <<data, decoded, position, value, read_length>>

Next == Iteration \/ Return

\* The thread that calls Decode runs its loop; nothing else has to happen.
Spec == Init /\ [][Next]_vars /\ WF_vars(Next)

-----------------------------------------------------------------------------
(* Properties.                                                             *)

\* The type invariant: position and vector stay within their bounds whatever
\* the octets, also where the position goes back.
TypeOK ==
    /\ data \in Inputs /\ position \in 0..Len(data)
    /\ Len(value) <= Len(data) + 1 /\ read_length \in 0..(SizeModulus - 1)
    /\ pc \in {"loop", "returned", "threw"}

\* Decode ends, whatever the octets (gs_decoder.cpp:78, "Loop until all data in
\* the buffer is consumed").
Terminates == <>(pc # "loop")

\* It does unless the octets hold a VarUint close to 2^64 (gs_decoder.cpp:79).
TerminatesUnlessWrapping == ~Wrapping(data) => Terminates

\* Unless they do, every iteration leaves the position further on than it was,
\* also when the octets skipped are counted wrongly and the position goes back
\* within the object (gs_decoder.cpp:250 and 579).
Advances == [][~Wrapping(data) /\ pc' = "loop" => position' > position]_vars

\* The loop has stopped where the result r of decoding everything at once says,
\* with one object more in the vector after an exception (gs_decoder.cpp:81).
EndsAs(r) ==
    /\ Ended(data, r) /\ r.pos = position
    /\ r.threw <=> pc = "threw"
    /\ value = IF r.threw THEN Append(r.value, Partial) ELSE r.value
    /\ pc = "returned" => read_length = r.count % SizeModulus

\* Whatever the octets, the loop that ends does so within as many objects as
\* there are octets, with what DecodeObjects says at once (gs_decoder.cpp:79-83).
LoopAtOnce == pc # "loop" => EndsAs(DecodeObjects(data, 0))
=============================================================================
