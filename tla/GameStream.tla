----------------------------- MODULE GameStream -----------------------------
(***************************************************************************)
(* An Encoder, a Decoder and the DataBuffer between them.  A client hands  *)
(* objects to Encode, one at a time or in vectors, and decodes them again  *)
(* from the same octets; a newer peer's objects may carry octets after the *)
(* fields this version knows; a transport may deliver less than was sent.  *)
(* Every Encode and Decode is one step, as in the code: it runs to its end *)
(* or to an exception on a buffer no one else uses.                        *)
(***************************************************************************)
EXTENDS Encoder, Decoder

CONSTANTS
    BufferSizes,    \* the sizes of the buffers a client brings, 0 among them
    ObjectVectors,  \* the sequences of objects passed to Encode
    PeerObjects,    \* objects of a newer peer, with the octets not understood
    Cuts,           \* bound: how many octets a transport loses
    MaxObjects      \* bound: objects in one buffer

\* The octets of the fields known here.
KnownOctets(v) ==
    Octets(IF v.kind = "HeadIPD1" THEN SerializeField("Float16", v.ipd)
           ELSE SerializeAll(WrittenFields[v.kind], v))

ASSUME StreamAssumption ==
    /\ BufferSizes \subseteq Nat
    /\ Cuts \subseteq Nat \ {0}
    /\ MaxObjects \in Nat
    /\ \A vs \in ObjectVectors : vs \in Seq(Range(vs)) /\ \A v \in Range(vs) : IsObject(v)
    /\ \A p \in PeerObjects :
         /\ IsObject(p.object) /\ p.object.kind # "Unknown"
         /\ p.extra \in Seq(Byte) /\ IsNumber(Len(KnownOctets(p.object) \o p.extra))

VARIABLES
    buffer,     \* the DataBuffer: its size, its data, its read length
    queue,      \* history: the objects put in the buffer and their octets
    taken,      \* history: how many of them have been decoded
    damaged,    \* history: part of another object follows them
    lost,       \* history: an exception left the position inside an object
    out         \* the last call: its objects and its result

vars == <<buffer, queue, taken, damaged, lost, out>>

\* The Encoder's null_buffer: no octets, nothing in it.
Buffer(n) == [size |-> n, data |-> <<>>, read |-> 0]

Result(op, objects, octets, threw, values) ==
    [op |-> op, objects |-> objects, octets |-> octets, threw |-> threw, values |-> values]

OctetsOf(q) ==
    LET sum[i \in 0..Len(q)] == IF i = 0 THEN 0 ELSE sum[i - 1] + q[i].octets
    IN  sum[Len(q)]

\* Where the k-th object of the buffer ends.
End(k) == OctetsOf(SubSeq(queue, 1, IF k <= Len(queue) THEN k ELSE Len(queue)))

-----------------------------------------------------------------------------
(* The client, its peer and the transport. *)

Supply(n) ==
    /\ buffer' = Buffer(n)
    /\ queue' = <<>> /\ taken' = 0 /\ damaged' = FALSE /\ lost' = FALSE
    /\ out' = Result("Client", 0, 0, FALSE, <<>>)

\* DataBuffer::ResetReadLength
Rewind ==
    /\ buffer' = [buffer EXCEPT !.read = 0]
    /\ taken' = 0 /\ lost' = FALSE
    /\ out' = Result("Client", 0, 0, FALSE, <<>>)
    /\ UNCHANGED <<queue, damaged>>

\* An object of a later version of its kind: the fields known here, then more.
Extension(v, extra) ==
    LET data == KnownOctets(v) \o extra
    IN  Octets(SerializeVarUint(TagOf[v.kind]) \o SerializeVarUint(Len(data))) \o data

PeerWrites(v, extra) ==
    LET octets == Extension(v, extra)
    IN  /\ ~damaged
        /\ Len(queue) < MaxObjects
        /\ Len(buffer.data) + Len(octets) <= buffer.size
        /\ buffer' = [buffer EXCEPT !.data = @ \o octets]
        /\ queue' = Append(queue, [object |-> v, octets |-> Len(octets)])
        /\ out' = Result("Client", 0, 0, FALSE, <<>>)
        /\ UNCHANGED <<taken, damaged, lost>>

\* The receiver's buffer has the first octets only.
Lose(n) ==
    LET kept  == Len(buffer.data) - n
        whole == {k \in 0..Len(queue) : End(k) <= kept}
        last  == CHOOSE k \in whole : \A j \in whole : j <= k
    IN  /\ ~damaged /\ buffer.read = 0 /\ kept >= 0
        /\ buffer' = [buffer EXCEPT !.data = SubSeq(@, 1, kept)]
        /\ queue' = SubSeq(queue, 1, last)
        /\ damaged' = (End(last) < kept)
        /\ out' = Result("Client", 0, 0, FALSE, <<>>)
        /\ UNCHANGED <<taken, lost>>

-----------------------------------------------------------------------------
(* Encoding and decoding. *)

Encoded(vs, r) ==
    /\ Len(queue) + r.objects <= MaxObjects \/ buffer.size = 0
    /\ buffer' = r.buffer
    /\ queue' = IF buffer.size = 0 THEN queue
                ELSE queue \o [i \in 1..r.objects |->
                         [object |-> vs[i], octets |-> Length(Written(vs[i]))]]
    /\ out' = Result("Encode", r.objects, r.octets, r.threw, vs)
    /\ UNCHANGED <<taken, damaged, lost>>

EncodeOne(v) == ~damaged /\ Encoded(<<v>>, Encode(buffer, v))

EncodeVector(vs) == ~damaged /\ Encoded(vs, EncodeObjects(buffer, vs))

\* The read r of the objects r.value.
Decoded(r) ==
    /\ ~lost
    /\ buffer' = [buffer EXCEPT !.read = r.pos]
    /\ taken' = taken + Len(r.value)
    /\ lost' = (r.threw /\ r.pos # End(taken + Len(r.value)))
    /\ out' = IF r.threw THEN Result("Decode", 0, 0, TRUE, r.value)
                         ELSE Result("Decode", Len(r.value), r.count, FALSE, r.value)
    /\ UNCHANGED <<queue, damaged>>

\* A read of one object, as a read of several.
Single(r) == [r EXCEPT !.value = IF r.threw THEN <<>> ELSE <<r.value>>]

\* A client stops at the first exception.  A call that does not end takes no step.
DecodeOne    == LET r == Decode(buffer.data, buffer.read) IN Decoded(Single(r))
DecodeVector == LET r == DecodeObjects(buffer.data, buffer.read)
                IN  Ended(buffer.data, r) /\ Decoded(r)

-----------------------------------------------------------------------------
Init ==
    /\ buffer = Buffer(0)
    /\ queue = <<>> /\ taken = 0 /\ damaged = FALSE /\ lost = FALSE
    /\ out = Result("Client", 0, 0, FALSE, <<>>)

Next ==
    \/ \E n \in BufferSizes : Supply(n)
    \/ Rewind
    \/ \E p \in PeerObjects : PeerWrites(p.object, p.extra)
    \/ \E n \in Cuts : Lose(n)
    \/ \E vs \in ObjectVectors : Len(vs) = 1 /\ EncodeOne(vs[1])
    \/ \E vs \in ObjectVectors : EncodeVector(vs)
    \/ DecodeOne
    \/ DecodeVector

Spec == Init /\ [][Next]_vars

-----------------------------------------------------------------------------
(* Properties. *)

\* The type invariant.
TypeOK ==
    /\ buffer.size \in Nat /\ buffer.data \in Seq(Byte)
    /\ Len(buffer.data) <= buffer.size /\ buffer.read \in 0..Len(buffer.data)
    /\ Len(queue) <= MaxObjects
    /\ taken \in Nat
    /\ damaged \in BOOLEAN /\ lost \in BOOLEAN

\* After any Decode that did not throw the position is where an object ends:
\* the next one is not read from the middle of the octets of this one
\* (gs_decoder.cpp:250 and 579, "Discard any octets not understood").
Aligned ==
    ~lost => /\ taken <= Len(queue)
             /\ buffer.read = End(taken)

\* The buffer is a queue of objects (module ObjectQueue): appended whole or
\* not at all, measured exactly, decoded in order and unchanged, never taken
\* from the remains of one that was cut off.
LengthWritten(v) == Length(Written(v))

Queue == INSTANCE ObjectQueue WITH LengthOf <- LengthWritten, size <- buffer.size

ImplementsObjectQueue == Queue!Spec
=============================================================================
