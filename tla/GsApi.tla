-------------------------------- MODULE GsApi --------------------------------
(***************************************************************************)
(* The C API (src/src/gs_api.cpp): encoder and decoder contexts behind     *)
(* handles, the caller's raw buffers, and the arrays that decoding         *)
(* allocates, which a decoder context owns until it is destroyed.  The     *)
(* caller keeps to the API: it uses no destroyed context and no array of   *)
(* one, does not write where a decoder still reads, and decodes nothing    *)
(* more once an error has left a decoder inside an object.  Allocations    *)
(* may fail where Failures says so.                                        *)
(***************************************************************************)
EXTENDS GsApiInternal, FiniteSets

CONSTANTS
    Encoders, Decoders,     \* handles
    Buffers, Capacity,      \* the caller's raw buffers and their octets
    Arrays,                 \* the caller's arrays, by pointer
    CObjects,               \* the objects a caller encodes
    Slots,                  \* the GS_Objects a caller decodes into
    Blocks,                 \* pointers that an allocation may return
    Cuts,                   \* bound: octets that may be missing at the end
    MaxObjects,             \* bound: objects in a raw buffer
    Failures                \* the allocations that may fail

ASSUME ApiAssumption ==
    /\ NULL \notin Buffers \cup Blocks \cup Decoders
    /\ Capacity \in [Buffers -> Nat \ {0}]
    /\ Blocks \subseteq Nat /\ Blocks \cap DOMAIN Arrays = {}
    /\ \A o \in CObjects : o.type = 0 \/ IsGSObject(o, Arrays)
    /\ Cuts \subseteq Nat \ {0}
    /\ Failures \subseteq {"context", "copy", "decode", "array", "record", "text"}

VARIABLES
    memory,     \* the octets last written to each raw buffer
    encoder,    \* the encoder contexts
    decoder,    \* the decoder contexts
    heap,       \* the arrays that decoding has allocated
    slot,       \* the caller's GS_Objects, the context each depends on, and
                \* history: what the octets it was decoded from stand for
    written,    \* history: what is in each raw buffer and where it ends
    out         \* the last call: its context, its result and the error's text

vars == <<memory, encoder, decoder, heap, slot, written, out>>

NoObject == [type |-> 0, u |-> [zero |-> 0]]

EmptySlot == [object |-> NoObject, owner |-> NULL, told |-> NoObject]

ClosedEncoder == [open |-> FALSE, buffer |-> NULL, size |-> 0, length |-> 0, error |-> ""]
ClosedDecoder == [open |-> FALSE, buffer |-> NULL, length |-> 0, read |-> 0, error |-> "",
                  allocations |-> {}]

Returned(call, on, given, result, text) ==
    out' = [call |-> call, on |-> on, given |-> given, result |-> result, text |-> text,
            escaped |-> FALSE]

Returns(call, on, result, text) == Returned(call, on, NoObject, result, text)

\* An exception of the handler itself leaves the C function, which returns
\* nothing.
NoResult == -2

Escapes(call, on) ==
    out' = [call |-> call, on |-> on, given |-> NoObject, result |-> NoResult, text |-> "",
            escaped |-> TRUE]

\* A block of the heap is free or has an array; what pointers point to.
Free == [live |-> FALSE, array |-> <<>>]

Pointed ==
    [p \in Blocks \cup DOMAIN Arrays |-> IF p \in Blocks THEN heap[p].array ELSE Arrays[p]]

\* A buffer without a length or a length without a buffer is rejected.
Mismatched(b, n) == (b # NULL /\ n = 0) \/ (b = NULL /\ n > 0)

-----------------------------------------------------------------------------
(* What a caller sees in a GS_Object, pointers followed.                   *)

Meaning(o, at) ==
    LET u == o.u
    IN  CASE o.type = TagOf["Head1"] ->
               [u EXCEPT !.ipd_present = Bool(@),
                         !.ipd = IF u.ipd_present = 0 THEN [ipd |-> 0] ELSE @]
          [] o.type = TagOf["Object1"] ->
               [u EXCEPT !.active = Bool(@), !.parent_present = Bool(@),
                         !.parent = IF u.parent_present = 0 THEN 0 ELSE @]
          [] o.type \in {TagOf["Hand1"], TagOf["Hand2"]} -> [u EXCEPT !.left = Bool(@)]
          [] o.type = TagOf["Mesh1"] ->
               [u EXCEPT !.vertices = Elements(at, @, u.num_vertices),
                         !.normals = Elements(at, @, u.num_normals),
                         !.textures = Elements(at, @, u.num_textures),
                         !.triangles = Elements(at, @, u.num_triangles)]
          [] o.type = TagOf["HeadIPD1"] -> u
          [] OTHER -> [u EXCEPT !.data = Elements(at, @, u.data_length)]

\* The arrays a GS_Object points to.
Pointers(o) ==
    CASE o.type = TagOf["Mesh1"] ->
           {o.u.vertices, o.u.normals, o.u.textures, o.u.triangles} \ {NULL}
      [] o.type \in {0} \cup {TagOf[k] : k \in Kinds \ {"Mesh1"}} -> {}
      [] OTHER -> {o.u.data} \ {NULL}

Told(o, at) == [type |-> o.type, meaning |-> Meaning(o, at)]

-----------------------------------------------------------------------------
(* Encoder contexts.                                                       *)

EncoderContext(b, n) == [open |-> TRUE, buffer |-> b, size |-> n, length |-> 0, error |-> ""]

\* A caller has one encoder write to a raw buffer.
Unshared(e, b) == \A f \in Encoders \ {e} : encoder[f].buffer # b \/ b = NULL

GSEncoderInit(e, b, n) ==
    /\ ~encoder[e].open /\ Unshared(e, b)
    /\ \/ /\ Mismatched(b, n) \/ "context" \in Failures
          /\ Returns("GSEncoderInit", e, -1, "")
          /\ UNCHANGED encoder
       \/ /\ ~Mismatched(b, n)
          /\ encoder' = [encoder EXCEPT ![e] = EncoderContext(b, n)]
          /\ Returns("GSEncoderInit", e, 0, "")
    /\ UNCHANGED <<memory, decoder, heap, slot, written>>

\* The error's text is left alone when the parameters are rejected.
GSEncoderSetBuffer(e, b, n) ==
    /\ encoder[e].open /\ Unshared(e, b)
    /\ IF b = NULL \/ n = 0
       THEN /\ Returns("GSEncoderSetBuffer", e, -1, "")
            /\ UNCHANGED encoder
       ELSE /\ encoder' = [encoder EXCEPT ![e] = EncoderContext(b, n)]
            /\ Returns("GSEncoderSetBuffer", e, 0, "")
    /\ UNCHANGED <<memory, decoder, heap, slot, written>>

GSEncoderResetBuffer(e) ==
    /\ encoder[e].open
    /\ encoder' = [encoder EXCEPT ![e].length = 0, ![e].error = ""]
    /\ Returns("GSEncoderResetBuffer", e, 0, "")
    /\ UNCHANGED <<memory, decoder, heap, slot, written>>

\* The octets in use of the context's DataBuffer.
DataOf(c) == IF c.buffer = NULL THEN <<>> ELSE SubSeq(memory[c.buffer], 1, c.length)

DataBufferOf(c) == [size |-> c.size, data |-> DataOf(c), read |-> 0]

\* Mutant: the length is reset, not restored.
EncodesNothingReset(e, o, result, text) ==
    /\ encoder' = [encoder EXCEPT ![e].length = 0, ![e].error = text]
    /\ Returned("GSEncodeObject", e, o, result, text)
    /\ UNCHANGED <<memory, written>>

\* GSEncodeObject returns without having written.
EncodesNothing(e, o, result, text) ==
    /\ encoder' = [encoder EXCEPT ![e].error = text]
    /\ Returned("GSEncodeObject", e, o, result, text)
    /\ UNCHANGED <<memory, written>>

EncodeFull(e, o) == encoder[e].length = encoder[e].size /\ EncodesNothing(e, o, 0, "")

\* The text is a std::string, which may not find memory either.
EncodeInvalid(e, o) ==
    /\ encoder[e].length # encoder[e].size
    /\ o.type = 0
    /\ \/ EncodesNothing(e, o, -1, "Unable to serialize")
       \/ "text" \in Failures /\ EncodesNothing(e, o, -1, "std::bad_alloc")

\* No memory for the vectors of the object.
EncodeNoMemory(e, o) ==
    /\ encoder[e].length # encoder[e].size
    /\ "copy" \in Failures
    /\ Pointers(o) # {}
    /\ EncodesNothing(e, o, -1, "std::bad_alloc")

\* The entries of a raw buffer that end at or before n.
EntriesUpTo(b, n) ==
    LET all  == written[b]
        ends == {k \in 0..Len(all) : k = 0 \/ all[k].end <= n}
    IN  IF b = NULL THEN <<>> ELSE SubSeq(all, 1, CHOOSE k \in ends : \A i \in ends : i <= k)

\* A raw buffer is not written where a decoder reads, and holds few objects.
MayWrite(c) ==
    /\ Len(EntriesUpTo(c.buffer, c.length)) < MaxObjects
    /\ \A d \in Decoders : decoder[d].buffer = c.buffer => decoder[d].length <= c.length

EncodeValue(e, o) ==
    LET c == encoder[e]
    IN  /\ c.length # c.size
        /\ o.type # 0
        /\ MayWrite(c)
        /\ \E r \in {Encode(DataBufferOf(c), GSSerialize(o, Pointed))} :
             LET whole  == r.objects = 1 /\ ~r.threw
                 length == Len(r.buffer.data)
                 text   == IF r.threw THEN "Serializer" ELSE ""
             IN  /\ memory' = [memory EXCEPT ![c.buffer] =
                                 IF length = c.length THEN @ ELSE r.buffer.data]
                 /\ encoder' = [encoder EXCEPT ![e].length = IF whole THEN length ELSE @,
                                               ![e].error = text]
                 /\ written' = IF ~whole THEN written
                               ELSE [written EXCEPT ![c.buffer] =
                                       Append(EntriesUpTo(c.buffer, c.length),
                                              [object |-> Told(o, Pointed), end |-> length])]
                 /\ Returned("GSEncodeObject", e, o, IF r.threw THEN -1 ELSE r.objects, text)

\* A caller encodes objects of its own, and objects it has decoded as long as
\* the context that has their arrays exists.
Encodable ==
    CObjects \cup {slot[s].object : s \in {t \in Slots : slot[t].owner \in Decoders
                                                        /\ decoder[slot[t].owner].open}}

GSEncodeObject(e, o) ==
    /\ encoder[e].open
    /\ EncodeFull(e, o) \/ EncodeInvalid(e, o) \/ EncodeNoMemory(e, o) \/ EncodeValue(e, o)
    /\ UNCHANGED <<decoder, heap, slot>>

\* Asking for the length clears the error's text.
GSEncoderDataLength(e) ==
    /\ encoder[e].open
    /\ encoder' = [encoder EXCEPT ![e].error = ""]
    /\ Returns("GSEncoderDataLength", e, encoder[e].length, "")
    /\ UNCHANGED <<memory, decoder, heap, slot, written>>

GetEncoderError(e) ==
    /\ encoder[e].open
    /\ Returns("GetEncoderError", e, 0, encoder[e].error)
    /\ UNCHANGED <<memory, encoder, decoder, heap, slot, written>>

GSEncoderDestroy(e) ==
    /\ encoder[e].open
    /\ encoder' = [encoder EXCEPT ![e] = ClosedEncoder]
    /\ Returns("GSEncoderDestroy", e, 0, "")
    /\ UNCHANGED <<memory, decoder, heap, slot, written>>

-----------------------------------------------------------------------------
(* Decoder contexts.                                                       *)

\* Lengths a caller gives of what a raw buffer holds: whole objects, or fewer
\* octets when the end has not arrived.
Lengths(b) ==
    IF b = NULL THEN {0, 1}
    ELSE LET ends == {written[b][i].end : i \in DOMAIN written[b]}
         IN  {0} \cup ends \cup {n \in 1..Len(memory[b]) : \E c \in Cuts : n + c \in ends}

GSDecoderInit(d, b, n) ==
    /\ ~decoder[d].open
    /\ \/ /\ Mismatched(b, n) \/ "context" \in Failures
          /\ Returns("GSDecoderInit", d, -1, "")
          /\ UNCHANGED decoder
       \/ /\ ~Mismatched(b, n)
          /\ decoder' = [decoder EXCEPT ![d] = [open |-> TRUE, buffer |-> b, length |-> n,
                                                read |-> 0, error |-> "", allocations |-> {}]]
          /\ Returns("GSDecoderInit", d, 0, "")
    /\ UNCHANGED <<memory, encoder, heap, slot, written>>

\* Mutant: reading goes on where it was.
ReadingOn(c, b, n) == [c EXCEPT !.buffer = b, !.length = n, !.error = ""]

\* SetBuffer starts reading at the first octet; the arrays stay allocated.
Reading(c, b, n) == [c EXCEPT !.buffer = b, !.length = n, !.read = 0, !.error = ""]

\* What the arrays of a context leave when they are freed.
Freed(c) == [p \in Blocks |-> IF p \in c.allocations THEN Free ELSE heap[p]]

\* Mutant: the arrays are freed but stay recorded.
GSDecoderSetBufferFrees(d, b, n) ==
    /\ decoder[d].open
    /\ b # NULL /\ n > 0
    /\ decoder' = [decoder EXCEPT ![d] = Reading(@, b, n)]
    /\ heap' = Freed(decoder[d])
    /\ Returns("GSDecoderSetBuffer", d, 0, "")
    /\ UNCHANGED <<memory, encoder, slot, written>>

GSDecoderSetBuffer(d, b, n) ==
    /\ decoder[d].open
    /\ IF b = NULL \/ n = 0
       THEN /\ Returns("GSDecoderSetBuffer", d, -1, "")
            /\ UNCHANGED decoder
       ELSE /\ decoder' = [decoder EXCEPT ![d] = Reading(@, b, n)]
            /\ Returns("GSDecoderSetBuffer", d, 0, "")
    /\ UNCHANGED <<memory, encoder, heap, slot, written>>

\* Mutant: the arrays are freed and no longer recorded.
GSDecoderResetBufferFrees(d, n) ==
    /\ decoder[d].open
    /\ decoder[d].buffer # NULL /\ n > 0
    /\ decoder' = [decoder EXCEPT ![d] = [Reading(@, @.buffer, n) EXCEPT !.allocations = {}]]
    /\ heap' = Freed(decoder[d])
    /\ Returns("GSDecoderResetBuffer", d, 0, "")
    /\ UNCHANGED <<memory, encoder, slot, written>>

\* The error's text is cleared before the parameters are looked at.
GSDecoderResetBuffer(d, n) ==
    LET b == decoder[d].buffer
    IN  /\ decoder[d].open
        /\ IF b = NULL \/ n = 0
           THEN /\ decoder' = [decoder EXCEPT ![d].error = ""]
                /\ Returns("GSDecoderResetBuffer", d, -1, "")
           ELSE /\ decoder' = [decoder EXCEPT ![d] = Reading(@, b, n)]
                /\ Returns("GSDecoderResetBuffer", d, 0, "")
        /\ UNCHANGED <<memory, encoder, heap, slot, written>>

\* What the octets at the read position stand for, nothing if they are not all
\* there; the position is inside an object after an error in the middle of one.
Whole(d) == EntriesUpTo(decoder[d].buffer, decoder[d].length)

Ends(d) == {0} \cup {Whole(d)[i].end : i \in DOMAIN Whole(d)}

Expected(d) ==
    LET next == {i \in DOMAIN Whole(d) :
                   decoder[d].read = IF i = 1 THEN 0 ELSE Whole(d)[i - 1].end}
    IN  IF next = {} THEN NoObject ELSE Whole(d)[CHOOSE i \in next : TRUE].object

\* The outcome of a GSDecodeObject that has no object for the caller.
DecodesNothing(d, result, read, text) ==
    /\ decoder' = [decoder EXCEPT ![d].read = read, ![d].error = text]
    /\ Returns("GSDecodeObject", d, result, text)

DecodeEnd(d) ==
    /\ decoder[d].read >= decoder[d].length
    /\ DecodesNothing(d, 0, decoder[d].read, "")
    /\ UNCHANGED <<heap, slot>>

\* The text of the exception is copied into the context, which may fail in
\* the handler; std::bad_alloc is short enough to need no memory.
DecodeThrows(d, r) ==
    /\ r.threw
    /\ \/ DecodesNothing(d, -1, r.pos, "Decoder")
       \/ /\ "text" \in Failures
          /\ decoder' = [decoder EXCEPT ![d].read = r.pos, ![d].error = ""]
          /\ Escapes("GSDecodeObject", d)
    /\ UNCHANGED <<heap, slot>>

\* Mutant: having no memory is like having no object.
DecodeNoMemoryAsEnd(d, r) ==
    /\ "decode" \in Failures
    /\ ~r.threw /\ \E i \in DOMAIN ArraysOf(r.value) : ArraysOf(r.value)[i] # <<>>
    /\ DecodesNothing(d, 0, decoder[d].read + 1, "")
    /\ UNCHANGED <<heap, slot>>

\* No memory for a vector of the object.  Decoding does not go on from the
\* place inside the object where this happens, so one place stands for all.
DecodeNoMemory(d, r) ==
    /\ "decode" \in Failures
    /\ ~r.threw /\ \E i \in DOMAIN ArraysOf(r.value) : ArraysOf(r.value)[i] # <<>>
    /\ DecodesNothing(d, -1, decoder[d].read + 1, "std::bad_alloc")
    /\ UNCHANGED <<heap, slot>>

\* Blocks that are free, the lowest: which ones makes no difference.
Fresh(blocks) ==
    LET free == {p \in Blocks : ~heap[p].live}
    IN  /\ \A i \in DOMAIN blocks : blocks[i] \in free
        /\ \A i, j \in DOMAIN blocks : blocks[i] = blocks[j] => i = j
        /\ \A i \in DOMAIN blocks : \A p \in free :
              p < blocks[i] => \E j \in DOMAIN blocks : p = blocks[j] /\ j < i

\* Mutant: the arrays of the object before are freed.
PopulatedAfresh(blocks, arrays) ==
    [p \in Blocks |-> IF \E i \in DOMAIN blocks : blocks[i] = p
         THEN [live |-> TRUE, array |-> arrays[CHOOSE i \in DOMAIN blocks : blocks[i] = p]]
         ELSE Free]

\* The i-th block now has the i-th array.
Populated(blocks, arrays) ==
    [p \in Blocks |-> IF \E i \in DOMAIN blocks : blocks[i] = p
         THEN [live |-> TRUE, array |-> arrays[CHOOSE i \in DOMAIN blocks : blocks[i] = p]]
         ELSE heap[p]]

\* The object is zeroed and filled in, one array after the other: n arrays are
\* allocated and the pointers to the first m of them recorded.  An unknown
\* object gets its pointer before it is recorded, a mesh after.
Deserialized(d, s, r, n, m, owner, told) ==
    \E blocks \in [1..n -> Blocks] :
      /\ Fresh(blocks)
      /\ heap' = Populated(blocks, ArraysOf(r.value))
      /\ decoder' = [decoder EXCEPT
            ![d].read = r.pos,
            ![d].error = IF owner = d THEN "" ELSE "std::bad_alloc",
            ![d].allocations = @ \cup {blocks[i] : i \in 1..m}]
      /\ slot' = [slot EXCEPT ![s] = [
            object |-> GSDeserialize(r.value, IF r.value.kind = "Unknown" THEN blocks
                                              ELSE SubSeq(blocks, 1, m)),
            owner |-> owner, told |-> told]]

DecodeValue(d, s, r) ==
    LET n == Len(ArraysOf(r.value))
    IN  /\ ~r.threw
        /\ Deserialized(d, s, r, n, n, d, Expected(d))
        /\ Returns("GSDecodeObject", d, 1, "")

\* An array cannot be allocated.  What the caller has is of no use, and the
\* object has been read.
DecodeArrayFails(d, s, r) ==
    /\ ~r.threw
    /\ "array" \in Failures
    /\ \E n \in 1..Len(ArraysOf(r.value)) : Deserialized(d, s, r, n - 1, n - 1, NULL, NoObject)
    /\ Returns("GSDecodeObject", d, -1, "std::bad_alloc")

\* An array is allocated but the list of them cannot grow.
DecodeRecordFails(d, s, r) ==
    /\ ~r.threw
    /\ "record" \in Failures
    /\ \E n \in 1..Len(ArraysOf(r.value)) : Deserialized(d, s, r, n, n - 1, NULL, NoObject)
    /\ Returns("GSDecodeObject", d, -1, "std::bad_alloc")

DecodeNext(d, s) ==
    /\ decoder[d].read < decoder[d].length
    /\ \E r \in {Decode(DataOf(decoder[d]), decoder[d].read)} :
         \/ DecodeThrows(d, r)
         \/ DecodeNoMemory(d, r)
         \/ DecodeValue(d, s, r)
         \/ DecodeArrayFails(d, s, r)
         \/ DecodeRecordFails(d, s, r)

GSDecodeObject(d, s) ==
    /\ decoder[d].open
    /\ decoder[d].read \in Ends(d)
    /\ DecodeEnd(d) \/ DecodeNext(d, s)
    /\ UNCHANGED <<memory, encoder, written>>

GetDecoderError(d) ==
    /\ decoder[d].open
    /\ Returns("GetDecoderError", d, 0, decoder[d].error)
    /\ UNCHANGED <<memory, encoder, decoder, heap, slot, written>>

\* Mutant: the arrays are not freed.
GSDecoderDestroyLeaks(d) ==
    /\ decoder[d].open
    /\ decoder' = [decoder EXCEPT ![d] = ClosedDecoder]
    /\ slot' = [s \in Slots |-> IF slot[s].owner = d THEN EmptySlot ELSE slot[s]]
    /\ Returns("GSDecoderDestroy", d, 0, "")
    /\ UNCHANGED <<memory, encoder, heap, written>>

\* The arrays are freed; the caller forgets the objects that have them.
GSDecoderDestroy(d) ==
    /\ decoder[d].open
    /\ heap' = Freed(decoder[d])
    /\ decoder' = [decoder EXCEPT ![d] = ClosedDecoder]
    /\ slot' = [s \in Slots |-> IF slot[s].owner = d THEN EmptySlot ELSE slot[s]]
    /\ Returns("GSDecoderDestroy", d, 0, "")
    /\ UNCHANGED <<memory, encoder, written>>

-----------------------------------------------------------------------------
\* Every function returns its error value for a null handle.
OnNull ==
    /\ Returns("any", NULL, -1, "")
    /\ UNCHANGED <<memory, encoder, decoder, heap, slot, written>>

Init ==
    /\ memory = [b \in Buffers |-> <<>>]
    /\ encoder = [e \in Encoders |-> ClosedEncoder]
    /\ decoder = [d \in Decoders |-> ClosedDecoder]
    /\ heap = [p \in Blocks |-> Free]
    /\ slot = [s \in Slots |-> EmptySlot]
    /\ written = [b \in Buffers |-> <<>>]
    /\ out = [call |-> "none", on |-> NULL, given |-> NoObject, result |-> 0, text |-> "",
              escaped |-> FALSE]

\* What a caller passes as a buffer and its length.
Given == {<<b, Capacity[b]>> : b \in Buffers} \cup {<<b, 0>> : b \in Buffers}
            \cup {<<NULL, 0>>, <<NULL, 1>>}

EncoderStep(e) ==
    \/ \E g \in Given : GSEncoderInit(e, g[1], g[2]) \/ GSEncoderSetBuffer(e, g[1], g[2])
    \/ GSEncoderResetBuffer(e)
    \/ \E o \in Encodable : GSEncodeObject(e, o)
    \/ GSEncoderDataLength(e)
    \/ GetEncoderError(e)
    \/ GSEncoderDestroy(e)

DecoderStep(d) ==
    \/ \E b \in Buffers \cup {NULL} : \E n \in Lengths(b) :
          GSDecoderInit(d, b, n) \/ GSDecoderSetBuffer(d, b, n)
    \/ \E n \in Lengths(decoder[d].buffer) : GSDecoderResetBuffer(d, n)
    \/ \E s \in Slots : GSDecodeObject(d, s)
    \/ GetDecoderError(d)
    \/ GSDecoderDestroy(d)

Next ==
    \/ \E e \in Encoders : EncoderStep(e)
    \/ \E d \in Decoders : DecoderStep(d)
    \/ OnNull

Spec == Init /\ [][Next]_vars

-----------------------------------------------------------------------------
(* Properties.                                                             *)

\* The type invariant.
TypeOK ==
    /\ \A b \in Buffers : memory[b] \in Seq(Byte) /\ Len(memory[b]) <= Capacity[b]
    /\ \A e \in Encoders :
         LET c == encoder[e]
         IN  /\ c.open \in BOOLEAN /\ c.buffer \in Buffers \cup {NULL}
             /\ c.size = (IF c.buffer = NULL THEN 0 ELSE Capacity[c.buffer])
             /\ c.length \in 0..c.size
    /\ \A d \in Decoders :
         LET c == decoder[d]
         IN  /\ c.open \in BOOLEAN /\ c.buffer \in Buffers \cup {NULL}
             /\ c.length \in 0..(IF c.buffer = NULL THEN 0 ELSE Len(memory[c.buffer]))
             /\ c.read \in 0..c.length
             /\ c.allocations \subseteq Blocks
    /\ \A s \in Slots : slot[s].owner \in Decoders \cup {NULL}

\* An array that a context has recorded is allocated, and recorded by no other
\* context: none is freed before its context, or twice (gs_api.cpp:753).
AllocationsOwned ==
    /\ \A d \in Decoders : \A p \in decoder[d].allocations : heap[p].live
    /\ \A c, d \in Decoders : c # d => decoder[c].allocations \cap decoder[d].allocations = {}

\* Every array that is allocated is one that a context will free
\* (gs_api.cpp:638-639: "Those dynamic memory allocations will be freed when
\* GSDecoderDestroy() is called").
NothingLeaks ==
    \A p \in Blocks : heap[p].live => \E d \in Decoders : p \in decoder[d].allocations

\* An object that was decoded is, pointers followed, the one that was encoded,
\* and stays so until its context is destroyed, whatever buffers the context
\* is given and whatever else it decodes; none is made of what is left of one.
ObjectsIntact ==
    \A s \in Slots : slot[s].owner \in Decoders =>
        /\ \A p \in Pointers(slot[s].object) : p \in Blocks /\ heap[p].live
        /\ Told(slot[s].object, Pointed) = slot[s].told

\* GSEncodeObject appends the whole object or leaves the length as it was: 0
\* when it does not fit, -1 when it has no type or there is no memory
\* (gs_api.cpp:295-299 restores the length).
EncodesAllOrNothing ==
    [][\A e \in Encoders : out'.call = "GSEncodeObject" /\ out'.on = e =>
          LET c    == encoder[e]
              o    == out'.given
              need == IF o.type = 0 THEN 0 ELSE Length(Written(GSSerialize(o, Pointed)))
          IN  /\ encoder'[e].length = c.length + (IF out'.result = 1 THEN need ELSE 0)
              /\ c.length > 0 => SubSeq(memory'[c.buffer], 1, c.length) = DataOf(c)
              /\ out'.result = 0 => c.length + need > c.size \/ c.length = c.size
              /\ out'.result = -1 => o.type = 0 \/ "copy" \in Failures]_vars

\* GSDecodeObject returns the next object when there is a whole one and 0 at
\* the end; otherwise the rest of one is missing, or there was no memory.
DecodesWhatIsThere ==
    [][\A d \in Decoders : out'.call = "GSDecodeObject" /\ out'.on = d =>
          /\ out'.result = 1 => Expected(d) # NoObject
          /\ out'.result = 0 => decoder[d].read = decoder[d].length
          /\ out'.result = -1 => \/ Expected(d) = NoObject
                                 \/ Failures \cap {"decode", "array", "record"} # {}]_vars
=============================================================================
