# The Game State Encoder, specified

TLA+ models of the Game State Encoder library (namespace `gs`), the TLC
configurations that check them, and TLAPS proofs about them.  Paths below are
those of the repository.

## The system

The library turns game objects (heads, hands, meshes, scene objects) into
octets and back.  It is sequential: no threads, no locks, no callbacks, no
I/O.  `README.md:49` allows an Encoder or Decoder to be used by several threads
"as long as no two threads write or read from the same DataBuffer"; what they
share, the Encoder's `null_buffer`, has size 0 and is never written, as every
write is guarded by `GetBufferSize()`.  Each public call is therefore one
atomic step of the models, even though it may stop half-way with an exception
or for want of memory; `DecoderLoop` alone looks inside one.

| component | state | operations | uses |
|---|---|---|---|
| `DataBuffer` (`data_buffer.cpp`) | pointer, owner flag, size, data length, read length; the heap | construct, copy, move, assign, destroy, lend and take memory, get/set/append/read, skip | `operator new[]` |
| `Serializer` (`gs_serializer.cpp`) | none | write integers, VarUint, VarInt, floats, strings, blobs | `DataBuffer` |
| `Deserializer` (`gs_deserializer.cpp`) | none | read them | `DataBuffer` |
| `Encoder` (`gs_encoder.cpp`) | an empty buffer for sizing | encode an object, a vector of objects | `Serializer` |
| `Decoder` (`gs_decoder.cpp`) | none | decode an object, all objects | `Deserializer` |
| object types (`gs_types.h`) | - | - | - |
| half floats (`half_float.cpp`) | none | convert 32 to 16 bits and back | - |
| C API (`gs_api.cpp`) | encoder and decoder contexts, error strings | create, encode, decode, reset, destroy | all of the above |
| C API internals (`gs_api_internal.cpp`) | allocations of a decoder context | copy between C structures and objects | object types |
| `OctetString` (`octet_string.cpp`) | a vector of octets | print | - |

What is hard about each, and what makes it correct:

- **DataBuffer.**  A block of memory passes from object to object and between
  objects and the caller, by moves, copies, `TakeBufferOwnership` and
  `SetBuffer`; every allocation may throw.  *Each block has one owner, no
  pointer dangles, the three lengths stay ordered, no call touches memory it
  should not, and from outside each object is a value of its own.*
- **Serializer, Deserializer.**  Variable-length integers have five forms that
  meet at powers of two; a value is appended in pieces and the second may not
  fit; the data may end inside a value.  *What is written is read back, what is
  incomplete is refused, counts are those of the octets.*
- **Encoder, Decoder.**  The Encoder sizes an object with one list of fields
  and writes it with another.  A decoder skips what a newer peer appends and
  must stop exactly where an object ends.  *A buffer is a queue of whole
  objects; decoding stays within the data on any octets, and ends unless they
  hold a length close to 2^64.*
- **C API.**  Exceptions become return codes and texts; a failed encode restores
  the data length; arrays of decoded objects belong to a context that lives
  longer or shorter than the objects, and any allocation of several may fail.
  *An object comes back as it was and stays so until its context is destroyed;
  encoding is all or nothing; no array is lost or freed twice.*
- **Half floats.**  Rounding that carries, subnormals, infinities, shifts wider
  than the word.  *Widening is exact, narrowing gives a neighbour and the
  nearest where it is normal, keeps order, and undoes widening.*

`PROJECT.json` lists each hazard at its line with the properties that cover it.

## The modules

| module | models | role |
|---|---|---|
| `OctetBuffers` | what a user of `DataBuffer` may rely on | abstract specification |
| `DataBuffer` | `data_buffer.cpp`, the heap and the caller | detailed specification |
| `MCDataBuffer` | - | constants for TLC |
| `DataBufferProofs` | - | proofs about `DataBuffer`: types, owners, pointers; lengths, faults, copies; that it implements `OctetBuffers` |
| `VarCodec` | VarUint and VarInt, both directions | pure operators |
| `VarCodecProofs` | - | proofs about `VarCodec` |
| `Serialization` | a `Serializer` and a `Deserializer` on one buffer | specification, extends `VarCodec` |
| `MCSerialization` | - | constants for TLC |
| `SerializationProofs` | - | proofs about `Serialization`, extends `VarCodecProofs` too |
| `Encoder`, `Decoder` | `gs_encoder.cpp`, `gs_decoder.cpp` | pure operators, extend `VarCodec` |
| `CodecProofs` | - | proofs about `Encoder` and `Decoder`, extends `VarCodecProofs` |
| `ObjectQueue` | what an Encoder and a Decoder promise together | abstract specification |
| `GameStream` | an Encoder, a Decoder, the buffer between, a peer, a transport | composes `Encoder` and `Decoder` |
| `GameStreamProofs` | - | proofs about `GameStream`, extends `CodecProofs` |
| `MCGameStream` | - | constants for TLC |
| `DecoderLoop` | the loop of `Decoder::Decode` over a buffer, by iteration | specification with fairness, extends `Decoder` |
| `MCDecoderLoop` | - | constants for TLC |
| `DecoderLoopProofs` | - | proofs about `DecoderLoop`, extends `CodecProofs` |
| `HalfFloat` | `half_float.cpp`, and a Float16 written and read | pure operators and a specification |
| `MCHalfFloat` | - | constants for TLC |
| `HalfFloatProofs` | - | proofs about `HalfFloat` |
| `GsApiInternal` | `gs_api_internal.cpp`: the copies | pure operators, extends `Encoder` and `Decoder` |
| `GsApi` | `gs_api.cpp`, and what `gs_api_internal.cpp` allocates | composes all of the above from a caller's side |
| `MCGsApi` | - | constants for TLC |
| `GsApiProofs` | - | proofs about `GsApi`, extends `CodecProofs` too |

No module declares a RECURSIVE operator; recursion is by recursive functions,
so that every module can be proved about.

### DataBuffer

`obj[o]` has the five fields of the class under their names and `alive`.  A
block of the heap has a `capacity` (0: free) and cells; a cell that was never
written is `Indeterminate`.  `held` is the set of blocks the caller must free.
`out` is the last call and its result (status `"threw"`: an exception), and
`fault` means that the call would have used a null or dead pointer, gone beyond
a block, or deleted a block twice.  The guard of an access is the code's own
check; whether the access is possible is decided by the heap, so a missing
check shows as a fault.

Every constructor, the destructor, `operator=` and every member function that
changes state is an action.  The typed overloads of Get, Set, Append and Read
are one action each on the octet string in network order.  `SetValue` of 64
bits is an action of its own because it stores two words with a check each
(`data_buffer.cpp:1305`).  `operator=` has one action per way it can go: to
itself, in place, reallocated, and without memory; the last leaves the object in
`torn`, for no part of the code says what such an object is.
An addition of `std::size_t` is `Plus`, modulo `SizeModulus`.  `Counts` is what a
caller may pass as an offset, a count to read or a count to skip; where it has a
number near `SizeModulus`, the sums in the bounds checks wrap as in the code
(`data_buffer.cpp:788`, `:892`, `:1185`, `:1740`).

What the caller may do is `Lendable` and `Usable`: a pointer it passes in is
null or a block it holds, is not lent to two objects and is at least as long as it
says.  Two constants lift restrictions: `NullClaims` (a null pointer with a
size) and `ReuseTorn` (an object is used after its `operator=` threw).

`OctetBuffers` has no pointers and no blocks: a value is its cells, how many
are in use and how many have been read.  The refinement mapping `ValueOf` reads
the cells out of the block.  The abstract next-state relation refuses an
operation on one object that changes another, a read that returns anything but
the next octets, and a throw that changes something.

### VarCodec, Serialization

A 64-bit value is a sequence of eight octets, most significant first, so that
the whole range can be spoken of although TLC's integers have 32 bits.
`VarUintPieces` and `VarIntPieces` are the octet strings given to `AppendValue`
one after the other; `ReadVarUint` and `ReadVarInt` say how a read ended and
where it left the position: a read that fails for want of later octets has
consumed the first.  `NumberOf` is the 64-bit value as a number TLC can have:
`SizeModulus` (2^26) stands for 2^64, the numbers below 2^24 and the last 2^24
before 2^64 are told apart, and `Huge` stands for all in between.  In data
shorter than 2^24 octets none of those can be a length that is there, nor make
a sum with a position wrap.  `Signed` and `Unsigned` take a `std::size_t` into a
sum that may wrap, and back.  `Serialization` has a client that writes typed values
(`Measure` for a buffer of size 0), a transport that loses the last octets, and a
reader that asks for the type of the next value.  `torn` is a value of which
only a part is there.  The reader stops when an exception leaves it inside a
value, as there is no way to go on.

A fixed-width integer, float or Boolean is its octets; only its width matters.
Strings and blobs are the same code but for the type of the destination.

### Encoder, Decoder, GameStream

An object is a record of its kind and fields, a field the sequence of its
primitives.  A primitive of n octets is one octet n times over: the decoder
gives it back only if the n octets it reads are equal, so a shifted read is
seen.  `SizedFields` and `WrittenFields` are the two lists of the Encoder,
kept apart as in the code, and `ReadFields` is the Decoder's.  `Encode` and `Decode` are functions
of a buffer's value; `Decode` keeps both the position and `read_length`, which
the code computes separately, and an exception keeps the position reached.
`Discarded` is what the code passes to `AdvanceReadLength` for octets not
understood: it differs between kinds (see Findings).  `Finish` adds it to the
position as the code does: with a length close to 2^64 the sum wraps, the check
passes and the position goes back (`data_buffer.cpp:788`).  `DecodeObjects` is the
loop over a buffer, cut after as many objects as there are octets: if it has not
`Ended` by then it has been at one position twice, and never will.

`GameStream` has histories beside the buffer: the `queue` of objects whose
octets are in it, how many were `taken`, whether a part of another follows
(`damaged`) and whether an exception left the reader inside an object
(`lost`).  `ObjectQueue` speaks of these alone.

### DecoderLoop

`Decode(DataBuffer &, GSObjects &)` loops until the position reaches the end
of the data (`gs_decoder.cpp:79`).  Each iteration is an action; `decoded`
holds what `Decode` makes of every position, worked out once, and does not
change.  An object is in the vector before its octets are read (`:81`), so an
exception leaves one more there, which may be incomplete (`Partial`).  The
position is the only thing that brings the loop to its end, and two things make
it go back: the octets skipped after the optional part of a Head1 or Object1,
which are counted wrongly, and a length close to 2^64, for which the sum in
`AdvanceReadLength` wraps (see Findings).  The shortest example of the second is
a HeadIPD1: the octets C0 80 02, E2 and 2^64 - 12 in eight octets, and an ipd of two
octets.  After it the position is 0.  The vector and the count are followed until there
is one object more than there are octets (`InBound`).

### HalfFloat

A float is its three fields, a half the number its 16 bits make, because
rounding adds one to the whole of it.  `FloatToHalfFloat` is a set of results:
`Subnormal` shifts by up to 112 bits (`half_float.cpp:139`), and by 32 or more
the language leaves the result open; the set has the one of a processor that
takes the count modulo 32 and the one that is zero.  What a half means is
stated a second time, as significand and scale (`SameNumber`), and the order
of floats by `Rank`; the properties compare the code with these.

### GsApiInternal, GsApi

A C structure is a record with the names of `gs_api.h`; each `SerializeCopy`
and `DeserializeCopy` is an operator, and so are the two functions of each
kind.  `GSObject1` and so on are the types of `gs_api.h`; `IsGSObject(o, at)` says
that `o` is a `GS_Object` whose union is the one its type tells and whose pointers
lead to arrays of the length it says.  A pointer is a number; `at` is the memory.  Names are copied to names, and the
Encoder and the Decoder put them in order, so two fields that are exchanged on
one side only are seen.

`GsApi` has contexts behind handles (`encoder`, `decoder`), the caller's raw
buffers (`memory`), the arrays that decoding allocates (`heap`), the caller's
`GS_Object`s (`slot`) and the last call (`out`).  `Encode` and `Decode` are those of the modules above, on the
octets of the context's buffer.  Each function is an action with its early
returns; `GSEncodeObject` and `GSDecodeObject` are a disjunction of the ways
they end.  `written` and `slot[s].told` are histories: what is in a raw buffer, and what
the object decoded from it should look like.

Memory may fail where the constant `Failures` says so:

| failure | where | effect in the code |
|---|---|---|
| `"context"` | `new` in an Init | -1 |
| `"copy"` | a vector of the object to be encoded | -1, the length restored |
| `"decode"` | a vector of the object being decoded | -1, the position inside the object |
| `"array"` | an array of the caller's object | -1, the arrays so far recorded, the object read |
| `"record"` | the list of allocations | -1, the last array recorded nowhere |
| `"text"` | the text of an exception | the exception leaves the function |

The caller keeps to the API: it passes handles that exist or null, does not
write into octets a decoder still reads, does not use an object after its
context, and stops decoding a buffer when an error has left the position
inside an object.

## Runs

| run | question | properties | instance |
|---|---|---|---|
| `own` | who owns what, after any sequence of calls | `TypeOK` `OneOwner` `NoDangling` | 2 objects, 3 blocks, size at most 2, `ReuseTorn`, `NullClaims`, counts that wrap |
| `values` | are the objects independent values | `LengthsOrdered` `NoFault` `ImplementsOctetBuffers` `CopiesEqual` | 2 objects, 2 blocks, size at most 2, 2 octets |
| `serialization` | is every value read back | `TypeOK` `ReadsBack` `FreshCountsExact` | 70 values, buffers of 0, 2, 4 and 10 octets |
| `queue` | is a buffer a queue of objects | `TypeOK` `Aligned` `ImplementsObjectQueue` | 10 objects, 14 vectors, buffers of 0, 6, 60 and 195 octets |
| `loop` | does decoding end, and where | `TypeOK` `LoopAtOnce` `TerminatesUnlessWrapping` `Advances` | 7 beginnings, then up to 3 of 5 octets; 48 with a length close to 2^64, then up to 2 |
| `half_float` | are halves read exactly, floats narrowed to the right half | `TypeOK` `Exact` `RoundTrip` `Monotone` `Adjacent` `Nearest` | all 65536 halves; 2 signs, 175 exponents, 15 mantissas |
| `api_kinds` | does every kind of object cross the C API | `TypeOK` `ObjectsIntact` `EncodesAllOrNothing` `DecodesWhatIsThere` | 12 C objects, 1 in a buffer of 189 octets |
| `api_life` | who owns the arrays | `AllocationsOwned` `ObjectsIntact` | 2 decoders, 2 buffers, 3 blocks |
| `api_order` | what a failed call leaves behind | `NothingLeaks` `ObjectsIntact` `EncodesAllOrNothing` `DecodesWhatIsThere` | 2 objects in 17 octets, 2 `GS_Object`s, 3 blocks |
| `extended`, `small_floats`, `loop_wraps` | each a finding, below | one each | the smallest that shows it |

Why the bounds suffice:

- *Two objects* are all that a member function ever sees.  *Three blocks*: one
  for each object and one that the caller holds or that an assignment takes
  while the other two are in use.  *Size 2* distinguishes empty, partly full
  and full, and sizes that are equal from sizes that are not; the caller's octet
  strings are all those up to that length, in `values` those of two octets
  without a repetition, so that their order is seen.  A count one more than the size is refused; `own` adds the
  largest count of `SizeModulus`, for which the sum wraps and is let through, as
  offset, count to read and count to skip.  `values` has none that wraps, and
  no object used after its `operator=` threw; what comes of those is told under
  Findings.
- `Half` is 1 where the code has 4: two halves and their bounds are what
  matters.
- `serialization` has the values on both sides of 2^6, 2^7, 2^13, 2^14, 2^20,
  2^21, 2^31, 2^32 and their complements, as VarUint and as VarInt: every bound
  of every form.  Buffers of 2 and 4 octets cut each of the long forms after
  its first piece; losses of 1, 2 and 4 octets cut them within the second.
  A string is read into an empty one and into one that holds an octet.
- `queue`: 60 octets hold one object of most kinds and not two, 195 hold a
  Hand2 (whose length field has two octets) and little more, 6 hold a HeadIPD1
  exactly or an unknown object, and 0 measures.  `Cuts` take the data away within the
  last field, within the body, and back into the previous object.

- `loop`: the beginnings are a whole HeadIPD1, two unknown objects, one with an
  optional part and one whose length says more than there is, and an Object1
  and a Head1 with a length field of three octets where one is enough, so that
  the position goes back by more than what is left; every string of up to three octets
  follows, of those that are a tag, a length, or the first of a longer VarUint.
  The beginnings with a length of 2^64 - n are a HeadIPD1 after an object of three or
  six octets, an Object1, and a HeadIPD1 within a Head1; with the n there are,
  the position goes back to the first octet, to the object itself, into the one
  before, or would go before the first octet, which is refused.
- `half_float` has every half; of floats, every exponent but 1 to 81 (undefined
  shifts, in `small_floats`), and mantissas on both sides of the last bit kept
  (2^13), the bit that rounds (2^12), and the largest, where rounding carries.
- `api_kinds`: 189 octets hold a Hand2 exactly.  A mesh has no array, one, or
  all four; an object decoded is encoded again.  `api_life`: three blocks are
  one less than what two decoders want at once for a mesh with two arrays, so
  decoders are refused and take what the other has freed.  `api_order`: 17 octets
  hold two objects with arrays or one that leaves no room.

Symmetry is over objects, blocks, octets, decoders and slots, which the model never
compares but for equality; the views leave out `out`, which no action reads
(and no invariant of those runs: an action property sees every step, also to a
state that is known).  The view of `own` leaves out `content` too, which decides
nothing about pointers and lengths.  The runs of `DataBuffer`, `Serialization` and
`GameStream` say `CHECK_DEADLOCK FALSE`: a caller may stop calling, and after a
fault or an exception inside an object there is nothing to do; in `DecoderLoop`
the loop has ended.

The only fairness is in `DecoderLoop`: `WF_vars(Next)`, as the thread that has
called `Decode` runs the loop and waits for nothing.  `Terminates` says that it
ends, which is not so (finding `loop_wraps`); `TerminatesUnlessWrapping` that it
does unless the octets hold a VarUint less than 2^24 away from 2^64
(`Wrapping`).  Nowhere else does the library loop on its input without a bound, nor
wait; whether there is another call is the caller's choice.

## Findings

- `loop_wraps`: the octets not understood are skipped by a length from the data;
  if it is close to 2^64 the sum in `AdvanceReadLength` (`data_buffer.cpp:788`)
  wraps, the position goes back, and the loop over the buffer
  (`gs_decoder.cpp:79`) decodes the same objects again until memory runs out
  (which is not modelled: the vector always grows).
- `extended`: after the optional part of a Head1 or Object1, the octets not
  understood are not all skipped: the length field's are counted twice
  (`gs_decoder.cpp:253` and `:582`).
- `small_floats`: numbers with exponents 1 to 81 are narrowed by a shift of 32
  bits or more (`half_float.cpp:139`), which is undefined; with the count taken modulo
  32, numbers around 2^-46 become 2^-14 and more.

`PROJECT.json` quotes for each the text it contradicts.

Other differences between the code and what is said of it.  The models have
what the code does.  For the first four there is a configuration, which is not
among the runs, that asks for what is said and is violated:

- `DataBuffer_torn_fault.cfg` (`MCDataBuffer`): `operator=` sets `buffer_size`
  (`data_buffer.cpp:415`) before an allocation that deletes the old buffer and may
  throw.  The object left behind has a size and no memory, and using it
  dereferences null, where an exception is announced (`data_buffer.h:61-65`).
  Its ownership stays right (`own`, and proved).
- `DataBuffer_wrapped.cfg` (`MCDataBuffer`): the bounds checks of `GetValue`,
  `SetValue` and `ReadValue` (`data_buffer.cpp:892`, `:1185`, `:1740`; "Ensure
  the parameters will not result in an access violation", `:891`) add an offset
  and a length that may wrap round; such an access passes the check and goes
  outside the block.
- `Serialization_held.cfg` (`MCSerialization`): `Read` of a String or Blob
  returns the "Number of octets read from the buffer" (`gs_deserializer.cpp:591`,
  `:627`) and counts what the destination held before as well (`:608`, `:644`).
  `CountsOctetsRead` states what is said, `FreshCountsExact` what holds.
- `GsApi_record.cfg` (`MCGsApi`): arrays "will be freed when GSDecoderDestroy() is
  called" (`gs_api.cpp:638`), but one that is allocated when the list of them
  cannot grow is in no list (`gs_api_internal.cpp:1117`, `:1135`, `:1153`,
  `:1171`, `:1298`; `DecodeRecordFails`).
- The comment at `data_buffer.cpp:157` says that a null buffer with a size is
  not allowed; the test after it refuses the opposite (`NullClaims`).
- `gs_encoder.cpp:12-16` announces an exception for an invalid tag; an unknown object
  with tag 0 is encoded (`gs_encoder.cpp:579`), and decoding it throws.
- "-1 if there is an error" (`gs_api.cpp:644`), but the handlers copy a text,
  which may throw out of an `extern "C"` function (`gs_api.cpp:671`; `Escapes`).
- The text is that of "the last error" (`gs_api.cpp:358`), but SetBuffer returns
  -1 without touching it (`gs_api.cpp:168`, `:540`).
- A `GS_Object` "will be zero-initialized by this function" (`gs_api.cpp:635`),
  but only after decoding (`gs_api_internal.cpp:977`): a call that returns 0 or
  -1 may leave the object of an earlier one.

## Proofs

A theorem holds for every value of the constants that the named assumptions of
its modules allow; where it needs more, its ASSUME says so.

### DataBuffer

For every set of objects, blocks and values, every size bound and every
`Half`, under the assumptions named in `DataBuffer` (`HeapAssumption`,
`SizeAssumption`, `InputAssumption`), `DataBufferProofs` proves:

- `TypeCorrect`: `Spec => []TypeOK`.  The invariant is inductive as it stands; the
  work is in the sums, which must stay within `0..MaxSize` although they may
  wrap: `BeyondData` and `BeyondBuffer` are shown to mean what they should only
  for the operands that a check lets through.
- `OwnershipCorrect`: `Spec => []OneOwner`, and `PointersCorrect`: `Spec =>
  []NoDangling`.  Neither is inductive: that the block deleted by one object is
  not used by another needs to be known of dead objects and of the caller as
  well.  The inductive invariant is `OwnInv`: pointers are live
  (`PointersLive`), destroyed objects hold nothing (`DeadHoldNothing`), no two
  objects point at one block (`Unshared`), what an object will free the caller
  does not hold (`OwnedNotHeld`), every live block has somebody to free it (`NoLeak`),
  what the caller holds is live (`HeldLive`).  Two lemmas carry most of the
  proof: `QuietStep` for the steps that change no pointer, and
  `OneObjectStep` for those that change one object; a lemma per action then
  shows that it is such a step.  Both theorems hold for either value of
  `ReuseTorn` and `NullClaims`.

On top of these it proves:

- `LengthsCorrect`: `[]LengthsOrdered` if `NullClaims` is FALSE.  The property
  says nothing of an object in `torn`, but such an object may be copied, moved
  and assigned, and what it held passes on.  The inductive invariant `LengthInv`
  says of every object that its lengths are in order (`Fits`: the data within
  the buffer only where there is a buffer), and that one outside `torn` with no
  buffer has no size (`Backed`).  `ReuseTorn` and sums that wrap do no harm here.
- `NeverFaults`: `[]NoFault` if the caller is `Careful`, that is, both
  constants are FALSE and no offset or count in `Counts` makes a sum wrap
  (`NoSumWraps`).  Each is necessary: a null pointer with a size, and an object
  whose assignment threw (`DataBuffer_torn_fault.cfg`), have a size and no
  memory, and a sum that wraps passes the check (`DataBuffer_wrapped.cfg`).
  `Backing` gives every usable object the memory it says it has, and a
  lemma for each kind of access shows that the check before it is enough.
- `CopiesCorrect`: `CopiesEqual` (octets, lengths, size and read length, `CopyOf`),
  whatever the constants.  Only a copy that
  faulted is excepted, and the property says so.

Last comes `BuffersAreValues`: under `Bounded`, `Spec =>
ImplementsOctetBuffers`.  `Bounded` is `Careful` and single octets among the strings a caller writes
(what is stored through `operator[]` is one).  `value` maps the objects; one
lemma per member function shows which abstract operation its step is, or that
it is a stutter.  That no other value changes (`OthersKept`) is where `OwnInv` is
needed, and that a function throws exactly when the abstract one does is where
`LengthInv` is.  `TornExist` is the one fact the mapping needs beside those.

### VarCodec, Serialization

`VarCodecProofs` proves, for every 64-bit word and wherever in the data the
encoding stands:

- `VarUintRoundTrip`, `VarIntRoundTrip`: it is read back as it was, and the
  position is left after its last octet.
- `CutVarIsRefused`: an encoding without its last octets is never read as
  another value.
- `ShortestFormIsWritten`: for whatever octets a value can be read from, the
  Serializer writes that value with no more of them.  `WordsOfForms` says which
  words an encoding of each length can hold, and `UintOctets` and `IntOctets` that
  the tests the Serializer makes in turn find every such word a form as short.

They go through the five forms: `OneOctet` to `NineOctets` show that the first
octet announces how many follow (`Announced`), and `WholeIsRead` and
`CutIsRefused` that this is all a read needs to know.

`SerializationProofs` proves the three properties of the run `serialization`
for every set of inputs, sizes and losses: `TypeCorrect`, `ValuesReadBack`
(`ReadsBack`) and `CountsCorrect` (`FreshCountsExact`).  The one assumption is
`InputAssumption`: no fixed width is zero, as none is in the code, and a string is
shorter than `Huge`, the number that stands for all that do not fit 24 bits.
The inductive invariant `IInv` says how the data can be parsed: there is a
function `ends` such that the encoding of the i-th value written stands between
`ends[i - 1]` and `ends[i]`, what follows the last is a part of the encoding of
the torn value, and the position is `ends[taken]` (`Parses`).  `TypeOK` needs it
too: `Lose` takes octets away, and only because what is lost belongs to a value not read
does the position stay within the data.  `WholeIsGivenBack` and `CutIsNotGiven`
say what reading finds at a place where an encoding, or a part of one, stands;
`AcceptedOctets` what a write leaves when a piece does not fit; `ReadBounds`
bounds every read of whatever octets.

### Encoder, Decoder

`CodecProofs` is about the operators of both modules: for every object of the
types in `gs_types.h` (`IsObject`, in `Encoder`), and for any octets at all.

- `RoundTrip`: an object whose octets stand anywhere in the data is what Decode
  gives back, with the position and the count past all of them.  It covers the octets a
  newer peer appends to an object (`MayFollow`: not to a Head1 or Object1, for
  the reason in finding `extended`).
- `CutObjectThrows`: if the data ends before the object does, after any number
  of its octets, Decode throws, and has moved into what is there of it.
- `EncodeWhole`: Encode appends an object whole or leaves the buffer alone, and
  never throws.  The code sizes an object with one list of fields and writes it
  with another, and nothing at run time compares the two.
- `EncodedIsDecoded`: what Encode writes is what Decode reads.
- `DecodeSound` (`Sound`): on any octets, Decode of one object leaves the position
  within the data, and the count of a HeadIPD1 is exact.  Unless the octets are
  `Wrapping`, the position is further on and the count not negative.  For a Head1
  and an Object1 the position may go back when octets are skipped (finding
  `extended`), but it goes to where the length field begins plus the length,
  which is not zero.

An object is a tag, a length and a body; a body is fields, a field or a vector
is primitives.  At each level there is a lemma that says what the level's octets
are (`...Shape`), one that reading where they stand gives the value
(`...Given`), one that reading where they are cut off throws (`...Cut`), and
`DecodeSound` has one for any octets (`...Moves`).  `StandsAt` and `StandsCut`
say where a string stands in the data or begins before its end; a string made of
two is cut in the first or in the second (`CutBoth`).  `SizedAsWritten` compares the
Encoder's two lists of fields, `WrittenAsRead` and `TablesEqual` the Encoder's
and the Decoder's.  A Head1 holds an object, so its proofs go one level down
and use that a HeadIPD1 holds none.

`Moves` is what every read does: not backwards, within the data, and it counts
as it goes; reads one after the other do it too (`RunMoves`).  A recursive
function is only known to satisfy its equation if a function that does exists:
each of those here (a field, a vector, the fields of a kind, `FlattenSeq`,
`Decode`, `DecodeObjects`) has that shown by an induction of its own.  The
induction is over sets of numbers, upwards (`Reaches`) or from the end of the
data down (`DownFrom`), from `WFMin`.  That a Head1 decodes an object further on
is why `Decode` goes down.

### GameStream

For any sizes, vectors of objects, peers, losses and bound, under
`StreamAssumption`: what is encoded, and what a peer sends, is an object of a
type in `gs_types.h`, and the length of what a peer sends is a number the
protocol can write.  `GameStreamProofs` proves

- `TypeCorrect`: `Spec => []TypeOK`.  That the read length stays within the data is
  `DecodeSound` for every Decode; a `Lose` comes before any read, or after Rewind.
  `TypeInv` adds that what is in the data are octets, and in the queue objects
  with the octets they take.
- `ReaderAligned`: `Spec => []Aligned` if no peer extends a Head1 or Object1
  (`NoneExtended`).  The run `extended` shows that the condition is needed.
- `BufferIsQueue`: `Spec => ImplementsObjectQueue`, under the same condition.
  The octets are gone from the abstract side: what stays is which objects are
  whole, how many octets each takes, and when a call throws.

`Aligned` is not inductive: it must be known that the data are, one after the
other, the octets of the objects in the queue (`InPlace`), and then nothing, or
the first octets of one more (`Remains`).  `StreamInv` is `TypeInv` with this
(`Contents`) and with where the reader is (`Reader`).  `AppendedStream` covers what
appends, of Encode and of a peer; `EncodeSteps` says what a vector leaves when an
object does not fit; `Truncated` that a prefix of such data is such data,
whatever was cut off; `NextRead`, `NoneRead` and `CutRead`, from `RoundTrip` and
`CutObjectThrows`, what is decoded where an object begins, where there is none,
and where the remains of one are; `RestGiven` puts them together for
`DecodeObjects`.

One lemma per action then shows which step of `ObjectQueue` it is
(`...Refines`).  A peer's object must not take fewer octets than the object alone:
`NumberWidth` has the octets of every number, so a greater length never has fewer
(`ExtendedLength`).  The queue is lost exactly if it was damaged: Decode moves into
what was cut off before it throws (`DamagedRead`, from `CutRead`).

### DecoderLoop

`DecoderLoopProofs` is about any octets at all: `Inputs` is any set of
sequences of octets.

- `TypeCorrect`, `IterationsAdvance` (`Advances`), `LoopCorrect`
  (`LoopAtOnce`): the safety properties of the run `loop`.  The second is about
  octets that are not `Wrapping`, as it says; the others hold of any.

`IInv` adds to them that the loop is in step with the iterations that
`DecodeObjects` is made of (`Steps`, `InStepWith`), or has come further and is
where they have been (`Beyond`).  That such a loop neither returns nor throws is
the point of the proof: before and after as many objects as there are octets
there is one position more than there are places with data left, so two of them are the same
(`PlaceTwice`, from the pigeonhole theorem of the library), and from each of
these positions Decode goes to one of them (`GoesRound`).

### HalfFloat

`HalfFloatProofs` proves every property of the run `half_float` for every half
and every set of floats: `TypeCorrect`, `WideningExact` (`Exact`),
`RoundTripCorrect`, `NarrowingNearest`, and, if every shift is defined
(`ShiftsDefined`), `NarrowingAdjacent` and `NarrowingMonotone`.  The condition
excludes the exponents of finding `small_floats` and nothing else.  The rank of a
float is linear in its mantissa for each exponent (a binade), which reduces each
property to what the shift and the rounding do within one; that a carry out of
the mantissa lands on the next binade's first half is the same fact at both
ends.  `RoundTrip` needs to know that what is written is what was read
(`Carried`).

### GsApi

`GsApiProofs` proves the five safety properties of the three runs of the C API
and its type invariant for every set of handles, buffers, blocks and objects,
whatever allocations fail, under the assumption named in `GsApi`
(`ApiAssumption`): what a caller encodes is a C structure of a type in
`gs_api.h` (`IsGSObject`) or has type 0, and a null pointer is neither a handle
nor a buffer nor a block.

- `AllocationsCorrect`: `Spec => []AllocationsOwned`.
- `LeaksOnlyUnrecorded`: `Spec => []NothingLeaks` if `"record"` is not in
  `Failures`; `DecodeRecordFails` is why the condition is needed
  (`GsApi_record.cfg`).
- `ContextsTyped`: `Spec => []TypeOK`.
- `DecodedStayIntact`: `Spec => []ObjectsIntact`.
- `EncodesWholeOrNothing`: `Spec => EncodesAllOrNothing`.
- `DecodesEachObject`: `Spec => DecodesWhatIsThere`.

The first two are about arrays alone, and what objects decode to plays no part.
Alone, `AllocationsOwned` does not say that a context without a handle has no
array, and a new context would then inherit some: the inductive invariant
`Owned` adds `Contexts`.  Every action either touches no array (`NoArrays`),
allocates blocks that were free for one context (`Allocates`), or frees those
of one context (`Frees`); a lemma for each of the three shows what it preserves, and a
lemma per function shows which of them it is.

The other four are about octets.  That an object stays intact is not inductive:
what a decoder will give back is decided when an encoder writes, and between
the two lie other calls on the same raw buffer.  The inductive invariant `Intact` is

- `Owned`, for what was decoded must not lie in another context's arrays;
- `Buffered`: a raw buffer holds, one after the other, the octets of the objects
  its history `written` names (`Chronicle`), and no more than its capacity;
- `Sinks`: an encoder's length is where one of these objects ends, and no other
  encoder writes to its buffer, so that what it appends follows an object;
- `Sources`: a decoder reads within the octets it was given;
- `Kept`: an object of the caller whose context lives points to arrays of that
  context only and, pointers followed, tells what was encoded.

`ObjectBack` says that a C structure copied into an object and back tells the
same; it has a lemma for each kind of object, and one for each structure inside.
A mesh is the long one: which of its four arrays there are decides which
block each pointer gets, so `ArrayNames` puts the names together piece by piece.
`SameElsewhere` says that what a structure tells does not depend on memory that
it does not point to: an array that is allocated or freed elsewhere changes nothing
(`SpeaksBack`).  From `RoundTrip` and `CutObjectThrows` of `CodecProofs`,
`NextDecoded` and `NextExpected` say what is decoded where an entry of the
chronicle begins, where none does, and where one is cut off; `EncodeWhole` is
why a chronicle grows by a whole entry or not at all (`ChronicleGrows`,
`AppendedIntact`); `DecodeSound` keeps the position within the data even when
decoding stops inside an object.  `EncodeIntact`, `DecodeIntact` and
`DestroyStep` put these together, and one case per function does the
rest (`IntactStep`).

### Model-checked only

Every invariant and every action property that a passing run checks is stated by
a theorem, and so are both refinements.  What stays with TLC:

- `TerminatesUnlessWrapping` of `DecoderLoop`: liveness and ENABLED are out of the
  prover's reach.  What it rests on, `Advances` within the bounds of `TypeOK`, is
  proved.
- The three findings: a counterexample on a small instance is all that they need.

The induction theorems of the library take an operator as a parameter, which no
prover here can instantiate, so each recursive function needs an induction of
its own (as in `CodecProofs`).

## Not modelled

- The values of fields beyond what the copies tell apart: an octet stands for
  a float; `HalfFloat` has what narrowing does to one.
- Pointers returned by `GetEncoderError` and `GetDecoderError`: the models hand
  out texts; that the next call changes what they point to is a hazard in
  `PROJECT.json`.
- Misuse of the C API: a handle that was destroyed, a null `object`, a raw
  buffer that is freed or overwritten while a context has it.
- `operator<<` of `DataBuffer` and `OctetString`: printing; `OctetString` is a
  vector and nothing else.
- `operator[]` returns a reference; what is modelled is storing through it at
  once.  A reference kept beyond the next call on the object is the caller's.
- Memory that a caller frees while it is lent: a misuse the library cannot see.
- The depth of the call stack when a Head1 is nested in a Head1.

## Plan

1. *Done*: every component with state or an algorithm: `DataBuffer` with
   `OctetBuffers`; `VarCodec`, `Serialization`; `Encoder`, `Decoder`,
   `GameStream` with `ObjectQueue`; `DecoderLoop`; `HalfFloat`; `GsApiInternal`,
   `GsApi`; and a theorem for every safety property of every passing run.
2. A run and a theorem on what a C caller can still decode of a buffer after -1,
   which the caller of `GsApi` does not attempt.
