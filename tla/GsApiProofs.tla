----------------------------- MODULE GsApiProofs -----------------------------
(***************************************************************************)
(* The C API, for all handles, raw buffers, blocks, objects and failures.  *)
(* First the arrays: those that a context has recorded are allocated and   *)
(* its own, and if the list of them can always grow, all that are          *)
(* allocated are recorded.  Then the objects: what the library makes of a  *)
(* GS_Object, with the octets of CodecProofs, gives back one that tells    *)
(* the same, so that a raw buffer holds one object after the other, each   *)
(* is what is decoded from its place, and what was decoded stays so.       *)
(***************************************************************************)
EXTENDS GsApi, CodecProofs

\* A decoder context is a record of its fields, and a closed one has no array.
Context(c) ==
    /\ DOMAIN c = {"open", "buffer", "length", "read", "error", "allocations"}
    /\ c.allocations \subseteq Blocks
    /\ ~c.open => c.allocations = {}

Contexts ==
    /\ decoder = [d \in Decoders |-> decoder[d]]
    /\ \A d \in Decoders : Context(decoder[d])

\* The inductive invariant.
Owned == Contexts /\ AllocationsOwned

-----------------------------------------------------------------------------
(* What each operation does to the arrays.                                 *)

\* No array is allocated, freed, recorded or forgotten.
NoArrays ==
    /\ heap' = heap
    /\ Contexts'
    /\ \A d \in Decoders : decoder'[d].allocations = decoder[d].allocations

\* A context allocates blocks that were free and records some of them, or all.
Allocates(d, taken, recorded) ==
    /\ Contexts'
    /\ recorded \subseteq taken
    /\ \A p \in Blocks : heap'[p].live <=> p \in taken \/ heap[p].live
    /\ taken \subseteq {p \in Blocks : ~heap[p].live}
    /\ \A c \in Decoders : decoder'[c].allocations =
            IF c = d THEN decoder[c].allocations \cup recorded ELSE decoder[c].allocations

\* A context frees its arrays.
Frees(d) ==
    /\ Contexts'
    /\ \A p \in Blocks : heap'[p].live <=> heap[p].live /\ p \notin decoder[d].allocations
    /\ \A c \in Decoders :
          decoder'[c].allocations = IF c = d THEN {} ELSE decoder[c].allocations

\* Nothing changes: what was true of the arrays still is.
LEMMA NoArraysOwned ==
    ASSUME Owned, NoArrays
    PROVE  Owned' /\ (NothingLeaks => NothingLeaks')
  BY DEF Owned, NoArrays, AllocationsOwned, NothingLeaks

\* Blocks that were free belong to no context, so they can have a new owner.
LEMMA AllocatesOwned ==
    ASSUME Owned, NEW d \in Decoders, NEW taken, NEW recorded, Allocates(d, taken, recorded)
    PROVE  Owned' /\ (NothingLeaks /\ recorded = taken => NothingLeaks')
<1>1. \A c \in Decoders : decoder[c].allocations \subseteq {p \in Blocks : heap[p].live}
  BY DEF Owned, Contexts, Context, AllocationsOwned
<1>2. \A c \in Decoders : decoder[c].allocations \cap recorded = {}
  BY <1>1 DEF Allocates
<1>3. AllocationsOwned'
  <2>1. \A c \in Decoders : \A p \in decoder'[c].allocations : heap'[p].live
    BY <1>1 DEF Allocates
  <2>2. \A b, c \in Decoders : b # c => decoder'[b].allocations \cap decoder'[c].allocations = {}
    BY <1>2 DEF Allocates, Owned, AllocationsOwned
  <2> QED BY <2>1, <2>2 DEF AllocationsOwned
<1>4. NothingLeaks /\ recorded = taken => NothingLeaks'
  <2> SUFFICES ASSUME NothingLeaks, recorded = taken, NEW p \in Blocks, heap'[p].live
               PROVE  \E c \in Decoders : p \in decoder'[c].allocations
    BY DEF NothingLeaks
  <2>1. CASE p \in taken
    BY <2>1 DEF Allocates
  <2>2. CASE heap[p].live
    BY <2>2 DEF NothingLeaks, Allocates
  <2> QED BY <2>1, <2>2 DEF Allocates
<1> QED BY <1>3, <1>4 DEF Owned, Allocates

\* The arrays of a context are no other's, so freeing them frees none of theirs.
LEMMA FreesOwned ==
    ASSUME Owned, NEW d \in Decoders, Frees(d)
    PROVE  Owned' /\ (NothingLeaks => NothingLeaks')
<1>1. AllocationsOwned'
  <2>1. ASSUME NEW c \in Decoders, NEW p \in decoder'[c].allocations
        PROVE  heap'[p].live
    <3>1. c # d /\ p \in decoder[c].allocations
      BY <2>1 DEF Frees
    <3>2. p \in Blocks /\ heap[p].live
      BY <3>1 DEF Owned, Contexts, Context, AllocationsOwned
    <3>3. p \notin decoder[d].allocations
      BY <3>1 DEF Owned, AllocationsOwned
    <3> QED BY <3>2, <3>3 DEF Frees
  <2>2. \A b, c \in Decoders : b # c => decoder'[b].allocations \cap decoder'[c].allocations = {}
    BY DEF Frees, Owned, AllocationsOwned
  <2> QED BY <2>1, <2>2 DEF AllocationsOwned
<1>2. NothingLeaks => NothingLeaks'
  <2> SUFFICES ASSUME NothingLeaks, NEW p \in Blocks, heap'[p].live
               PROVE  \E c \in Decoders : p \in decoder'[c].allocations
    BY DEF NothingLeaks
  <2>1. heap[p].live /\ p \notin decoder[d].allocations
    BY DEF Frees
  <2>2. PICK c \in Decoders : p \in decoder[c].allocations
    BY <2>1 DEF NothingLeaks
  <2> QED BY <2>1, <2>2 DEF Frees
<1> QED BY <1>1, <1>2 DEF Owned, Frees

-----------------------------------------------------------------------------
(* Which of the three each operation is.                                   *)

\* The operations on encoder contexts leave the decoder contexts alone.
LEMMA EncoderStepArrays ==
    ASSUME Contexts, NEW e \in Encoders, EncoderStep(e)
    PROVE  NoArrays
<1>1. heap' = heap /\ decoder' = decoder
  BY DEF EncoderStep, GSEncoderInit, GSEncoderSetBuffer, GSEncoderResetBuffer, GSEncodeObject,
         GSEncoderDataLength, GetEncoderError, GSEncoderDestroy
<1> QED BY <1>1 DEF NoArrays, Contexts

\* A context is opened without arrays.
LEMMA InitArrays ==
    ASSUME Contexts, NEW d \in Decoders, NEW b, NEW n, GSDecoderInit(d, b, n)
    PROVE  NoArrays
<1>1. CASE UNCHANGED decoder
  BY <1>1 DEF GSDecoderInit, NoArrays, Contexts
<1>2. CASE decoder' = [decoder EXCEPT ![d] = [open |-> TRUE, buffer |-> b, length |-> n,
                                              read |-> 0, error |-> "", allocations |-> {}]]
  <2>1. ~decoder[d].open /\ heap' = heap
    BY DEF GSDecoderInit
  <2>2. decoder[d].allocations = {}
    BY <2>1 DEF Contexts, Context
  <2> QED BY <1>2, <2>1, <2>2 DEF NoArrays, Contexts, Context
<1> QED BY <1>1, <1>2 DEF GSDecoderInit

\* A context with other octets to read, or another position or text, has the
\* arrays it had.
LEMMA ContextArrays ==
    ASSUME Contexts, NEW d \in Decoders, NEW c, decoder' = [decoder EXCEPT ![d] = c],
           Context(c), c.allocations = decoder[d].allocations, heap' = heap
    PROVE  NoArrays
  BY DEF NoArrays, Contexts

\* Giving a context other octets keeps it one, with the arrays it has.
LEMMA ReadingContext ==
    ASSUME NEW c, Context(c), c.open, NEW b, NEW n
    PROVE  Context(Reading(c, b, n)) /\ Reading(c, b, n).allocations = c.allocations
  BY DEF Context, Reading

\* Another raw buffer changes no array.
LEMMA SetBufferArrays ==
    ASSUME Contexts, NEW d \in Decoders, NEW b, NEW n, GSDecoderSetBuffer(d, b, n)
    PROVE  NoArrays
<1>1. heap' = heap /\ decoder[d].open /\ Context(decoder[d])
  BY DEF GSDecoderSetBuffer, Contexts
<1>2. CASE UNCHANGED decoder
  BY <1>1, <1>2 DEF NoArrays, Contexts
<1>3. CASE decoder' = [decoder EXCEPT ![d] = Reading(decoder[d], b, n)]
  BY <1>1, <1>3, ReadingContext, ContextArrays
<1> QED BY <1>2, <1>3 DEF GSDecoderSetBuffer

\* Nor does another length.
LEMMA ResetBufferArrays ==
    ASSUME Contexts, NEW d \in Decoders, NEW n, GSDecoderResetBuffer(d, n)
    PROVE  NoArrays
<1>1. heap' = heap /\ decoder[d].open /\ Context(decoder[d])
  BY DEF GSDecoderResetBuffer, Contexts
<1>2. CASE decoder' = [decoder EXCEPT ![d].error = ""]
  <2> DEFINE c == [decoder[d] EXCEPT !.error = ""]
  <2>1. decoder' = [decoder EXCEPT ![d] = c]
    BY <1>2
  <2>2. Context(c) /\ c.allocations = decoder[d].allocations
    BY <1>1 DEF Context
  <2> HIDE DEF c
  <2> QED BY <1>1, <2>1, <2>2, ContextArrays
<1>3. CASE decoder' = [decoder EXCEPT ![d] = Reading(decoder[d], decoder[d].buffer, n)]
  BY <1>1, <1>3, ReadingContext, ContextArrays
<1> QED BY <1>2, <1>3 DEF GSDecoderResetBuffer

\* Blocks that were free are allocated, and the first m of them recorded.
LEMMA DeserializedArrays ==
    ASSUME Contexts, NEW d \in Decoders, decoder[d].open, NEW s, NEW r, NEW n, NEW m,
           NEW owner, NEW told, 1..m \subseteq 1..n, Deserialized(d, s, r, n, m, owner, told)
    PROVE  \E taken, recorded : /\ Allocates(d, taken, recorded)
                                /\ m = n => recorded = taken
<1>1. PICK blocks \in [1..n -> Blocks] :
        /\ Fresh(blocks)
        /\ heap' = Populated(blocks, ArraysOf(r.value))
        /\ decoder' = [decoder EXCEPT
              ![d].read = r.pos,
              ![d].error = IF owner = d THEN "" ELSE "std::bad_alloc",
              ![d].allocations = @ \cup {blocks[i] : i \in 1..m}]
  BY DEF Deserialized
<1>a. Fresh(blocks)
  BY <1>1
<1>b. heap' = Populated(blocks, ArraysOf(r.value))
  BY <1>1
<1> DEFINE taken    == {blocks[i] : i \in 1..n}
           recorded == {blocks[i] : i \in 1..m}
           text     == IF owner = d THEN "" ELSE "std::bad_alloc"
           c        == [decoder[d] EXCEPT !.read = r.pos, !.error = text,
                                          !.allocations = @ \cup recorded]
<1>2. taken \subseteq {p \in Blocks : ~heap[p].live} /\ recorded \subseteq taken
  BY <1>a DEF Fresh
<1>3. \A p \in Blocks : heap'[p].live <=> p \in taken \/ heap[p].live
  BY <1>b DEF Populated
<1>4. Context(decoder[d])
  BY DEF Contexts
<1>5. Context(c) /\ c.allocations = decoder[d].allocations \cup recorded
  BY <1>2, <1>4 DEF Context
<1>6. decoder' = [decoder EXCEPT ![d] = c]
  BY <1>1
<1> HIDE DEF c, taken, recorded
<1>7. Contexts'
  BY <1>5, <1>6 DEF Contexts
<1>8. \A b \in Decoders : decoder'[b].allocations =
            IF b = d THEN decoder[b].allocations \cup recorded ELSE decoder[b].allocations
  BY <1>5, <1>6 DEF Contexts
<1>9. Allocates(d, taken, recorded)
  BY <1>2, <1>3, <1>7, <1>8 DEF Allocates
<1>10. m = n => recorded = taken
  BY DEF taken, recorded
<1> QED BY <1>9, <1>10

\* Decoding: nothing, or an object with all, some or one too few of its arrays
\* recorded.
LEMMA DecodeArrays ==
    ASSUME Contexts, NEW d \in Decoders, NEW s, GSDecodeObject(d, s)
    PROVE  \/ NoArrays
           \/ \E taken, recorded : /\ Allocates(d, taken, recorded)
                                   /\ "record" \notin Failures => recorded = taken
<1> DEFINE Goal == \E taken, recorded : /\ Allocates(d, taken, recorded)
                                        /\ "record" \notin Failures => recorded = taken
<1>1. decoder[d].open /\ Context(decoder[d])
  BY DEF GSDecodeObject, Contexts
<1>2. ASSUME NEW result, NEW read, NEW text, DecodesNothing(d, result, read, text), heap' = heap
      PROVE  NoArrays
  <2> DEFINE c == [decoder[d] EXCEPT !.read = read, !.error = text]
  <2>1. decoder' = [decoder EXCEPT ![d] = c]
    BY <1>2 DEF DecodesNothing
  <2>2. Context(c) /\ c.allocations = decoder[d].allocations
    BY <1>1 DEF Context
  <2> HIDE DEF c
  <2> QED BY <1>2, <2>1, <2>2, ContextArrays
<1>3. CASE DecodeEnd(d)
  BY <1>2, <1>3 DEF DecodeEnd
<1>4. CASE DecodeNext(d, s)
  <2>1. PICK r : \/ DecodeThrows(d, r)
                 \/ DecodeNoMemory(d, r)
                 \/ DecodeValue(d, s, r)
                 \/ DecodeArrayFails(d, s, r)
                 \/ DecodeRecordFails(d, s, r)
    BY <1>4 DEF DecodeNext
  <2>2. CASE DecodeThrows(d, r)
    <3>1. heap' = heap
      BY <2>2 DEF DecodeThrows
    <3>2. CASE DecodesNothing(d, -1, r.pos, "Decoder")
      BY <1>2, <3>1, <3>2
    <3>3. CASE decoder' = [decoder EXCEPT ![d].read = r.pos, ![d].error = ""]
      <4> DEFINE c == [decoder[d] EXCEPT !.read = r.pos, !.error = ""]
      <4>1. decoder' = [decoder EXCEPT ![d] = c]
        BY <3>3
      <4>2. Context(c) /\ c.allocations = decoder[d].allocations
        BY <1>1 DEF Context
      <4> HIDE DEF c
      <4> QED BY <3>1, <4>1, <4>2, ContextArrays
    <3> QED BY <2>2, <3>2, <3>3 DEF DecodeThrows
  <2>3. CASE DecodeNoMemory(d, r)
    BY <1>2, <2>3 DEF DecodeNoMemory
  <2>4. CASE DecodeValue(d, s, r)
    <3>1. PICK n : Deserialized(d, s, r, n, n, d, Expected(d))
      BY <2>4 DEF DecodeValue
    <3> QED BY <1>1, <3>1, DeserializedArrays
  <2>5. CASE DecodeArrayFails(d, s, r)
    <3>1. PICK n : Deserialized(d, s, r, n - 1, n - 1, NULL, NoObject)
      BY <2>5 DEF DecodeArrayFails
    <3> QED BY <1>1, <3>1, DeserializedArrays
  <2>6. CASE DecodeRecordFails(d, s, r)
    <3>1. PICK n \in 1..Len(ArraysOf(r.value)) : Deserialized(d, s, r, n, n - 1, NULL, NoObject)
      BY <2>6 DEF DecodeRecordFails
    <3>2. n \in Int
      BY <3>1
    <3>3. 1..(n - 1) \subseteq 1..n
      BY <3>2
    <3>4. "record" \in Failures
      BY <2>6 DEF DecodeRecordFails
    <3> QED BY <1>1, <3>1, <3>3, <3>4, DeserializedArrays
  <2> QED BY <2>1, <2>2, <2>3, <2>4, <2>5, <2>6
<1> QED BY <1>3, <1>4 DEF GSDecodeObject

\* A context that is destroyed frees what it has recorded.
LEMMA DestroyArrays ==
    ASSUME Contexts, NEW d \in Decoders, GSDecoderDestroy(d)
    PROVE  Frees(d)
<1>1. decoder' = [decoder EXCEPT ![d] = ClosedDecoder] /\ heap' = Freed(decoder[d])
  BY DEF GSDecoderDestroy
<1>2. Context(ClosedDecoder) /\ ClosedDecoder.allocations = {}
  BY DEF Context, ClosedDecoder
<1>3. Contexts'
  BY <1>1, <1>2 DEF Contexts
<1>4. \A c \in Decoders :
          decoder'[c].allocations = IF c = d THEN {} ELSE decoder[c].allocations
  BY <1>1, <1>2 DEF Contexts
<1>5. \A p \in Blocks : heap'[p].live <=> heap[p].live /\ p \notin decoder[d].allocations
  BY <1>1 DEF Freed, Free
<1> QED BY <1>3, <1>4, <1>5 DEF Frees

-----------------------------------------------------------------------------
(* The theorems about the arrays.                                          *)

\* No context has an array at first.
LEMMA InitOwned == Init => Owned /\ NothingLeaks
<1> SUFFICES ASSUME Init PROVE Owned /\ NothingLeaks
  OBVIOUS
<1>1. decoder = [d \in Decoders |-> ClosedDecoder]
  BY DEF Init
<1>2. heap = [p \in Blocks |-> Free]
  BY DEF Init
<1>3. Context(ClosedDecoder) /\ ClosedDecoder.allocations = {}
  BY DEF Context, ClosedDecoder
<1>4. \A p \in Blocks : ~heap[p].live
  BY <1>2 DEF Free
<1> QED BY <1>1, <1>3, <1>4 DEF Owned, Contexts, AllocationsOwned, NothingLeaks

\* Each step keeps the arrays owned, and recorded if the list of them grows.
LEMMA StepOwned ==
    ASSUME Owned, [Next]_vars
    PROVE  Owned' /\ (NothingLeaks /\ "record" \notin Failures => NothingLeaks')
<1> DEFINE Goal == Owned' /\ (NothingLeaks /\ "record" \notin Failures => NothingLeaks')
<1>1. Contexts
  BY DEF Owned
<1>2. ASSUME NoArrays PROVE Goal
  BY <1>2, NoArraysOwned
<1>3. ASSUME NEW e \in Encoders, EncoderStep(e) PROVE Goal
  BY <1>1, <1>2, <1>3, EncoderStepArrays
<1>4. ASSUME NEW d \in Decoders, DecoderStep(d) PROVE Goal
  <2>1. ASSUME NEW b, NEW n, GSDecoderInit(d, b, n) PROVE Goal
    BY <1>1, <1>2, <2>1, InitArrays
  <2>2. ASSUME NEW b, NEW n, GSDecoderSetBuffer(d, b, n) PROVE Goal
    BY <1>1, <1>2, <2>2, SetBufferArrays
  <2>3. ASSUME NEW n, GSDecoderResetBuffer(d, n) PROVE Goal
    BY <1>1, <1>2, <2>3, ResetBufferArrays
  <2>4. ASSUME NEW s, GSDecodeObject(d, s) PROVE Goal
    <3>1. CASE NoArrays
      BY <1>2, <3>1
    <3>2. ASSUME NEW taken, NEW recorded, Allocates(d, taken, recorded),
                 "record" \notin Failures => recorded = taken
          PROVE  Goal
      BY <3>2, AllocatesOwned
    <3> QED BY <1>1, <2>4, <3>1, <3>2, DecodeArrays
  <2>5. ASSUME GetDecoderError(d) PROVE Goal
    <3>1. NoArrays
      BY <1>1, <2>5 DEF GetDecoderError, NoArrays, Contexts
    <3> QED BY <1>2, <3>1
  <2>6. ASSUME GSDecoderDestroy(d) PROVE Goal
    BY <1>1, <2>6, DestroyArrays, FreesOwned
  <2> HIDE DEF Goal
  <2> QED BY <1>4, <2>1, <2>2, <2>3, <2>4, <2>5, <2>6 DEF DecoderStep
<1>5. ASSUME OnNull \/ UNCHANGED vars PROVE Goal
  <2>1. NoArrays
    BY <1>1, <1>5 DEF OnNull, vars, NoArrays, Contexts
  <2> QED BY <1>2, <2>1
<1> HIDE DEF Goal
<1>6. Goal
  BY <1>3, <1>4, <1>5 DEF Next
<1> QED BY <1>6 DEF Goal

\* For all handles, buffers, objects and failures: an array that a context has
\* recorded is allocated and no other context's, so that it is freed once.
THEOREM AllocationsCorrect == Spec => []AllocationsOwned
<1>1. Init => Owned
  BY InitOwned
<1>2. Owned /\ [Next]_vars => Owned'
  BY StepOwned
<1>3. Owned => AllocationsOwned
  BY DEF Owned
<1> QED BY <1>1, <1>2, <1>3, PTL DEF Spec

\* If the list of a context's arrays can always grow, no array is ever left
\* without a context that frees it, whatever other allocation fails.
THEOREM LeaksOnlyUnrecorded ==
    ASSUME "record" \notin Failures
    PROVE  Spec => []NothingLeaks
<1>1. Init => Owned /\ NothingLeaks
  BY InitOwned
<1>2. (Owned /\ NothingLeaks) /\ [Next]_vars => (Owned /\ NothingLeaks)'
  BY StepOwned
<1> QED BY <1>1, <1>2, PTL DEF Spec
-----------------------------------------------------------------------------
(* The structures of the C API and the fields they are copied to.          *)

\* A table of n primitives, none of which is a VarUint.
Wide(t, n) == t \in Seq({1, 2, 4}) /\ Len(t) = n

\* The tables of copies: none, and one more.
LEMMA TimesNext ==
    ASSUME NEW s \in Seq(Nat), NEW n \in Nat
    PROVE  Times(0, s) = <<>> /\ Times(n + 1, s) = Times(n, s) \o s
<1> DEFINE Q == Seq(Nat)  a == [i \in 1..n |-> s]  b == <<s>>  c == [i \in 1..(n + 1) |-> s]
<1>1. a \in Seq(Q) /\ Len(a) = n /\ b \in Seq(Q) /\ Len(b) = 1 /\ c \in Seq(Q) /\ Len(c) = n + 1
  BY SeqDef
<1>2. c = a \o b
  <2>1. \A i \in 1..(n + 1) : c[i] = (a \o b)[i]
    <3> TAKE i \in 1..(n + 1)
    <3>1. c[i] = s /\ b[1] = s
      OBVIOUS
    <3>2. CASE i <= n
      BY <1>1, <3>1, <3>2
    <3>3. CASE i = n + 1
      BY <1>1, <3>1, <3>3
    <3> QED BY <3>2, <3>3
  <2>2. a \o b \in Seq(Q) /\ Len(a \o b) = n + 1
    BY <1>1, ConcatProperties
  <2> HIDE DEF a, b, c
  <2> QED BY <1>1, <2>1, <2>2, SeqEqual
<1> HIDE DEF a, b, c
<1>3. FlattenSeq(c) = FlattenSeq(a) \o FlattenSeq(b)
  BY <1>1, <1>2, FlattenConcat
<1>4. FlattenSeq(b) = s
  BY FlattenOne DEF b
<1>5. Times(0, s) = <<>>
  <2> DEFINE e == [i \in 1..0 |-> s]
  <2>1. e = <<>>
    OBVIOUS
  <2>2. Times(0, s) = FlattenSeq(e)
    BY DEF Times
  <2> HIDE DEF e
  <2>3. FlattenSeq(<<>>) = <<>>
    BY FlattenNone
  <2> QED BY <2>1, <2>2, <2>3
<1> QED BY <1>3, <1>4, <1>5 DEF Times, a, c

\* One table after another.
LEMMA WideBoth ==
    ASSUME NEW t, NEW m \in Nat, Wide(t, m), NEW s, NEW n \in Nat, Wide(s, n)
    PROVE  Wide(t \o s, m + n)
<1>1. t \o s \in Seq({1, 2, 4}) /\ Len(t \o s) = Len(t) + Len(s)
  BY ConcatProperties DEF Wide
<1> QED BY <1>1 DEF Wide

\* Some copies of a table.
LEMMA WideTimes ==
    ASSUME NEW s, NEW n \in Nat, Wide(s, n)
    PROVE  /\ Wide(Times(3, s), n + n + n) /\ Wide(Times(4, s), n + n + n + n)
           /\ Wide(Times(5, s), n + n + n + n + n) /\ Wide(Times(6, s), n + n + n + n + n + n)
<1>1. s \in Seq(Nat)
  <2>1. {1, 2, 4} \subseteq Nat
    OBVIOUS
  <2> QED BY <2>1, SeqMonotonic DEF Wide
<1>2. Wide(Times(0, s), 0)
  <2>1. Times(0, s) = <<>>
    BY <1>1, TimesNext
  <2>2. Wide(<<>>, 0)
    BY DEF Wide
  <2> QED BY <2>1, <2>2
<1>3. ASSUME NEW k \in Nat, NEW m \in Nat, Wide(Times(k, s), m)
      PROVE  Wide(Times(k + 1, s), m + n)
  BY <1>1, <1>3, TimesNext, WideBoth
<1>a. Wide(Times(0 + 1, s), 0 + n)
  BY <1>2, <1>3
<1>4. Wide(Times(1, s), n)
  BY <1>a
<1>b. Wide(Times(1 + 1, s), n + n)
  BY <1>4, <1>3
<1>5. Wide(Times(2, s), n + n)
  BY <1>b
<1>c. Wide(Times(2 + 1, s), n + n + n)
  BY <1>5, <1>3
<1>6. Wide(Times(3, s), n + n + n)
  BY <1>c
<1>d. Wide(Times(3 + 1, s), n + n + n + n)
  BY <1>6, <1>3
<1>7. Wide(Times(4, s), n + n + n + n)
  BY <1>d
<1>e. Wide(Times(4 + 1, s), n + n + n + n + n)
  BY <1>7, <1>3
<1>8. Wide(Times(5, s), n + n + n + n + n)
  BY <1>e
<1>f. Wide(Times(5 + 1, s), n + n + n + n + n + n)
  BY <1>8, <1>3
<1>9. Wide(Times(6, s), n + n + n + n + n + n)
  BY <1>f
<1> QED BY <1>6, <1>7, <1>8, <1>9

\* The types, and how many primitives each has.
LEMMA TypesWide ==
    /\ Wide(Primitives["Time1"], 1) /\ Wide(Primitives["Boolean"], 1)
    /\ Wide(Primitives["Float16"], 1)
    /\ Wide(Primitives["Loc1"], 3) /\ Wide(Primitives["Loc2"], 6) /\ Wide(Primitives["Norm1"], 3)
    /\ Wide(Primitives["Rot1"], 3) /\ Wide(Primitives["Rot2"], 6)
    /\ Wide(Primitives["Transform1"], 3) /\ Wide(Primitives["Thumb"], 12)
    /\ Wide(Primitives["Finger"], 15)
<1>1. Wide(<<1>>, 1) /\ Wide(<<2>>, 1) /\ Wide(<<4>>, 1)
  BY DEF Wide
<1> DEFINE two == <<2>>  four == <<4>>
<1> HIDE DEF two, four
<1>2. Wide(Times(3, two), 1 + 1 + 1) /\ Wide(Times(6, two), 1 + 1 + 1 + 1 + 1 + 1)
  BY <1>1, WideTimes DEF two
<1>3. Wide(Times(3, four), 1 + 1 + 1)
  BY <1>1, WideTimes DEF four
<1> DEFINE x == Times(3, two)  y == Times(3, four)
<1>x. Wide(x, 3) /\ Wide(y, 3) /\ Wide(Times(6, two), 6)
  BY <1>2, <1>3
<1> HIDE DEF x, y
<1>4. Wide(y \o x, 3 + 3)
  BY <1>x, WideBoth
<1>5. Wide(Times(4, x), 3 + 3 + 3 + 3) /\ Wide(Times(5, x), 3 + 3 + 3 + 3 + 3)
  BY <1>x, WideTimes
<1>6. Wide(y \o x, 6) /\ Wide(Times(4, x), 12) /\ Wide(Times(5, x), 15)
  BY <1>4, <1>5
<1>7. /\ Loc1 = y /\ Loc2 = y \o x /\ Norm1 = x /\ Rot1 = x /\ Rot2 = Times(6, two)
      /\ Transform1 = x /\ Thumb = Times(4, x) /\ Finger = Times(5, x)
  BY Zenon DEF Loc1, Loc2, Norm1, Rot1, Rot2, Transform1, Thumb, Finger, x, y, two, four
<1> DEFINE six == Times(6, two)  long == y \o x  thumb == Times(4, x)  finger == Times(5, x)
<1>8. /\ Primitives["Time1"] = <<2>> /\ Primitives["Boolean"] = <<1>> /\ Primitives["Float16"] = <<2>>
      /\ Primitives["Loc1"] = y /\ Primitives["Loc2"] = long /\ Primitives["Norm1"] = x
      /\ Primitives["Rot1"] = x /\ Primitives["Rot2"] = six
      /\ Primitives["Transform1"] = x /\ Primitives["Thumb"] = thumb
      /\ Primitives["Finger"] = finger
  <2> HIDE DEF six, long, thumb, finger
  <2>1. /\ Loc1 = y /\ Loc2 = long /\ Norm1 = x /\ Rot1 = x /\ Rot2 = six
        /\ Transform1 = x /\ Thumb = thumb /\ Finger = finger
    BY <1>7 DEF six, long, thumb, finger
  <2> QED BY <2>1 DEF Primitives
<1> QED BY <1>1, <1>x, <1>6, <1>8 DEF six, long, thumb, finger

\* The values of a field of such a type, and of VarUints.
LEMMA FieldOfOctets ==
    ASSUME NEW type, NEW n \in Nat, Wide(Primitives[type], n), NEW x \in Seq(Byte), Len(x) = n
    PROVE  x \in FieldValues(type)
<1> DEFINE t == Primitives[type]
<1>1. Len(t) = n /\ \A i \in 1..n : t[i] \in {1, 2, 4}
  BY DEF Wide
<1>2. \A i \in 1..n : x[i] \in Byte /\ x[i] \in Nat
  <2>1. \A i \in 1..n : x[i] \in Byte
    OBVIOUS
  <2>2. Byte \subseteq Nat
    BY DEF Byte
  <2> QED BY <2>1, <2>2
<1>3. x = [i \in 1..n |-> x[i]]
  OBVIOUS
<1> HIDE DEF t
<1>4. \A i \in 1..n : IsPrimitive(t[i], x[i])
  BY <1>1, <1>2 DEF IsPrimitive
<1> DEFINE m == Len(t)
<1>5. m = n
  BY <1>1
<1> HIDE DEF m
<1>6. x \in [1..m -> Nat] /\ \A i \in 1..m : IsPrimitive(t[i], x[i])
  BY <1>2, <1>3, <1>4, <1>5
<1> QED BY <1>6, Zenon DEF FieldValues, m, t

\* A VarUint, and two of them.
LEMMA FieldOfNumbers ==
    /\ \A a \in Number : <<a>> \in FieldValues("VarUint")
    /\ \A a, b \in Number : <<a, b>> \in FieldValues("TextureUV1")
<1>1. Primitives["VarUint"] = <<0>> /\ Primitives["TextureUV1"] = <<0, 0>>
  BY DEF Primitives, TextureUV1
<1>2. \A a \in Number : a \in Nat /\ IsPrimitive(0, a)
  BY DEF Number, IsPrimitive, IsNumber
<1> QED BY <1>1, <1>2 DEF FieldValues

\* The copies of the small structures, and back.
LEMMA SmallCopies ==
    /\ \A g \in GSLoc1 : /\ SerializeCopyLoc1(g) \in FieldValues("Loc1")
                         /\ DeserializeCopyLoc1(SerializeCopyLoc1(g)) = g
    /\ \A g \in GSLoc2 : /\ SerializeCopyLoc2(g) \in FieldValues("Loc2")
                         /\ DeserializeCopyLoc2(SerializeCopyLoc2(g)) = g
    /\ \A g \in GSRot1 : /\ SerializeCopyRot1(g) \in FieldValues("Rot1")
                         /\ DeserializeCopyRot1(SerializeCopyRot1(g)) = g
    /\ \A g \in GSRot2 : /\ SerializeCopyRot2(g) \in FieldValues("Rot2")
                         /\ DeserializeCopyRot2(SerializeCopyRot2(g)) = g
    /\ \A g \in GSNorm1 : /\ SerializeCopyNorm1(g) \in FieldValues("Norm1")
                          /\ DeserializeCopyNorm1(SerializeCopyNorm1(g)) = g
    /\ \A g \in GSTextureUV1 : /\ SerializeCopyTextureUV1(g) \in FieldValues("TextureUV1")
                               /\ DeserializeCopyTextureUV1(SerializeCopyTextureUV1(g)) = g
    /\ \A g \in GSTransform1 : /\ SerializeCopyTransform1(g) \in FieldValues("Transform1")
                               /\ DeserializeCopyTransform1(SerializeCopyTransform1(g)) = g
<1>1. ASSUME NEW type, Wide(Primitives[type], 3), NEW a \in Byte, NEW b \in Byte, NEW c \in Byte
      PROVE  <<a, b, c>> \in FieldValues(type)
  <2>1. <<a, b, c>> \in Seq(Byte) /\ Len(<<a, b, c>>) = 3
    OBVIOUS
  <2> QED BY <1>1, <2>1, FieldOfOctets
<1>2. ASSUME NEW type, Wide(Primitives[type], 6), NEW a \in Byte, NEW b \in Byte, NEW c \in Byte,
             NEW d \in Byte, NEW e \in Byte, NEW f \in Byte
      PROVE  <<a, b, c, d, e, f>> \in FieldValues(type)
  <2>1. <<a, b, c, d, e, f>> \in Seq(Byte) /\ Len(<<a, b, c, d, e, f>>) = 6
    OBVIOUS
  <2> QED BY <1>2, <2>1, FieldOfOctets
<1>3. /\ Wide(Primitives["Loc1"], 3) /\ Wide(Primitives["Loc2"], 6) /\ Wide(Primitives["Norm1"], 3)
      /\ Wide(Primitives["Rot1"], 3) /\ Wide(Primitives["Rot2"], 6)
      /\ Wide(Primitives["Transform1"], 3)
  BY TypesWide
<1>4. ASSUME NEW g \in GSLoc1
      PROVE  /\ SerializeCopyLoc1(g) \in FieldValues("Loc1")
             /\ DeserializeCopyLoc1(SerializeCopyLoc1(g)) = g
  <2>1. g.x \in Byte /\ g.y \in Byte /\ g.z \in Byte /\ g = [x |-> g.x, y |-> g.y, z |-> g.z]
    BY DEF GSLoc1
  <2> QED BY <1>1, <1>3, <2>1 DEF SerializeCopyLoc1, DeserializeCopyLoc1
<1>5. ASSUME NEW g \in GSLoc2
      PROVE  /\ SerializeCopyLoc2(g) \in FieldValues("Loc2")
             /\ DeserializeCopyLoc2(SerializeCopyLoc2(g)) = g
  <2>1. /\ g.x \in Byte /\ g.y \in Byte /\ g.z \in Byte /\ g.vx \in Byte /\ g.vy \in Byte /\ g.vz \in Byte
        /\ g = [x |-> g.x, y |-> g.y, z |-> g.z, vx |-> g.vx, vy |-> g.vy, vz |-> g.vz]
    BY DEF GSLoc2
  <2> QED BY <1>2, <1>3, <2>1 DEF SerializeCopyLoc2, DeserializeCopyLoc2
<1>6. ASSUME NEW g \in GSRot1
      PROVE  /\ SerializeCopyRot1(g) \in FieldValues("Rot1")
             /\ DeserializeCopyRot1(SerializeCopyRot1(g)) = g
  <2>1. g.i \in Byte /\ g.j \in Byte /\ g.k \in Byte /\ g = [i |-> g.i, j |-> g.j, k |-> g.k]
    BY DEF GSRot1
  <2> QED BY <1>1, <1>3, <2>1 DEF SerializeCopyRot1, DeserializeCopyRot1
<1>7. ASSUME NEW g \in GSRot2
      PROVE  /\ SerializeCopyRot2(g) \in FieldValues("Rot2")
             /\ DeserializeCopyRot2(SerializeCopyRot2(g)) = g
  <2>1. /\ g.si \in Byte /\ g.sj \in Byte /\ g.sk \in Byte /\ g.ei \in Byte /\ g.ej \in Byte /\ g.ek \in Byte
        /\ g = [si |-> g.si, sj |-> g.sj, sk |-> g.sk, ei |-> g.ei, ej |-> g.ej, ek |-> g.ek]
    BY DEF GSRot2
  <2> QED BY <1>2, <1>3, <2>1 DEF SerializeCopyRot2, DeserializeCopyRot2
<1>8. ASSUME NEW g \in GSNorm1
      PROVE  /\ SerializeCopyNorm1(g) \in FieldValues("Norm1")
             /\ DeserializeCopyNorm1(SerializeCopyNorm1(g)) = g
  <2>1. g.x \in Byte /\ g.y \in Byte /\ g.z \in Byte /\ g = [x |-> g.x, y |-> g.y, z |-> g.z]
    BY DEF GSNorm1
  <2> QED BY <1>1, <1>3, <2>1 DEF SerializeCopyNorm1, DeserializeCopyNorm1
<1>9. ASSUME NEW g \in GSTextureUV1
      PROVE  /\ SerializeCopyTextureUV1(g) \in FieldValues("TextureUV1")
             /\ DeserializeCopyTextureUV1(SerializeCopyTextureUV1(g)) = g
  <2>1. g.u \in Number /\ g.v \in Number /\ g = [u |-> g.u, v |-> g.v]
    BY DEF GSTextureUV1
  <2> QED BY <2>1, FieldOfNumbers DEF SerializeCopyTextureUV1, DeserializeCopyTextureUV1
<1>10. ASSUME NEW g \in GSTransform1
       PROVE  /\ SerializeCopyTransform1(g) \in FieldValues("Transform1")
              /\ DeserializeCopyTransform1(SerializeCopyTransform1(g)) = g
  <2>1. g.tx \in Byte /\ g.ty \in Byte /\ g.tz \in Byte /\ g = [tx |-> g.tx, ty |-> g.ty, tz |-> g.tz]
    BY DEF GSTransform1
  <2> QED BY <1>1, <1>3, <2>1 DEF SerializeCopyTransform1, DeserializeCopyTransform1
<1> QED BY <1>4, <1>5, <1>6, <1>7, <1>8, <1>9, <1>10, Zenon

\* A transform as octets.
LEMMA TransformOctets ==
    ASSUME NEW g \in GSTransform1
    PROVE  /\ SerializeCopyTransform1(g) \in Seq(Byte) /\ Len(SerializeCopyTransform1(g)) = 3
  BY DEF GSTransform1, SerializeCopyTransform1

\* The n-th of three octets each is what stands there.
LEMMA TransformFound ==
    ASSUME NEW s \in Seq(Byte), NEW n \in Nat \ {0}, 3 * n <= Len(s), NEW g \in GSTransform1,
           \A i \in 1..3 : s[3 * n - 3 + i] = SerializeCopyTransform1(g)[i]
    PROVE  TransformAt(s, n) = g
<1> DEFINE t == SerializeCopyTransform1(g)  a == 3 * n - 2  b == 3 * n  r == SubSeq(s, a, b)
<1>1. t \in Seq(Byte) /\ Len(t) = 3
  BY TransformOctets
<1>2. a \in 1..Len(s) /\ b \in 1..Len(s) /\ b - a + 1 = 3 /\ Len(s) \in Nat
  OBVIOUS
<1>3. Len(r) = 3 /\ \A i \in 1..3 : r[i] = s[a + i - 1]
  <2> HIDE DEF a, b
  <2> QED BY <1>2
<1>4. s[a] = t[1] /\ s[a + 1] = t[2] /\ s[a + 2] = t[3]
  BY DEF a
<1>5. r[1] = t[1] /\ r[2] = t[2] /\ r[3] = t[3]
  <2>1. a \in Int
    OBVIOUS
  <2> HIDE DEF a, r, t, b
  <2> QED BY <1>3, <1>4, <2>1
<1> HIDE DEF t, r
<1>6. DeserializeCopyTransform1(r) = DeserializeCopyTransform1(t)
  BY <1>5 DEF DeserializeCopyTransform1
<1>7. DeserializeCopyTransform1(t) = g
  BY SmallCopies DEF t
<1> QED BY <1>6, <1>7 DEF TransformAt, r, a, b

\* Octets in threes, one more of them.
LEMMA OneMoreTriple ==
    ASSUME NEW s \in Seq(Byte), NEW k \in Nat, Len(s) = k, NEW t \in Seq(Byte), Len(t) = 3
    PROVE  /\ s \o t \in Seq(Byte) /\ Len(s \o t) = k + 3
           /\ \A i \in 1..k : (s \o t)[i] = s[i]
           /\ \A i \in 1..3 : (s \o t)[k + i] = t[i]
<1>1. s \o t \in Seq(Byte) /\ Len(s \o t) = Len(s) + Len(t)
      /\ \A i \in 1..(Len(s) + Len(t)) : (s \o t)[i] = IF i <= Len(s) THEN s[i] ELSE t[i - Len(s)]
  BY ConcatProperties
<1> DEFINE m == Len(s)  n == Len(t)  r == s \o t
<1>2. m = k /\ n = 3 /\ k \in Nat
  OBVIOUS
<1>3. \A i \in 1..(m + n) : r[i] = IF i <= m THEN s[i] ELSE t[i - m]
  BY <1>1
<1> HIDE DEF m, n, r
<1>4. \A i \in 1..k : r[i] = s[i]
  BY <1>2, <1>3
<1>5. \A i \in 1..3 : r[k + i] = t[i]
  <2> TAKE i \in 1..3
  <2> DEFINE j == k + i
  <2>1. j \in 1..(m + n) /\ ~(j <= m) /\ j - m = i
    BY <1>2
  <2> HIDE DEF j
  <2>2. r[j] = t[i]
    BY <1>3, <2>1
  <2> QED BY <2>2 DEF j
<1> QED BY <1>1, <1>2, <1>4, <1>5 DEF r, m, n

\* Where the first octets of a sequence hold transforms, one after the other.
Joints(s, gs) ==
    /\ s \in Seq(Byte) /\ Len(s) = 3 * Len(gs) /\ gs \in Seq(GSTransform1)
    /\ \A n \in 1..Len(gs) : \A i \in 1..3 : s[3 * n - 3 + i] = SerializeCopyTransform1(gs[n])[i]

\* hs is gs and g.
Longer(gs, hs, g) ==
    /\ hs \in Seq(GSTransform1) /\ Len(hs) = Len(gs) + 1 /\ hs[Len(gs) + 1] = g
    /\ \A n \in 1..Len(gs) : hs[n] = gs[n]

\* The first of them, and one more.
LEMMA JointsNext ==
    /\ \A g \in GSTransform1 : Joints(SerializeCopyTransform1(g), <<g>>)
    /\ \A s, gs, hs, g : Joints(s, gs) /\ g \in GSTransform1 /\ Longer(gs, hs, g) =>
            Joints(s \o SerializeCopyTransform1(g), hs)
<1>1. ASSUME NEW g \in GSTransform1 PROVE Joints(SerializeCopyTransform1(g), <<g>>)
  <2> DEFINE t == SerializeCopyTransform1(g)  gs == <<g>>
  <2>1. t \in Seq(Byte) /\ Len(t) = 3
    BY TransformOctets
  <2>2. gs \in Seq(GSTransform1) /\ Len(gs) = 1 /\ gs[1] = g
    OBVIOUS
  <2>3. \A n \in 1..1 : \A i \in 1..3 : t[3 * n - 3 + i] = SerializeCopyTransform1(gs[n])[i]
    <3>1. \A n \in 1..1 : n = 1 /\ gs[n] = g
      BY <2>2
    <3>2. \A i \in 1..3 : 3 * 1 - 3 + i = i
      OBVIOUS
    <3> HIDE DEF gs
    <3> QED BY <3>1, <3>2
  <2> HIDE DEF t, gs
  <2> QED BY <2>1, <2>2, <2>3 DEF Joints, t, gs
<1>2. ASSUME NEW s, NEW gs, NEW hs, NEW g \in GSTransform1, Joints(s, gs), Longer(gs, hs, g)
      PROVE  Joints(s \o SerializeCopyTransform1(g), hs)
  <2> DEFINE t == SerializeCopyTransform1(g)  r == s \o t  m == Len(gs)  k == Len(s)
  <2>1. t \in Seq(Byte) /\ Len(t) = 3
    BY TransformOctets
  <2>2. s \in Seq(Byte) /\ k = 3 * m /\ gs \in Seq(GSTransform1) /\ m \in Nat /\ k \in Nat
    BY <1>2, LenProperties DEF Joints
  <2>3. hs \in Seq(GSTransform1) /\ Len(hs) = m + 1 /\ hs[m + 1] = g /\ \A n \in 1..m : hs[n] = gs[n]
    BY <1>2 DEF Longer
  <2>4. r \in Seq(Byte) /\ Len(r) = k + 3 /\ (\A i \in 1..k : r[i] = s[i]) /\ \A i \in 1..3 : r[k + i] = t[i]
    BY <2>1, <2>2, OneMoreTriple
  <2>5. \A n \in 1..m : \A i \in 1..3 : s[3 * n - 3 + i] = SerializeCopyTransform1(gs[n])[i]
    BY <1>2 DEF Joints
  <2> HIDE DEF r, m, k
  <2>6. ASSUME NEW n \in 1..(m + 1), NEW i \in 1..3
        PROVE  r[3 * n - 3 + i] = SerializeCopyTransform1(hs[n])[i]
    <3>1. CASE n = m + 1
      <4>1. 3 * n - 3 + i = k + i
        BY <2>2, <3>1
      <4> QED BY <2>3, <2>4, <3>1, <4>1 DEF t
    <3>2. CASE n # m + 1
      <4>1. n \in 1..m /\ 3 * n - 3 + i \in 1..k
        BY <2>2, <3>2
      <4> QED BY <2>3, <2>4, <2>5, <4>1
    <3> QED BY <3>1, <3>2
  <2>7. Len(r) = 3 * Len(hs)
    BY <2>2, <2>3, <2>4
  <2> HIDE DEF t
  <2> QED BY <2>2, <2>3, <2>4, <2>6, <2>7 DEF Joints, r, t
<1> QED BY <1>1, <1>2

\* Each of them is found again.
LEMMA JointFound ==
    ASSUME NEW s, NEW gs, Joints(s, gs), NEW n \in 1..Len(gs)
    PROVE  TransformAt(s, n) = gs[n]
<1>1. gs[n] \in GSTransform1 /\ Len(gs) \in Nat /\ Len(s) = 3 * Len(gs) /\ s \in Seq(Byte)
  BY LenProperties, ElementOfSeq DEF Joints
<1>2. \A i \in 1..3 : s[3 * n - 3 + i] = SerializeCopyTransform1(gs[n])[i]
  BY DEF Joints
<1> DEFINE g == gs[n]  m == Len(gs)  k == Len(s)
<1>3. n \in Nat \ {0} /\ 3 * n <= k
  <2>1. n \in 1..m /\ m \in Nat /\ k = 3 * m
    BY <1>1
  <2> HIDE DEF m, k
  <2> QED BY <2>1
<1> HIDE DEF g
<1> QED BY <1>1, <1>2, <1>3, TransformFound DEF g

\* A thumb and a finger, and back.
LEMMA HandCopies ==
    /\ \A g \in GSThumb : /\ SerializeCopyThumb(g) \in FieldValues("Thumb")
                          /\ DeserializeCopyThumb(SerializeCopyThumb(g)) = g
    /\ \A g \in GSFinger : /\ SerializeCopyFinger(g) \in FieldValues("Finger")
                           /\ DeserializeCopyFinger(SerializeCopyFinger(g)) = g
<1> DEFINE C(g) == SerializeCopyTransform1(g)
<1>1. ASSUME NEW a \in GSTransform1, NEW b \in GSTransform1, NEW c \in GSTransform1, NEW d \in GSTransform1
      PROVE  Joints(C(a) \o C(b) \o C(c) \o C(d), <<a, b, c, d>>)
  <2>1. Joints(C(a), <<a>>)
    BY JointsNext
  <2>2. Longer(<<a>>, <<a, b>>, b)
    BY DEF Longer
  <2>3. Longer(<<a, b>>, <<a, b, c>>, c)
    BY DEF Longer
  <2>4. Longer(<<a, b, c>>, <<a, b, c, d>>, d)
    BY DEF Longer
  <2>5. Joints(C(a) \o C(b), <<a, b>>)
    BY <2>1, <2>2, JointsNext
  <2>6. Joints(C(a) \o C(b) \o C(c), <<a, b, c>>)
    BY <2>3, <2>5, JointsNext
  <2> QED BY <2>4, <2>6, JointsNext
<1>2. ASSUME NEW a \in GSTransform1, NEW b \in GSTransform1, NEW c \in GSTransform1, NEW d \in GSTransform1,
             NEW e \in GSTransform1
      PROVE  Joints(C(a) \o C(b) \o C(c) \o C(d) \o C(e), <<a, b, c, d, e>>)
  <2>1. Longer(<<a, b, c, d>>, <<a, b, c, d, e>>, e)
    BY DEF Longer
  <2> QED BY <1>1, <2>1, JointsNext
<1> HIDE DEF C
<1>3. ASSUME NEW g \in GSThumb
      PROVE  /\ SerializeCopyThumb(g) \in FieldValues("Thumb")
             /\ DeserializeCopyThumb(SerializeCopyThumb(g)) = g
  <2>1. /\ g.tip \in GSTransform1 /\ g.ip \in GSTransform1 /\ g.mcp \in GSTransform1 /\ g.cmc \in GSTransform1
        /\ g = [tip |-> g.tip, ip |-> g.ip, mcp |-> g.mcp, cmc |-> g.cmc]
    BY DEF GSThumb
  <2> DEFINE s == SerializeCopyThumb(g)  gs == <<g.tip, g.ip, g.mcp, g.cmc>>
  <2>2. s = C(g.tip) \o C(g.ip) \o C(g.mcp) \o C(g.cmc)
    BY DEF SerializeCopyThumb, C
  <2>3. Joints(s, gs)
    BY <1>1, <2>1, <2>2
  <2>4. Len(gs) = 4 /\ gs[1] = g.tip /\ gs[2] = g.ip /\ gs[3] = g.mcp /\ gs[4] = g.cmc
    OBVIOUS
  <2> HIDE DEF s, gs
  <2>5. s \in Seq(Byte) /\ Len(s) = 12
    BY <2>3, <2>4 DEF Joints
  <2>6. s \in FieldValues("Thumb")
    BY <2>5, TypesWide, FieldOfOctets
  <2>a. 1 \in 1..Len(gs) /\ 2 \in 1..Len(gs) /\ 3 \in 1..Len(gs) /\ 4 \in 1..Len(gs)
    BY <2>4
  <2>7. TransformAt(s, 1) = g.tip /\ TransformAt(s, 2) = g.ip /\ TransformAt(s, 3) = g.mcp
        /\ TransformAt(s, 4) = g.cmc
    BY <2>3, <2>4, <2>a, JointFound, Zenon
  <2>8. DeserializeCopyThumb(s) = g
    BY <2>1, <2>7 DEF DeserializeCopyThumb
  <2> QED BY <2>6, <2>8 DEF s
<1>4. ASSUME NEW g \in GSFinger
      PROVE  /\ SerializeCopyFinger(g) \in FieldValues("Finger")
             /\ DeserializeCopyFinger(SerializeCopyFinger(g)) = g
  <2>1. /\ g.tip \in GSTransform1 /\ g.dip \in GSTransform1 /\ g.pip \in GSTransform1
        /\ g.mcp \in GSTransform1 /\ g.cmc \in GSTransform1
        /\ g = [tip |-> g.tip, dip |-> g.dip, pip |-> g.pip, mcp |-> g.mcp, cmc |-> g.cmc]
    BY DEF GSFinger
  <2> DEFINE s == SerializeCopyFinger(g)  gs == <<g.tip, g.dip, g.pip, g.mcp, g.cmc>>
  <2>2. s = C(g.tip) \o C(g.dip) \o C(g.pip) \o C(g.mcp) \o C(g.cmc)
    BY DEF SerializeCopyFinger, C
  <2>3. Joints(s, gs)
    BY <1>2, <2>1, <2>2
  <2>4. Len(gs) = 5 /\ gs[1] = g.tip /\ gs[2] = g.dip /\ gs[3] = g.pip /\ gs[4] = g.mcp /\ gs[5] = g.cmc
    OBVIOUS
  <2> HIDE DEF s, gs
  <2>5. s \in Seq(Byte) /\ Len(s) = 15
    BY <2>3, <2>4 DEF Joints
  <2>6. s \in FieldValues("Finger")
    BY <2>5, TypesWide, FieldOfOctets
  <2>7. TransformAt(s, 1) = g.tip /\ TransformAt(s, 2) = g.dip /\ TransformAt(s, 3) = g.pip
        /\ TransformAt(s, 4) = g.mcp /\ TransformAt(s, 5) = g.cmc
    BY <2>3, <2>4, JointFound
  <2>8. DeserializeCopyFinger(s) = g
    BY <2>1, <2>7 DEF DeserializeCopyFinger
  <2> QED BY <2>6, <2>8 DEF s
<1> QED BY <1>3, <1>4

\* One octet.
LEMMA FieldOfOctet ==
    /\ \A a \in Byte : <<a>> \in FieldValues("Time1") /\ <<a>> \in FieldValues("Float16")
    /\ \A a \in Byte : <<Bool(a)>> \in FieldValues("Boolean")
<1>1. \A a \in Byte : <<a>> \in Seq(Byte) /\ Len(<<a>>) = 1
  OBVIOUS
<1>2. \A a : Bool(a) \in Byte
  BY DEF Bool, Byte
<1>3. /\ Wide(Primitives["Time1"], 1) /\ Wide(Primitives["Boolean"], 1)
      /\ Wide(Primitives["Float16"], 1)
  BY TypesWide
<1> QED BY <1>1, <1>2, <1>3, FieldOfOctets

\* No value of an optional field, and one.
LEMMA OptionalField ==
    /\ \A a \in Number : {<<>>, <<<<a>>>>} \subseteq OptionalValues("VarUint")
    /\ \A a \in Byte : {<<>>, <<<<a>>>>} \subseteq OptionalValues("HeadIPD1")
<1>1. ASSUME NEW S, NEW x \in S PROVE {<<>>, <<x>>} \subseteq {y \in Seq(S) : Len(y) <= 1}
  OBVIOUS
<1> DEFINE V == FieldValues("VarUint")  F == FieldValues("Float16")
<1>2. OptionalValues("VarUint") = {y \in Seq(V) : Len(y) <= 1}
      /\ OptionalValues("HeadIPD1") = {y \in Seq(F) : Len(y) <= 1}
  BY DEF OptionalValues
<1>3. (\A a \in Number : <<a>> \in V) /\ \A a \in Byte : <<a>> \in F
  BY FieldOfNumbers, FieldOfOctet
<1> HIDE DEF V, F
<1> QED BY <1>1, <1>2, <1>3

\* A field with a value, and the values of a field.
LEMMA OneValue ==
    ASSUME NEW v, NEW name, NEW type, v[name] \in FieldValues(type)
    PROVE  v[One(name, type).name] \in ValuesOf(One(name, type))
  BY DEF One, ValuesOf

\* That of a vector.
LEMMA VectorValue ==
    ASSUME NEW v, NEW name, NEW type, v[name] \in VectorValues(type)
    PROVE  v[Vector(name, type).name] \in ValuesOf(Vector(name, type))
  BY DEF Vector, ValuesOf

\* That of an optional field.
LEMMA OptionalValue ==
    ASSUME NEW v, NEW name, NEW type, v[name] \in OptionalValues(type)
    PROVE  v[Optional(name, type).name] \in ValuesOf(Optional(name, type))
  BY DEF Optional, ValuesOf

\* The fields as a set of names.
LEMMA FieldsFound ==
    ASSUME NEW v, NEW fields, NEW n \in Nat, DOMAIN fields = 1..n,
           NEW names, v = [m \in {"kind"} \cup names |-> v[m]],
           \A m : m \in names <=> \E i \in 1..n : fields[i].name = m,
           \A i \in 1..n : v[fields[i].name] \in ValuesOf(fields[i])
    PROVE  HasFields(v, fields)
<1>1. {fields[i].name : i \in DOMAIN fields} = names
  OBVIOUS
<1> QED BY <1>1 DEF HasFields

\* An Object1 as an object of the library.
LEMMA Object1Fields ==
    ASSUME NEW g \in GSObject1
    PROVE  HasFields(SerializeObject1(g), Object1Written)
<1> DEFINE v == SerializeObject1(g)
           names == {"id", "time", "position", "rotation", "scale", "active", "parent"}
           f1 == One("id", "VarUint")
           f2 == One("time", "Time1")
           f3 == One("position", "Loc1")
           f4 == One("rotation", "Rot1")
           f5 == One("scale", "Loc1")
           f6 == One("active", "Boolean")
           f7 == Optional("parent", "VarUint")
           fields == <<f1, f2, f3, f4, f5, f6, f7>>
<1>1. /\ g.id \in Number /\ g.time \in Byte /\ g.position \in GSLoc1
      /\ g.rotation \in GSRot1 /\ g.scale \in GSLoc1 /\ g.active \in Byte
      /\ g.parent \in Number
  BY DEF GSObject1
<1>2. /\ v.id = <<g.id>> /\ v.time = <<g.time>>
      /\ v.position = SerializeCopyLoc1(g.position) /\ v.rotation = SerializeCopyRot1(g.rotation)
      /\ v.scale = SerializeCopyLoc1(g.scale) /\ v.active = <<Bool(g.active)>>
      /\ v.parent \in {<<>>, <<<<g.parent>>>>}
      /\ v = [m \in {"kind"} \cup names |-> v[m]]
  BY DEF SerializeObject1
<1>3. fields = Object1Written
  BY DEF Object1Written
<1>4. \A m : m \in names <=> m = f1.name \/ m = f2.name \/ m = f3.name \/ m = f4.name \/ m = f5.name \/
              m = f6.name \/ m = f7.name
  BY DEF One, Optional
<1> HIDE DEF v, names
<1>o. v.parent \in OptionalValues("VarUint")
  BY <1>1, <1>2, OptionalField
<1>5. /\ v.id \in FieldValues("VarUint") /\ v.time \in FieldValues("Time1")
      /\ v.position \in FieldValues("Loc1") /\ v.rotation \in FieldValues("Rot1")
      /\ v.scale \in FieldValues("Loc1") /\ v.active \in FieldValues("Boolean")
  BY <1>1, <1>2, FieldOfNumbers, FieldOfOctet, SmallCopies, Zenon
<1>6. /\ v[f1.name] \in ValuesOf(f1) /\ v[f2.name] \in ValuesOf(f2) /\ v[f3.name] \in ValuesOf(f3)
      /\ v[f4.name] \in ValuesOf(f4) /\ v[f5.name] \in ValuesOf(f5) /\ v[f6.name] \in ValuesOf(f6)
      /\ v[f7.name] \in ValuesOf(f7)
  BY <1>5, OneValue, <1>o, OptionalValue
<1> HIDE DEF f1, f2, f3, f4, f5, f6, f7
<1>7. /\ DOMAIN fields = 1..7
      /\ \A i \in 1..7 : (i = 1 /\ fields[i] = f1) \/ (i = 2 /\ fields[i] = f2) \/ (i = 3 /\ fields[i] = f3) \/
              (i = 4 /\ fields[i] = f4) \/ (i = 5 /\ fields[i] = f5) \/ (i = 6 /\ fields[i] = f6) \/
              (i = 7 /\ fields[i] = f7)
  OBVIOUS
<1>8. /\ fields[1] = f1 /\ fields[2] = f2 /\ fields[3] = f3 /\ fields[4] = f4
      /\ fields[5] = f5 /\ fields[6] = f6 /\ fields[7] = f7
  OBVIOUS
<1> HIDE DEF fields
<1>9. \A i \in 1..7 : v[fields[i].name] \in ValuesOf(fields[i])
  BY <1>6, <1>7
<1>10. \A m : m \in names <=> \E i \in 1..7 : fields[i].name = m
  BY <1>4, <1>7, <1>8
<1>11. HasFields(v, fields)
  BY <1>2, <1>7, <1>9, <1>10, FieldsFound
<1> QED BY <1>3, <1>11 DEF v

\* A Head1 as an object of the library.
LEMMA Head1Fields ==
    ASSUME NEW g \in GSHead1
    PROVE  HasFields(SerializeHead1(g), Head1Written)
<1> DEFINE v == SerializeHead1(g)
           names == {"id", "time", "location", "rotation", "ipd"}
           a == One("id", "VarUint")
           b == One("time", "Time1")
           c == One("location", "Loc2")
           d == One("rotation", "Rot2")
           e == Optional("ipd", "HeadIPD1")
           fields == <<a, b, c, d, e>>
<1>1. /\ g.id \in Number /\ g.time \in Byte /\ g.location \in GSLoc2
      /\ g.rotation \in GSRot2 /\ g.ipd.ipd \in Byte
  BY DEF GSHead1, GSHeadIPD1
<1>2. /\ v.id = <<g.id>> /\ v.time = <<g.time>>
      /\ v.location = SerializeCopyLoc2(g.location) /\ v.rotation = SerializeCopyRot2(g.rotation)
      /\ v.ipd \in {<<>>, <<<<g.ipd.ipd>>>>}
      /\ v = [m \in {"kind"} \cup names |-> v[m]]
  BY DEF SerializeHead1
<1>3. fields = Head1Written
  BY DEF Head1Written
<1>4. \A m : m \in names <=> m = a.name \/ m = b.name \/ m = c.name \/ m = d.name \/ m = e.name
  BY DEF One, Optional
<1> HIDE DEF v, names
<1>o. v.ipd \in OptionalValues("HeadIPD1")
  BY <1>1, <1>2, OptionalField
<1>5. /\ v.id \in FieldValues("VarUint") /\ v.time \in FieldValues("Time1")
      /\ v.location \in FieldValues("Loc2") /\ v.rotation \in FieldValues("Rot2")
  BY <1>1, <1>2, FieldOfNumbers, FieldOfOctet, SmallCopies, Zenon
<1>6. /\ v[a.name] \in ValuesOf(a) /\ v[b.name] \in ValuesOf(b) /\ v[c.name] \in ValuesOf(c)
      /\ v[d.name] \in ValuesOf(d) /\ v[e.name] \in ValuesOf(e)
  BY <1>5, OneValue, <1>o, OptionalValue
<1> HIDE DEF a, b, c, d, e
<1>7. /\ DOMAIN fields = 1..5
      /\ \A i \in 1..5 : (i = 1 /\ fields[i] = a) \/ (i = 2 /\ fields[i] = b) \/ (i = 3 /\ fields[i] = c) \/
              (i = 4 /\ fields[i] = d) \/ (i = 5 /\ fields[i] = e)
  OBVIOUS
<1>8. /\ fields[1] = a /\ fields[2] = b /\ fields[3] = c /\ fields[4] = d
      /\ fields[5] = e
  OBVIOUS
<1> HIDE DEF fields
<1>9. \A i \in 1..5 : v[fields[i].name] \in ValuesOf(fields[i])
  BY <1>6, <1>7
<1>10. \A m : m \in names <=> \E i \in 1..5 : fields[i].name = m
  BY <1>4, <1>7, <1>8
<1>11. HasFields(v, fields)
  BY <1>2, <1>7, <1>9, <1>10, FieldsFound
<1> QED BY <1>3, <1>11 DEF v

\* A Hand1 as an object of the library.
LEMMA Hand1Fields ==
    ASSUME NEW g \in GSHand1
    PROVE  HasFields(SerializeHand1(g), Hand1Written)
<1> DEFINE v == SerializeHand1(g)
           names == {"id", "time", "left", "location", "rotation"}
           a == One("id", "VarUint")
           b == One("time", "Time1")
           c == One("left", "Boolean")
           d == One("location", "Loc2")
           e == One("rotation", "Rot2")
           fields == <<a, b, c, d, e>>
<1>1. /\ g.id \in Number /\ g.time \in Byte /\ g.left \in Byte
      /\ g.location \in GSLoc2 /\ g.rotation \in GSRot2
  BY DEF GSHand1
<1>2. /\ v.id = <<g.id>> /\ v.time = <<g.time>>
      /\ v.left = <<Bool(g.left)>> /\ v.location = SerializeCopyLoc2(g.location)
      /\ v.rotation = SerializeCopyRot2(g.rotation)
      /\ v = [m \in {"kind"} \cup names |-> v[m]]
  BY DEF SerializeHand1
<1>3. fields = Hand1Written
  BY DEF Hand1Written
<1>4. \A m : m \in names <=> m = a.name \/ m = b.name \/ m = c.name \/ m = d.name \/ m = e.name
  BY DEF One
<1> HIDE DEF v, names
<1>5. /\ v.id \in FieldValues("VarUint") /\ v.time \in FieldValues("Time1")
      /\ v.left \in FieldValues("Boolean") /\ v.location \in FieldValues("Loc2")
      /\ v.rotation \in FieldValues("Rot2")
  BY <1>1, <1>2, FieldOfNumbers, FieldOfOctet, SmallCopies, Zenon
<1>6. /\ v[a.name] \in ValuesOf(a) /\ v[b.name] \in ValuesOf(b) /\ v[c.name] \in ValuesOf(c)
      /\ v[d.name] \in ValuesOf(d) /\ v[e.name] \in ValuesOf(e)
  BY <1>5, OneValue
<1> HIDE DEF a, b, c, d, e
<1>7. /\ DOMAIN fields = 1..5
      /\ \A i \in 1..5 : (i = 1 /\ fields[i] = a) \/ (i = 2 /\ fields[i] = b) \/ (i = 3 /\ fields[i] = c) \/
              (i = 4 /\ fields[i] = d) \/ (i = 5 /\ fields[i] = e)
  OBVIOUS
<1>8. /\ fields[1] = a /\ fields[2] = b /\ fields[3] = c /\ fields[4] = d
      /\ fields[5] = e
  OBVIOUS
<1> HIDE DEF fields
<1>9. \A i \in 1..5 : v[fields[i].name] \in ValuesOf(fields[i])
  BY <1>6, <1>7
<1>10. \A m : m \in names <=> \E i \in 1..5 : fields[i].name = m
  BY <1>4, <1>7, <1>8
<1>11. HasFields(v, fields)
  BY <1>2, <1>7, <1>9, <1>10, FieldsFound
<1> QED BY <1>3, <1>11 DEF v

\* A Hand2 as an object of the library.
LEMMA Hand2Fields ==
    ASSUME NEW g \in GSHand2
    PROVE  HasFields(SerializeHand2(g), Hand2Written)
<1> DEFINE v == SerializeHand2(g)
           names == {"id", "time", "left", "location", "rotation", "wrist", "thumb", "index",
                     "middle", "ring", "pinky"}
           f1 == One("id", "VarUint")
           f2 == One("time", "Time1")
           f3 == One("left", "Boolean")
           f4 == One("location", "Loc2")
           f5 == One("rotation", "Rot2")
           f6 == One("wrist", "Transform1")
           f7 == One("thumb", "Thumb")
           f8 == One("index", "Finger")
           f9 == One("middle", "Finger")
           f10 == One("ring", "Finger")
           f11 == One("pinky", "Finger")
           fields == <<f1, f2, f3, f4, f5, f6, f7, f8, f9, f10, f11>>
<1>1. /\ g.id \in Number /\ g.time \in Byte /\ g.left \in Byte
      /\ g.location \in GSLoc2 /\ g.rotation \in GSRot2 /\ g.wrist \in GSTransform1
      /\ g.thumb \in GSThumb /\ g.index \in GSFinger /\ g.middle \in GSFinger
      /\ g.ring \in GSFinger /\ g.pinky \in GSFinger
  BY DEF GSHand2
<1>2. /\ v.id = <<g.id>> /\ v.time = <<g.time>>
      /\ v.left = <<Bool(g.left)>> /\ v.location = SerializeCopyLoc2(g.location)
      /\ v.rotation = SerializeCopyRot2(g.rotation) /\ v.wrist = SerializeCopyTransform1(g.wrist)
      /\ v.thumb = SerializeCopyThumb(g.thumb) /\ v.index = SerializeCopyFinger(g.index)
      /\ v.middle = SerializeCopyFinger(g.middle) /\ v.ring = SerializeCopyFinger(g.ring)
      /\ v.pinky = SerializeCopyFinger(g.pinky)
      /\ v = [m \in {"kind"} \cup names |-> v[m]]
  BY DEF SerializeHand2
<1>3. fields = Hand2Written
  BY DEF Hand2Written
<1>4. \A m : m \in names <=> m = f1.name \/ m = f2.name \/ m = f3.name \/ m = f4.name \/ m = f5.name \/
              m = f6.name \/ m = f7.name \/ m = f8.name \/ m = f9.name \/ m = f10.name \/
              m = f11.name
  BY DEF One
<1> HIDE DEF v, names
<1>5. /\ v.id \in FieldValues("VarUint") /\ v.time \in FieldValues("Time1")
      /\ v.left \in FieldValues("Boolean") /\ v.location \in FieldValues("Loc2")
      /\ v.rotation \in FieldValues("Rot2") /\ v.wrist \in FieldValues("Transform1")
      /\ v.thumb \in FieldValues("Thumb") /\ v.index \in FieldValues("Finger")
      /\ v.middle \in FieldValues("Finger") /\ v.ring \in FieldValues("Finger")
      /\ v.pinky \in FieldValues("Finger")
  BY <1>1, <1>2, FieldOfNumbers, FieldOfOctet, SmallCopies, HandCopies, Zenon
<1>6. /\ v[f1.name] \in ValuesOf(f1) /\ v[f2.name] \in ValuesOf(f2) /\ v[f3.name] \in ValuesOf(f3)
      /\ v[f4.name] \in ValuesOf(f4) /\ v[f5.name] \in ValuesOf(f5) /\ v[f6.name] \in ValuesOf(f6)
      /\ v[f7.name] \in ValuesOf(f7) /\ v[f8.name] \in ValuesOf(f8) /\ v[f9.name] \in ValuesOf(f9)
      /\ v[f10.name] \in ValuesOf(f10) /\ v[f11.name] \in ValuesOf(f11)
  BY <1>5, OneValue
<1> HIDE DEF f1, f2, f3, f4, f5, f6, f7, f8, f9, f10, f11
<1>7. /\ DOMAIN fields = 1..11
      /\ \A i \in 1..11 : (i = 1 /\ fields[i] = f1) \/ (i = 2 /\ fields[i] = f2) \/ (i = 3 /\ fields[i] = f3) \/
              (i = 4 /\ fields[i] = f4) \/ (i = 5 /\ fields[i] = f5) \/ (i = 6 /\ fields[i] = f6) \/
              (i = 7 /\ fields[i] = f7) \/ (i = 8 /\ fields[i] = f8) \/ (i = 9 /\ fields[i] = f9) \/
              (i = 10 /\ fields[i] = f10) \/ (i = 11 /\ fields[i] = f11)
  OBVIOUS
<1>8. /\ fields[1] = f1 /\ fields[2] = f2 /\ fields[3] = f3 /\ fields[4] = f4
      /\ fields[5] = f5 /\ fields[6] = f6 /\ fields[7] = f7 /\ fields[8] = f8
      /\ fields[9] = f9 /\ fields[10] = f10 /\ fields[11] = f11
  OBVIOUS
<1> HIDE DEF fields
<1>9. \A i \in 1..11 : v[fields[i].name] \in ValuesOf(fields[i])
  BY <1>6, <1>7
<1>10. \A m : m \in names <=> \E i \in 1..11 : fields[i].name = m
  BY <1>4, <1>7, <1>8
<1>11. HasFields(v, fields)
  BY <1>2, <1>7, <1>9, <1>10, FieldsFound
<1> QED BY <1>3, <1>11 DEF v

-----------------------------------------------------------------------------
(* An object that is not a mesh is short.                                  *)

\* Octet strings of no more than m octets each, joined.
LEMMA FlattenShort ==
    ASSUME NEW m \in Nat, NEW ss \in Seq(Seq(Byte)), \A i \in 1..Len(ss) : Len(ss[i]) <= m
    PROVE  Len(FlattenSeq(ss)) \in Nat /\ Len(FlattenSeq(ss)) <= m * Len(ss)
<1> DEFINE n == Len(ss)  Cat(x, y) == x \o y  Size(x) == Len(x)  Q == Seq(Byte)
<1>1. n \in Nat /\ \A i \in 1..n : ss[i] \in Q /\ Size(ss[i]) <= m
  BY LenProperties, ElementOfSeq
<1>3. PICK f : Joins(f, ss, Byte) /\ FlattenSeq(ss) = f[n]
  BY FlattenJoins, Zenon
<1>4. /\ f[0] = <<>> /\ \A i \in 0..n : f[i] \in Q
      /\ \A i \in 1..n : f[i] = Cat(f[i - 1], ss[i])
  BY <1>3, Zenon DEF Joins
<1>5. /\ \A x \in Q : Size(x) \in Nat
      /\ \A x, y \in Q : Size(Cat(x, y)) = Size(x) + Size(y)
  BY LenProperties, ConcatProperties
<1>6. Size(f[0]) = 0
  BY <1>4
<1> DEFINE T == {j \in Nat : j <= n => Size(f[j]) <= m * j}
<1> HIDE DEF n, Cat, Size, Q
<1>7. 0 \in T
  BY <1>1, <1>6
<1>8. ASSUME NEW j \in Nat, j \in T PROVE j + 1 \in T
  <2>1. SUFFICES ASSUME j + 1 <= n PROVE Size(f[j + 1]) <= m * (j + 1)
    OBVIOUS
  <2>2. j + 1 \in 1..n /\ j \in 0..n /\ (j + 1) - 1 = j /\ Size(f[j]) <= m * j
    BY <1>1, <1>8, <2>1
  <2>3. f[j + 1] = Cat(f[j], ss[j + 1]) /\ f[j] \in Q /\ ss[j + 1] \in Q /\ Size(ss[j + 1]) <= m
    BY <1>1, <1>4, <2>2
  <2>4. /\ Size(f[j + 1]) = Size(f[j]) + Size(ss[j + 1])
        /\ Size(f[j]) \in Nat /\ Size(ss[j + 1]) \in Nat
    BY <1>5, <2>3
  <2>5. m * (j + 1) = m * j + m /\ m * j \in Nat
    OBVIOUS
  <2> QED BY <2>2, <2>3, <2>4, <2>5
<1>9. n \in T
  <2> HIDE DEF T
  <2> QED BY <1>1, <1>7, <1>8, Reaches
<1>10. n \in 0..n
  BY <1>1
<1> QED BY <1>1, <1>3, <1>4, <1>5, <1>9, <1>10 DEF n, Size, Q

\* A number takes five octets at most.
LEMMA NumberShort ==
    ASSUME NEW n, IsNumber(n)
    PROVE  Len(NumberOctets(n)) <= 5
<1> DEFINE w == WordOf(n)  p == VarUintPieces(w)
<1>1. w \in Word /\ NumberOctets(n) = Joined(p)
  BY SmallNumbers, NumberShape DEF IsNumber
<1>2. Leads(w, 4, 0)
  BY DEF WordOf, Leads
<1> HIDE DEF w
<1>3. CASE p = <<<<w[8]>>>>
  BY <1>1, <1>3 DEF Joined
<1>4. CASE p = <<<<128 + w[7], w[8]>>>>
  BY <1>1, <1>4 DEF Joined
<1>5. CASE p = Three(w)
  BY <1>1, <1>5 DEF Joined, Three
<1>6. CASE p = WithE1(w)
  <2> DEFINE t == Tail8(w, 4)  e == <<225>>
  <2>1. t \in Seq(Byte) /\ Len(t) = 4
    <3>1. t = [i \in 1..4 |-> w[8 - 4 + i]] /\ \A i \in 1..4 : w[8 - 4 + i] \in Byte
      BY <1>1 DEF Tail8, Word
    <3> HIDE DEF t
    <3> QED BY <3>1, SeqDef
  <2>2. e \in Seq(Byte) /\ Len(e) = 1
    BY DEF Byte
  <2>3. Joined(p) = e \o t
    <3>1. p = <<e, t>>
      BY <1>6 DEF WithE1
    <3> HIDE DEF e, t
    <3> QED BY <3>1 DEF Joined
  <2> HIDE DEF e, t
  <2>4. Len(e \o t) = 1 + 4
    <3>1. IsData(e) /\ IsData(t)
      BY <2>1, <2>2 DEF IsData
    <3>2. Len(e \o t) = Len(e) + Len(t)
      BY <3>1, DataBoth
    <3> QED BY <2>1, <2>2, <3>2
  <2> QED BY <1>1, <2>3, <2>4
<1>7. \/ p = <<<<w[8]>>>> \/ p = <<<<128 + w[7], w[8]>>>> \/ p = Three(w) \/ p = WithE1(w)
  BY <1>2, Zenon DEF VarUintPieces
<1> QED BY <1>3, <1>4, <1>5, <1>6, <1>7

\* The widths in the tables.
LEMMA TypesShort ==
    ASSUME NEW type \in Types
    PROVE  /\ Len(Primitives[type]) <= 15
           /\ \A i \in 1..Len(Primitives[type]) : Primitives[type][i] \in {0, 1, 2, 4}
<1> DEFINE Small(t) == Len(t) <= 15 /\ \A i \in 1..Len(t) : t[i] \in {0, 1, 2, 4}
<1>1. ASSUME NEW t, NEW n \in Nat, Wide(t, n), n <= 15 PROVE Small(t)
  <2>1. Len(t) = n /\ \A i \in 1..n : t[i] \in {1, 2, 4}
    BY <1>1 DEF Wide
  <2> QED BY <1>1, <2>1
<1>2. Small(<<0>>) /\ Small(<<0, 0>>)
  OBVIOUS
<1>3. Primitives["VarUint"] = <<0>> /\ Primitives["TextureUV1"] = <<0, 0>>
  BY DEF Primitives, TextureUV1
<1> HIDE DEF Small
<1>4. /\ Small(Primitives["Time1"]) /\ Small(Primitives["Boolean"]) /\ Small(Primitives["Float16"])
      /\ Small(Primitives["Loc1"]) /\ Small(Primitives["Loc2"]) /\ Small(Primitives["Norm1"])
      /\ Small(Primitives["Rot1"]) /\ Small(Primitives["Rot2"]) /\ Small(Primitives["Transform1"])
      /\ Small(Primitives["Thumb"]) /\ Small(Primitives["Finger"])
  BY <1>1, TypesWide
<1>5. type \in {"VarUint", "Time1", "Boolean", "Float16", "Loc1", "Loc2", "Norm1", "TextureUV1",
                "Rot1", "Rot2", "Transform1", "Thumb", "Finger"}
  BY DEF Types, Primitives
<1>6. Small(Primitives[type])
  BY <1>2, <1>3, <1>4, <1>5
<1> QED BY <1>6 DEF Small

\* The octets of a field.
LEMMA FieldShort ==
    ASSUME NEW type \in Types, NEW x \in FieldValues(type)
    PROVE  Len(FieldOctets(type, x)) \in Nat /\ Len(FieldOctets(type, x)) <= 75
<1> DEFINE table == Primitives[type]  n == Len(table)  ss == FieldParts(type, x)
<1>1. /\ n \in Nat /\ n <= 15 /\ \A i \in 1..n : table[i] \in {0, 1, 2, 4}
      /\ \A i \in 1..n : IsPrimitive(table[i], x[i])
  BY Table, TypesShort DEF FieldValues
<1>2. /\ FieldOctets(type, x) = FlattenSeq(ss) /\ ss \in Seq(Strings) /\ Len(ss) = n
      /\ \A i \in 1..n : ss[i] = PrimitiveOctets(table[i], x[i])
  BY FieldShape DEF FieldParts
<1> HIDE DEF ss, n, table
<1>3. ss \in Seq(Seq(Byte))
  BY <1>2, FlattenLonger
<1>4. ASSUME NEW i \in 1..n PROVE Len(ss[i]) <= 5
  <2> DEFINE w == table[i]  y == x[i]
  <2>1. w \in {0, 1, 2, 4} /\ IsPrimitive(w, y) /\ ss[i] = PrimitiveOctets(w, y)
    BY <1>1, <1>2
  <2> HIDE DEF w, y
  <2>2. CASE w = 0
    <3>1. IsNumber(y) /\ PrimitiveOctets(w, y) = NumberOctets(y)
      BY <2>1, <2>2, Zenon DEF IsPrimitive, SerializePrimitive, PrimitiveOctets, NumberOctets
    <3> QED BY <2>1, <3>1, NumberShort
  <2>3. CASE w # 0
    <3>a. w \in Nat \ {0} /\ w \in Nat /\ w <= 4
      BY <2>1, <2>3
    <3>1. y \in Byte /\ PrimitiveOctets(w, y) = Repeated(w, y)
      BY <2>1, <2>3, <3>a, PrimitiveShape, Zenon DEF IsPrimitive
    <3>2. Len(Repeated(w, y)) = w
      BY <3>1, <3>a, RepeatedShape
    <3>3. ss[i] = Repeated(w, y)
      BY <2>1, <3>1
    <3> QED BY <3>a, <3>2, <3>3
  <2> QED BY <2>2, <2>3
<1> DEFINE l == Len(FlattenSeq(ss))
<1>5. l \in Nat /\ l <= 5 * Len(ss)
  <2> DEFINE m == 5
  <2>1. m \in Nat /\ \A i \in 1..Len(ss) : Len(ss[i]) <= m
    BY <1>2, <1>4
  <2> HIDE DEF m, l
  <2>2. l \in Nat /\ l <= m * Len(ss)
    BY <1>3, <2>1, FlattenShort DEF l
  <2> QED BY <2>2 DEF m
<1>6. l <= 75
  <2> HIDE DEF l
  <2> QED BY <1>1, <1>2, <1>5
<1> QED BY <1>2, <1>5, <1>6

\* The kinds that have no vectors.
Short == {"Object1", "Head1", "Hand1", "Hand2"}

\* The fields of such a kind are few.
LEMMA FewFields ==
    ASSUME NEW kind \in Short
    PROVE  /\ kind \in Known /\ kind \in DOMAIN ReadFields /\ Len(ReadFields[kind]) <= 11
           /\ \A i \in 1..Len(ReadFields[kind]) : ~ReadFields[kind][i].many
<1> DEFINE Few(fields) == Len(fields) <= 11 /\ \A i \in 1..Len(fields) : ~fields[i].many
<1>1. Few(ReadHead1) /\ Few(ReadHand1) /\ Few(ReadObject1)
  BY DEF ReadHead1, ReadHand1, ReadObject1, Item
<1>2. Few(ReadHand2)
  BY SMTT(30) DEF ReadHand2, Item
<1> HIDE DEF Few
<1>3. Few(ReadFields[kind]) /\ kind \in Known /\ kind \in DOMAIN ReadFields
  BY <1>1, <1>2 DEF ReadFields, Short, Known
<1> QED BY <1>3 DEF Few

\* Their octets.
LEMMA RequiredShort ==
    ASSUME NEW kind \in Short, NEW v, HasRequired(kind, v)
    PROVE  Len(RequiredOctets(kind, v)) \in Nat /\ Len(RequiredOctets(kind, v)) <= 825
<1> DEFINE ss == RequiredParts(kind, v)  n == Len(ss)  r == ReadFields[kind]
<1>1. kind \in DOMAIN ReadFields /\ Len(r) <= 11 /\ \A i \in 1..Len(r) : ~r[i].many
  BY FewFields
<1>2. ss \in Seq(Seq(Byte)) /\ n = Len(r) /\ Len(r) \in Nat
  BY <1>1, RequiredShape, ItemTypes
<1>3. ASSUME NEW i \in 1..n PROVE Len(ss[i]) <= 75
  <2> DEFINE item == r[i]  x == v[item.name]
  <2>1. i \in 1..Len(r) /\ ~item.many /\ item.type \in Types /\ x \in ItemValues(item)
    BY <1>1, <1>2, ItemTypes DEF HasRequired
  <2>2. ss[i] = ItemOctets(item, x)
    BY <2>1 DEF RequiredParts
  <2> HIDE DEF item, x, ss
  <2>3. x \in FieldValues(item.type) /\ ItemOctets(item, x) = FieldOctets(item.type, x)
    BY <2>1, Zenon DEF ItemValues, ItemOctets
  <2> QED BY <2>1, <2>2, <2>3, FieldShort
<1> DEFINE l == Len(FlattenSeq(ss))  m == 75
<1>4. l \in Nat /\ l <= m * n
  <2>1. m \in Nat /\ \A i \in 1..n : Len(ss[i]) <= m
    BY <1>3
  <2> HIDE DEF m, l, ss
  <2> QED BY <1>2, <2>1, FlattenShort DEF l
<1>5. l <= 825
  <2> HIDE DEF l, n
  <2> QED BY <1>1, <1>2, <1>4
<1> QED BY <1>4, <1>5 DEF RequiredOctets

\* The octets of the optional one.
LEMMA OptionalShort ==
    ASSUME NEW kind, NEW v,
           kind \in DOMAIN OptionalOf => v[OptionalOf[kind].name] \in ValuesOf(OptionalOf[kind])
    PROVE  Len(OptionalOctets(kind, v)) <= 75
<1>1. CASE OptionalOctets(kind, v) = <<>>
  BY <1>1
<1>2. CASE kind = "Head1" /\ v.ipd # <<>> /\ OptionalOctets(kind, v) = IPDOctets(v.ipd[1])
  <2> DEFINE F == FieldValues("Float16")  x == v.ipd[1]  body == FieldOctets("Float16", x)
  <2>1. v.ipd \in Seq(F) /\ Len(v.ipd) <= 1
    BY <1>2 DEF OptionalOf, Optional, ValuesOf, OptionalValues
  <2>2. x \in F
    <3> HIDE DEF F
    <3> QED BY <1>2, <2>1
  <2> HIDE DEF x
  <2>3. Len(body) = 2 /\ IsData(body) /\ IsNumber(Len(body)) /\ IsNumber(TagOf["HeadIPD1"])
    BY <2>2, Float16Octets, IPDShape
  <2> DEFINE tag == TagOf["HeadIPD1"]
  <2> HIDE DEF body, tag, F
  <2>4. Len(Framed(tag, body)) = Len(NumberOctets(tag)) + (Len(NumberOctets(Len(body))) + Len(body))
    BY <2>3, FramedShape DEF tag
  <2>5. Len(NumberOctets(tag)) <= 5 /\ Len(NumberOctets(Len(body))) <= 5
        /\ Len(NumberOctets(tag)) \in Nat /\ Len(NumberOctets(Len(body))) \in Nat
    BY <2>3, NumberShort, NumberShape DEF tag
  <2>6. OptionalOctets(kind, v) = Framed(tag, body)
    BY <1>2 DEF IPDOctets, tag, body, x
  <2> DEFINE i == Len(NumberOctets(tag))  j == Len(NumberOctets(Len(body)))  k == Len(Framed(tag, body))  l == Len(body)
  <2>7. k <= 75
    <3>1. i \in Nat /\ j \in Nat /\ i <= 5 /\ j <= 5 /\ l = 2 /\ k = i + (j + l)
      BY <2>3, <2>4, <2>5
    <3> HIDE DEF i, j, k, l
    <3> QED BY <3>1
  <2> QED BY <2>6, <2>7
<1>3. CASE kind = "Object1" /\ v.parent # <<>> /\ OptionalOctets(kind, v) = FieldOctets("VarUint", v.parent[1])
  <2> DEFINE F == FieldValues("VarUint")  x == v.parent[1]
  <2>1. v.parent \in Seq(F) /\ Len(v.parent) <= 1
    BY <1>3 DEF OptionalOf, Optional, ValuesOf, OptionalValues
  <2>2. x \in F
    <3> HIDE DEF F
    <3> QED BY <1>3, <2>1
  <2>3. "VarUint" \in Types
    BY DEF Types, Primitives
  <2> HIDE DEF x
  <2> QED BY <1>3, <2>2, <2>3, FieldShort DEF x
<1> QED BY <1>1, <1>2, <1>3 DEF OptionalOctets

\* The octets of the object, without the header.
LEMMA BodyShort ==
    ASSUME NEW kind \in Short, NEW v, HasFields(v, WrittenFields[kind])
    PROVE  Length(SerializeAll(WrittenFields[kind], v)) < Huge
<1> DEFINE a == RequiredOctets(kind, v)  b == OptionalOctets(kind, v)
<1>1. /\ HasRequired(kind, v) /\ IsData(a) /\ IsData(b)
      /\ kind \in DOMAIN OptionalOf => v[OptionalOf[kind].name] \in ValuesOf(OptionalOf[kind])
      /\ FlattenSeq(SerializeAll(WrittenFields[kind], v)) = a \o b
  BY FewFields, AllOctets
<1>2. Len(a) <= 825 /\ Len(b) <= 75
  BY <1>1, RequiredShort, OptionalShort
<1> HIDE DEF a, b
<1>3. Len(a \o b) = Len(a) + Len(b) /\ Len(a) \in Nat /\ Len(b) \in Nat
  BY <1>1, DataBoth
<1> DEFINE i == Len(a)  j == Len(b)  k == Len(a \o b)
<1>4. k < Huge
  <2>1. i \in Nat /\ j \in Nat /\ i <= 825 /\ j <= 75 /\ k = i + j
    BY <1>2, <1>3
  <2> HIDE DEF i, j, k
  <2> QED BY <2>1 DEF Huge
<1> QED BY <1>1, <1>4 DEF Length, Octets

-----------------------------------------------------------------------------
(* The arrays of the C API, and every object as one of the library.        *)

\* The elements a pointer leads to.
LEMMA ElementsShape ==
    ASSUME NEW p, NEW n, NEW at, NEW type, PointsTo(p, n, at, type)
    PROVE  /\ Elements(at, p, n) \in Seq(type) /\ Len(Elements(at, p, n)) = n
           /\ n \in Nat /\ n < Huge
<1>1. n \in Nat /\ n < Huge
  BY DEF PointsTo, Number, IsNumber
<1>2. CASE n = 0
  <2>1. Elements(at, p, n) = <<>>
    BY <1>2 DEF Elements
  <2>2. <<>> \in Seq(type) /\ Len(<<>>) = 0
    OBVIOUS
  <2> QED BY <1>1, <1>2, <2>1, <2>2, Zenon
<1>3. CASE n # 0
  <2> DEFINE a == at[p]  l == Len(a)
  <2>1. a \in Seq(type) /\ n <= l
    BY <1>3 DEF PointsTo
  <2>2. l \in Nat
    BY <2>1, LenProperties
  <2>3. Elements(at, p, n) = SubSeq(a, 1, n)
    BY <1>3 DEF Elements
  <2> HIDE DEF a
  <2>4. \A i \in 1..n : a[i] \in type
    BY <1>1, <2>1, <2>2
  <2>5. SubSeq(a, 1, n) \in Seq(type) /\ Len(SubSeq(a, 1, n)) = n
    BY <1>1, <2>1, <2>2, <2>4
  <2> QED BY <1>1, <2>3, <2>5
<1> QED BY <1>1, <1>2, <1>3

\* The copies of the elements of a sequence are values of a vector.
LEMMA CopiesVector ==
    ASSUME NEW type, NEW S, NEW s \in Seq(S), Len(s) < Huge, NEW t,
           t = [i \in 1..Len(s) |-> t[i]], \A i \in 1..Len(s) : t[i] \in FieldValues(type)
    PROVE  t \in VectorValues(type)
<1> DEFINE n == Len(s)  F == FieldValues(type)
<1>1. n \in Nat /\ n < Huge
  BY LenProperties
<1>2. t = [i \in 1..n |-> t[i]] /\ \A i \in 1..n : t[i] \in F
  OBVIOUS
<1> HIDE DEF n, F
<1>3. t \in [1..n -> F]
  BY <1>2
<1>4. t \in Seq(F) /\ Len(t) = n
  BY <1>1, <1>3, SeqDef
<1> QED BY <1>1, <1>4 DEF VectorValues, F

\* The arrays of a mesh.
MeshArray(g, at, name) ==
    CASE name = "vertices"  -> Elements(at, g.vertices, g.num_vertices)
      [] name = "normals"   -> Elements(at, g.normals, g.num_normals)
      [] name = "textures"  -> Elements(at, g.textures, g.num_textures)
      [] name = "triangles" -> Elements(at, g.triangles, g.num_triangles)

\* Such arrays, and the object that is made of them.
MeshMade(g, v, a, b, c, d) ==
    /\ a \in Seq(GSLoc1) /\ Len(a) < Huge /\ Len(a) = g.num_vertices
    /\ b \in Seq(GSNorm1) /\ Len(b) < Huge /\ Len(b) = g.num_normals
    /\ c \in Seq(GSTextureUV1) /\ Len(c) < Huge /\ Len(c) = g.num_textures
    /\ d \in Seq(Number) /\ Len(d) < Huge /\ Len(d) = g.num_triangles
    /\ v.kind = "Mesh1" /\ v.id = <<g.id>> /\ g.id \in Number
    /\ v.vertices = [i \in 1..Len(a) |-> SerializeCopyLoc1(a[i])]
    /\ v.normals = [i \in 1..Len(b) |-> SerializeCopyNorm1(b[i])]
    /\ v.textures = [i \in 1..Len(c) |-> SerializeCopyTextureUV1(c[i])]
    /\ v.triangles = [i \in 1..Len(d) |-> <<d[i]>>]

\* What they are, and the vectors that are made of them.
LEMMA MeshCopies ==
    ASSUME NEW g, NEW at, IsGSMesh1(g, at), NEW v, v = SerializeMesh1(g, at),
           NEW a, a = MeshArray(g, at, "vertices"), NEW b, b = MeshArray(g, at, "normals"),
           NEW c, c = MeshArray(g, at, "textures"), NEW d, d = MeshArray(g, at, "triangles")
    PROVE  MeshMade(g, v, a, b, c, d)
<1>1. /\ PointsTo(g.vertices, g.num_vertices, at, GSLoc1)
      /\ PointsTo(g.normals, g.num_normals, at, GSNorm1)
      /\ PointsTo(g.textures, g.num_textures, at, GSTextureUV1)
      /\ PointsTo(g.triangles, g.num_triangles, at, Number) /\ g.id \in Number
  BY DEF IsGSMesh1
<1>2. /\ a = Elements(at, g.vertices, g.num_vertices) /\ b = Elements(at, g.normals, g.num_normals)
      /\ c = Elements(at, g.textures, g.num_textures) /\ d = Elements(at, g.triangles, g.num_triangles)
  BY DEF MeshArray
<1>3. /\ a \in Seq(GSLoc1) /\ Len(a) < Huge /\ Len(a) = g.num_vertices
      /\ b \in Seq(GSNorm1) /\ Len(b) < Huge /\ Len(b) = g.num_normals
      /\ c \in Seq(GSTextureUV1) /\ Len(c) < Huge /\ Len(c) = g.num_textures
      /\ d \in Seq(Number) /\ Len(d) < Huge /\ Len(d) = g.num_triangles
  BY <1>1, <1>2, ElementsShape
<1>4. /\ v.kind = "Mesh1" /\ v.id = <<g.id>> /\ v.vertices = Mapped(SerializeCopyLoc1, a)
      /\ v.normals = Mapped(SerializeCopyNorm1, b) /\ v.textures = Mapped(SerializeCopyTextureUV1, c)
      /\ v.triangles = [i \in 1..g.num_triangles |-> <<at[g.triangles][i]>>]
  BY <1>2 DEF SerializeMesh1
<1>5. \A i \in 1..Len(d) : at[g.triangles][i] = d[i]
  <2>1. CASE g.num_triangles = 0
    BY <1>3, <2>1
  <2>2. CASE g.num_triangles # 0
    <3> DEFINE n == g.num_triangles  s == at[g.triangles]
    <3>1. d = SubSeq(s, 1, n) /\ n \in Nat
      BY <1>1, <1>2, <2>2, ElementsShape DEF Elements
    <3>2. s \in Seq(Number) /\ n <= Len(s)
      BY <1>1, <2>2 DEF PointsTo
    <3> HIDE DEF n, s
    <3>3. \A i \in 1..n : SubSeq(s, 1, n)[i] = s[i]
      BY <3>1, <3>2
    <3> QED BY <1>3, <3>1, <3>3 DEF n, s
  <2> QED BY <2>1, <2>2
<1>6. v.triangles = [i \in 1..Len(d) |-> <<d[i]>>]
  BY <1>3, <1>4, <1>5
<1>7. /\ v.vertices = [i \in 1..Len(a) |-> SerializeCopyLoc1(a[i])]
      /\ v.normals = [i \in 1..Len(b) |-> SerializeCopyNorm1(b[i])]
      /\ v.textures = [i \in 1..Len(c) |-> SerializeCopyTextureUV1(c[i])]
  BY <1>3, <1>4 DEF Mapped
<1> QED BY <1>1, <1>3, <1>4, <1>6, <1>7, Zenon DEF MeshMade

\* They are vectors of the library.
LEMMA MeshVectors ==
    ASSUME NEW g, NEW at, IsGSMesh1(g, at), NEW v, v = SerializeMesh1(g, at)
    PROVE  /\ v.id \in FieldValues("VarUint")
           /\ v.vertices \in VectorValues("Loc1") /\ v.normals \in VectorValues("Norm1")
           /\ v.textures \in VectorValues("TextureUV1") /\ v.triangles \in VectorValues("VarUint")
<1> DEFINE a == MeshArray(g, at, "vertices")  b == MeshArray(g, at, "normals")
           c == MeshArray(g, at, "textures")  d == MeshArray(g, at, "triangles")
<1>1. /\ a \in Seq(GSLoc1) /\ Len(a) < Huge /\ b \in Seq(GSNorm1) /\ Len(b) < Huge
      /\ c \in Seq(GSTextureUV1) /\ Len(c) < Huge /\ d \in Seq(Number) /\ Len(d) < Huge
      /\ v.id = <<g.id>> /\ g.id \in Number
      /\ v.vertices = [i \in 1..Len(a) |-> SerializeCopyLoc1(a[i])]
      /\ v.normals = [i \in 1..Len(b) |-> SerializeCopyNorm1(b[i])]
      /\ v.textures = [i \in 1..Len(c) |-> SerializeCopyTextureUV1(c[i])]
      /\ v.triangles = [i \in 1..Len(d) |-> <<d[i]>>]
  <2>1. MeshMade(g, v, a, b, c, d)
    BY MeshCopies
  <2> HIDE DEF a, b, c, d
  <2> QED BY <2>1, Zenon DEF MeshMade
<1> HIDE DEF a, b, c, d
<1>2. v.vertices \in VectorValues("Loc1")
  <2>1. \A i \in 1..Len(a) : a[i] \in GSLoc1
    BY <1>1, ElementOfSeq
  <2>2. \A i \in 1..Len(a) : v.vertices[i] \in FieldValues("Loc1")
    BY <1>1, <2>1, SmallCopies
  <2> QED BY <1>1, <2>2, CopiesVector
<1>3. v.normals \in VectorValues("Norm1")
  <2>1. \A i \in 1..Len(b) : b[i] \in GSNorm1
    BY <1>1, ElementOfSeq
  <2>2. \A i \in 1..Len(b) : v.normals[i] \in FieldValues("Norm1")
    BY <1>1, <2>1, SmallCopies
  <2> QED BY <1>1, <2>2, CopiesVector
<1>4. v.textures \in VectorValues("TextureUV1")
  <2>1. \A i \in 1..Len(c) : c[i] \in GSTextureUV1
    BY <1>1, ElementOfSeq
  <2>2. \A i \in 1..Len(c) : v.textures[i] \in FieldValues("TextureUV1")
    BY <1>1, <2>1, SmallCopies
  <2> QED BY <1>1, <2>2, CopiesVector
<1>5. v.triangles \in VectorValues("VarUint")
  <2>1. \A i \in 1..Len(d) : d[i] \in Number
    BY <1>1, ElementOfSeq
  <2>2. \A i \in 1..Len(d) : v.triangles[i] \in FieldValues("VarUint")
    BY <1>1, <2>1, FieldOfNumbers
  <2> QED BY <1>1, <2>2, CopiesVector
<1>6. v.id \in FieldValues("VarUint")
  BY <1>1, FieldOfNumbers
<1> QED BY <1>2, <1>3, <1>4, <1>5, <1>6

\* A Mesh1 as an object of the library.
LEMMA Mesh1Fields ==
    ASSUME NEW g, NEW at, IsGSMesh1(g, at)
    PROVE  HasFields(SerializeMesh1(g, at), Mesh1Written)
<1> DEFINE v == SerializeMesh1(g, at)
           names == {"id", "vertices", "normals", "textures", "triangles"}
           a == One("id", "VarUint")
           b == Vector("vertices", "Loc1")
           c == Vector("normals", "Norm1")
           d == Vector("textures", "TextureUV1")
           e == Vector("triangles", "VarUint")
           fields == <<a, b, c, d, e>>
<1>2. v = [m \in {"kind"} \cup names |-> v[m]]
  BY DEF SerializeMesh1
<1>3. fields = Mesh1Written
  BY DEF Mesh1Written
<1>4. \A m : m \in names <=> m = a.name \/ m = b.name \/ m = c.name \/ m = d.name \/ m = e.name
  BY DEF One, Vector
<1> HIDE DEF v, names
<1>5. /\ v.id \in FieldValues("VarUint")
      /\ v.vertices \in VectorValues("Loc1") /\ v.normals \in VectorValues("Norm1")
      /\ v.textures \in VectorValues("TextureUV1") /\ v.triangles \in VectorValues("VarUint")
  BY MeshVectors DEF v
<1>6. /\ v[a.name] \in ValuesOf(a) /\ v[b.name] \in ValuesOf(b) /\ v[c.name] \in ValuesOf(c)
      /\ v[d.name] \in ValuesOf(d) /\ v[e.name] \in ValuesOf(e)
  BY <1>5, OneValue, VectorValue
<1> HIDE DEF a, b, c, d, e
<1>7. /\ DOMAIN fields = 1..5
      /\ \A i \in 1..5 : (i = 1 /\ fields[i] = a) \/ (i = 2 /\ fields[i] = b) \/ (i = 3 /\ fields[i] = c) \/
              (i = 4 /\ fields[i] = d) \/ (i = 5 /\ fields[i] = e)
  OBVIOUS
<1>8. /\ fields[1] = a /\ fields[2] = b /\ fields[3] = c /\ fields[4] = d
      /\ fields[5] = e
  OBVIOUS
<1> HIDE DEF fields
<1>9. \A i \in 1..5 : v[fields[i].name] \in ValuesOf(fields[i])
  BY <1>6, <1>7
<1>10. \A m : m \in names <=> \E i \in 1..5 : fields[i].name = m
  BY <1>4, <1>7, <1>8
<1>11. HasFields(v, fields)
  <2>1. \A i \in 1..5 : v[fields[i].name] \in ValuesOf(fields[i])
    BY <1>9
  <2>2. DOMAIN fields = 1..5 /\ 5 \in Nat
    BY <1>7
  <2> QED BY <1>2, <1>10, <2>1, <2>2, FieldsFound, Zenon
<1> QED BY <1>3, <1>11 DEF v

\* A HeadIPD1 as an object of the library.
LEMMA HeadIPDFields ==
    ASSUME NEW g \in GSHeadIPD1
    PROVE  HasFields(SerializeHeadIPD(g), <<One("ipd", "Float16")>>)
<1> DEFINE v == SerializeHeadIPD(g)  f == One("ipd", "Float16")  fields == <<f>>  names == {"ipd"}
<1>1. g.ipd \in Byte
  BY DEF GSHeadIPD1
<1>2. v.ipd = <<g.ipd>> /\ v = [m \in {"kind"} \cup names |-> v[m]]
  BY DEF SerializeHeadIPD
<1> HIDE DEF v
<1>3. v[f.name] \in ValuesOf(f)
  <2>1. v.ipd \in FieldValues("Float16")
    BY <1>1, <1>2, FieldOfOctet
  <2> QED BY <2>1, OneValue
<1>4. \A m : m \in names <=> m = f.name
  BY DEF One
<1> HIDE DEF f, names
<1>5. DOMAIN fields = 1..1 /\ \A i \in 1..1 : fields[i] = f
  OBVIOUS
<1> HIDE DEF fields
<1>6. \A i \in 1..1 : v[fields[i].name] \in ValuesOf(fields[i])
  BY <1>3, <1>5
<1>7. \A m : m \in names <=> \E i \in 1..1 : fields[i].name = m
  BY <1>4, <1>5
<1> QED BY <1>2, <1>5, <1>6, <1>7, FieldsFound DEF v, fields, f, names

\* Octets that are not understood as an object of the library.
LEMMA UnknownFields ==
    ASSUME NEW g, NEW at, IsGSUnknownObject(g, at), g.tag \in Number \ {0},
           \A kind \in Kinds : g.tag # TagOf[kind]
    PROVE  IsUnknown(SerializeUnknown(g, at))
<1> DEFINE v == SerializeUnknown(g, at)  a == Elements(at, g.data, g.data_length)
<1>1. a \in Seq(Byte) /\ Len(a) < Huge
  BY ElementsShape DEF IsGSUnknownObject
<1> HIDE DEF a
<1>2. v = [kind |-> "Unknown", tag |-> g.tag, data |-> a]
  BY DEF SerializeUnknown, a
<1>3. IsNumber(g.tag) /\ g.tag # 0
  BY DEF Number
<1>4. v.tag = g.tag /\ v.data = a /\ v = [kind |-> "Unknown", tag |-> v.tag, data |-> v.data]
  BY <1>2
<1> HIDE DEF v
<1> QED BY <1>1, <1>3, <1>4 DEF IsUnknown, v

\* The type of a GS_Object and the kind of its object.
LEMMA KindTags ==
    /\ \A i, j \in Kinds : TagOf[i] = TagOf[j] => i = j
    /\ \A kind \in Kinds : TagOf[kind] # 0
    /\ \A t : (\A kind \in Kinds : t # TagOf[kind]) <=>
                /\ t # TagOf["Object1"] /\ t # TagOf["Head1"] /\ t # TagOf["Hand1"]
                /\ t # TagOf["Mesh1"] /\ t # TagOf["Hand2"] /\ t # TagOf["HeadIPD1"]
  BY DEF Kinds, TagOf

\* The library's object of that kind that a GS_Object becomes.
Becomes(o, at, v) ==
    \/ /\ o.type = TagOf["Object1"] /\ o.u \in GSObject1 /\ v = SerializeObject1(o.u)
    \/ /\ o.type = TagOf["Head1"] /\ o.u \in GSHead1 /\ v = SerializeHead1(o.u)
    \/ /\ o.type = TagOf["Hand1"] /\ o.u \in GSHand1 /\ v = SerializeHand1(o.u)
    \/ /\ o.type = TagOf["Mesh1"] /\ IsGSMesh1(o.u, at) /\ v = SerializeMesh1(o.u, at)
       /\ Length(SerializeAll(Mesh1Written, v)) < Huge
    \/ /\ o.type = TagOf["Hand2"] /\ o.u \in GSHand2 /\ v = SerializeHand2(o.u)
    \/ /\ o.type = TagOf["HeadIPD1"] /\ o.u \in GSHeadIPD1 /\ v = SerializeHeadIPD(o.u)
    \/ /\ \A kind \in Kinds : o.type # TagOf[kind]
       /\ o.type \in Number \ {0} /\ o.u.tag = o.type /\ IsGSUnknownObject(o.u, at)
       /\ v = SerializeUnknown(o.u, at)

\* The cases of a GS_Object.
LEMMA ObjectCases ==
    ASSUME NEW o, NEW at
    PROVE  /\ IsGSObject(o, at) => Becomes(o, at, GSSerialize(o, at)) /\ o = [type |-> o.type, u |-> o.u]
           /\ \A v : Becomes(o, at, v) /\ o = [type |-> o.type, u |-> o.u] =>
                        IsGSObject(o, at) /\ v = GSSerialize(o, at)
<1>1. /\ TagOf["Object1"] = 3 /\ TagOf["Head1"] = 1 /\ TagOf["Hand1"] = 2
      /\ TagOf["Mesh1"] = 32768 /\ TagOf["Hand2"] = 32769 /\ TagOf["HeadIPD1"] = 32770
  BY DEF TagOf
<1>2. \A t : (\A kind \in Kinds : t # TagOf[kind]) <=>
                t # 3 /\ t # 1 /\ t # 2 /\ t # 32768 /\ t # 32769 /\ t # 32770
  BY <1>1, KindTags
<1>3. IsGSObject(o, at) => Becomes(o, at, GSSerialize(o, at)) /\ o = [type |-> o.type, u |-> o.u]
  BY <1>1, <1>2 DEF IsGSObject, Becomes, GSSerialize
<1>4. ASSUME NEW v, Becomes(o, at, v), o = [type |-> o.type, u |-> o.u]
      PROVE  IsGSObject(o, at) /\ v = GSSerialize(o, at)
  BY <1>1, <1>2, <1>4 DEF IsGSObject, Becomes, GSSerialize
<1> QED BY <1>3, <1>4

\* What a caller encodes is an object of the library.
LEMMA SerializedIsObject ==
    ASSUME NEW o, NEW at, IsGSObject(o, at), NEW v, v = GSSerialize(o, at)
    PROVE  IsObject(v) /\ o.type # 0
<1>1. Becomes(o, at, v)
  BY ObjectCases
<1>2. o.type # 0
  BY <1>1, KindTags DEF Becomes, Kinds
<1>3. ASSUME NEW kind \in Short, v.kind = kind, HasFields(v, WrittenFields[kind]) PROVE IsObject(v)
  <2>1. kind \in DOMAIN WrittenFields /\ kind # "Unknown" /\ kind # "HeadIPD1"
    BY KindsAreRead, FewFields
  <2>2. Length(SerializeAll(WrittenFields[kind], v)) < Huge
    BY <1>3, BodyShort
  <2> QED BY <1>3, <2>1, <2>2 DEF IsObject
<1>4. /\ WrittenFields["Object1"] = Object1Written /\ WrittenFields["Head1"] = Head1Written
      /\ WrittenFields["Hand1"] = Hand1Written /\ WrittenFields["Hand2"] = Hand2Written
      /\ WrittenFields["Mesh1"] = Mesh1Written /\ "Mesh1" \in DOMAIN WrittenFields
      /\ {"Object1", "Head1", "Hand1", "Hand2"} = Short
  BY DEF WrittenFields, Short
<1>5. CASE o.u \in GSObject1 /\ v = SerializeObject1(o.u)
  <2>1. v.kind = "Object1"
    BY <1>5 DEF SerializeObject1
  <2> QED BY <1>2, <1>3, <1>4, <1>5, <2>1, Object1Fields
<1>6. CASE o.u \in GSHead1 /\ v = SerializeHead1(o.u)
  <2>1. v.kind = "Head1"
    BY <1>6 DEF SerializeHead1
  <2> QED BY <1>2, <1>3, <1>4, <1>6, <2>1, Head1Fields
<1>7. CASE o.u \in GSHand1 /\ v = SerializeHand1(o.u)
  <2>1. v.kind = "Hand1"
    BY <1>7 DEF SerializeHand1
  <2> QED BY <1>2, <1>3, <1>4, <1>7, <2>1, Hand1Fields
<1>8. CASE o.u \in GSHand2 /\ v = SerializeHand2(o.u)
  <2>1. v.kind = "Hand2"
    BY <1>8 DEF SerializeHand2
  <2> QED BY <1>2, <1>3, <1>4, <1>8, <2>1, Hand2Fields
<1>9. CASE /\ IsGSMesh1(o.u, at) /\ v = SerializeMesh1(o.u, at)
           /\ Length(SerializeAll(Mesh1Written, v)) < Huge
  <2>1. v.kind = "Mesh1" /\ HasFields(v, Mesh1Written)
    BY <1>9, Mesh1Fields DEF SerializeMesh1
  <2> QED BY <1>2, <1>4, <1>9, <2>1 DEF IsObject
<1>10. CASE o.u \in GSHeadIPD1 /\ v = SerializeHeadIPD(o.u)
  <2>1. v.kind = "HeadIPD1"
    BY <1>10 DEF SerializeHeadIPD
  <2>2. HasFields(v, <<One("ipd", "Float16")>>)
    BY <1>10, HeadIPDFields
  <2> QED BY <1>2, <2>1, <2>2, KindsAreRead DEF IsObject
<1>11. CASE /\ \A kind \in Kinds : o.type # TagOf[kind]
            /\ o.type \in Number \ {0} /\ o.u.tag = o.type /\ IsGSUnknownObject(o.u, at)
            /\ v = SerializeUnknown(o.u, at)
  <2>1. v.kind = "Unknown"
    BY <1>11 DEF SerializeUnknown
  <2>2. IsUnknown(v)
    BY <1>11, UnknownFields
  <2> QED BY <1>2, <2>1, <2>2, KindsAreRead DEF IsObject
<1> QED BY <1>1, <1>2, <1>5, <1>6, <1>7, <1>8, <1>9, <1>10, <1>11 DEF Becomes

-----------------------------------------------------------------------------
(* What is decoded tells the caller what was encoded.                      *)

\* A Boolean is 0 or 1 once it has been one.
LEMMA BoolTwice ==
    \A a : Bool(a) \in Byte /\ Bool(Bool(a)) = Bool(a) /\ (Bool(a) = 0 <=> a = 0) /\ Bool(0) = 0 /\ Bool(1) = 1
  BY DEF Bool, Byte

\* What a Head1 tells.
ToldHead1(g) ==
    [g EXCEPT !.ipd_present = Bool(@), !.ipd = IF g.ipd_present = 0 THEN [ipd |-> 0] ELSE @]

\* Its fields.
LEMMA ToldHead1Fields ==
    ASSUME NEW a, NEW b, NEW c, NEW d, NEW e, NEW f, NEW z, z = IF e = 0 THEN 0 ELSE f,
           NEW g, g = [id |-> a, time |-> b, location |-> c, rotation |-> d, ipd_present |-> e,
                       ipd |-> [ipd |-> f]],
           NEW h, h = ToldHead1(g)
    PROVE  h = [id |-> a, time |-> b, location |-> c, rotation |-> d, ipd_present |-> Bool(e),
                ipd |-> [ipd |-> z]]
<1>1. h = [n \in {"id", "time", "location", "rotation", "ipd_present", "ipd"} |-> h[n]]
  BY DEF ToldHead1
<1>2. h = [id |-> h.id, time |-> h.time, location |-> h.location, rotation |-> h.rotation,
           ipd_present |-> h.ipd_present, ipd |-> h.ipd]
  BY ONLY <1>1
<1>3. h.id = a /\ h.time = b /\ h.location = c /\ h.rotation = d /\ h.ipd_present = Bool(e)
      /\ h.ipd = [ipd |-> z]
  BY DEF ToldHead1
<1> QED BY <1>2, <1>3

\* A Head1 there and back.
LEMMA Head1Back ==
    ASSUME NEW g \in GSHead1, NEW m, m = DeserializeHead1(SerializeHead1(g))
    PROVE  m \in GSHead1 /\ m = ToldHead1(g) /\ m = ToldHead1(m)
<1>1. /\ g.id \in Number /\ g.time \in Byte /\ g.location \in GSLoc2 /\ g.rotation \in GSRot2
      /\ g.ipd_present \in Byte /\ g.ipd = [ipd |-> g.ipd.ipd] /\ g.ipd.ipd \in Byte
      /\ g = [id |-> g.id, time |-> g.time, location |-> g.location, rotation |-> g.rotation,
              ipd_present |-> g.ipd_present, ipd |-> g.ipd]
  BY DEF GSHead1, GSHeadIPD1
<1> DEFINE a == g.id  b == g.time  c == g.location  d == g.rotation  e == g.ipd_present  f == g.ipd.ipd
           z == IF e = 0 THEN 0 ELSE f  y == Bool(e)
<1>2. ToldHead1(g) = [id |-> a, time |-> b, location |-> c, rotation |-> d, ipd_present |-> y,
                      ipd |-> [ipd |-> z]]
  <2>1. g = [id |-> a, time |-> b, location |-> c, rotation |-> d, ipd_present |-> e, ipd |-> [ipd |-> f]]
    BY <1>1
  <2> HIDE DEF a, b, c, d, e, f
  <2> QED BY <2>1, ToldHead1Fields
<1>3. m = [id |-> a, time |-> b, location |-> c, rotation |-> d, ipd_present |-> y, ipd |-> [ipd |-> z]]
  <2>1. DeserializeCopyLoc2(SerializeCopyLoc2(c)) = c /\ DeserializeCopyRot2(SerializeCopyRot2(d)) = d
    BY <1>1, SmallCopies
  <2> DEFINE v == SerializeHead1(g)
  <2>2. /\ v.id[1] = a /\ v.time[1] = b /\ v.location = SerializeCopyLoc2(c)
        /\ v.rotation = SerializeCopyRot2(d) /\ v.ipd = IF e # 0 THEN <<<<f>>>> ELSE <<>>
    BY DEF SerializeHead1
  <2>3. /\ (IF v.ipd # <<>> THEN 1 ELSE 0) = y
        /\ (IF v.ipd # <<>> THEN v.ipd[1][1] ELSE 0) = z
    BY <2>2 DEF Bool
  <2> HIDE DEF v, a, b, c, d, e, f, z, y
  <2> QED BY <2>1, <2>2, <2>3 DEF DeserializeHead1, v
<1>4. z \in Byte /\ y \in Byte /\ Bool(y) = y /\ z = IF y = 0 THEN 0 ELSE z
  BY <1>1, BoolTwice DEF Byte
<1>5. m \in GSHead1
  <2> HIDE DEF z, y
  <2> QED BY <1>1, <1>3, <1>4 DEF GSHead1, GSHeadIPD1
<1>6. ToldHead1(m) = [id |-> a, time |-> b, location |-> c, rotation |-> d, ipd_present |-> Bool(y),
                      ipd |-> [ipd |-> z]]
  <2> HIDE DEF a, b, c, d, z, y
  <2> QED BY <1>3, <1>4, ToldHead1Fields
<1> QED BY <1>2, <1>3, <1>4, <1>5, <1>6

\* What an Object1 tells.
ToldObject1(g) ==
    [g EXCEPT !.active = Bool(@), !.parent_present = Bool(@),
              !.parent = IF g.parent_present = 0 THEN 0 ELSE @]

\* Its fields.
LEMMA ToldObject1Fields ==
    ASSUME NEW a, NEW b, NEW c, NEW d, NEW e, NEW f, NEW i, NEW j, NEW z, z = IF i = 0 THEN 0 ELSE j,
           NEW g, g = [id |-> a, time |-> b, position |-> c, rotation |-> d, scale |-> e, active |-> f,
                       parent_present |-> i, parent |-> j],
           NEW h, h = ToldObject1(g)
    PROVE  h = [id |-> a, time |-> b, position |-> c, rotation |-> d, scale |-> e, active |-> Bool(f),
                parent_present |-> Bool(i), parent |-> z]
<1>1. h = [n \in {"id", "time", "position", "rotation", "scale", "active", "parent_present", "parent"} |-> h[n]]
  BY DEF ToldObject1
<1>2. h = [id |-> h.id, time |-> h.time, position |-> h.position, rotation |-> h.rotation,
           scale |-> h.scale, active |-> h.active, parent_present |-> h.parent_present,
           parent |-> h.parent]
  BY ONLY <1>1
<1>3. h.id = a /\ h.time = b /\ h.position = c /\ h.rotation = d /\ h.scale = e /\ h.active = Bool(f)
      /\ h.parent_present = Bool(i) /\ h.parent = z
  BY DEF ToldObject1
<1> QED BY <1>2, <1>3

\* An Object1 there and back.
LEMMA Object1Back ==
    ASSUME NEW g \in GSObject1, NEW m, m = DeserializeObject1(SerializeObject1(g))
    PROVE  m \in GSObject1 /\ m = ToldObject1(g) /\ m = ToldObject1(m)
<1>1. /\ g.id \in Number /\ g.time \in Byte /\ g.position \in GSLoc1 /\ g.rotation \in GSRot1
      /\ g.scale \in GSLoc1 /\ g.active \in Byte /\ g.parent_present \in Byte /\ g.parent \in Number
      /\ g = [id |-> g.id, time |-> g.time, position |-> g.position, rotation |-> g.rotation,
              scale |-> g.scale, active |-> g.active, parent_present |-> g.parent_present,
              parent |-> g.parent]
  BY DEF GSObject1
<1> DEFINE a == g.id  b == g.time  c == g.position  d == g.rotation  e == g.scale  f == g.active
           i == g.parent_present  j == g.parent  z == IF i = 0 THEN 0 ELSE j  x == Bool(f)  y == Bool(i)
<1>2. ToldObject1(g) = [id |-> a, time |-> b, position |-> c, rotation |-> d, scale |-> e, active |-> x,
                        parent_present |-> y, parent |-> z]
  <2>1. g = [id |-> a, time |-> b, position |-> c, rotation |-> d, scale |-> e, active |-> f,
             parent_present |-> i, parent |-> j]
    BY <1>1
  <2> HIDE DEF a, b, c, d, e, f, i, j
  <2> QED BY <2>1, ToldObject1Fields
<1>3. m = [id |-> a, time |-> b, position |-> c, rotation |-> d, scale |-> e, active |-> x,
           parent_present |-> y, parent |-> z]
  <2>1. /\ DeserializeCopyLoc1(SerializeCopyLoc1(c)) = c /\ DeserializeCopyRot1(SerializeCopyRot1(d)) = d
        /\ DeserializeCopyLoc1(SerializeCopyLoc1(e)) = e
    BY <1>1, SmallCopies
  <2> DEFINE v == SerializeObject1(g)
  <2>2. /\ v.id[1] = a /\ v.time[1] = b /\ v.position = SerializeCopyLoc1(c)
        /\ v.rotation = SerializeCopyRot1(d) /\ v.scale = SerializeCopyLoc1(e) /\ v.active[1] = x
        /\ v.parent = IF i # 0 THEN <<<<j>>>> ELSE <<>>
    BY DEF SerializeObject1
  <2>3. /\ (IF v.parent # <<>> THEN 1 ELSE 0) = y
        /\ (IF v.parent # <<>> THEN v.parent[1][1] ELSE 0) = z
    BY <2>2 DEF Bool
  <2> HIDE DEF v, a, b, c, d, e, f, i, j, z, x, y
  <2> QED BY <2>1, <2>2, <2>3 DEF DeserializeObject1, v
<1>4. x \in Byte /\ y \in Byte /\ Bool(x) = x /\ Bool(y) = y /\ z = IF y = 0 THEN 0 ELSE z
  BY BoolTwice
<1>5. z \in Number
  BY <1>1 DEF Number, IsNumber, Huge
<1>6. m \in GSObject1
  <2> HIDE DEF x, y, z
  <2> QED BY <1>1, <1>3, <1>4, <1>5 DEF GSObject1
<1>7. ToldObject1(m) = [id |-> a, time |-> b, position |-> c, rotation |-> d, scale |-> e,
                        active |-> Bool(x), parent_present |-> Bool(y), parent |-> z]
  <2> HIDE DEF a, b, c, d, e, x, y, z
  <2> QED BY <1>3, <1>4, ToldObject1Fields
<1> QED BY <1>2, <1>3, <1>4, <1>6, <1>7

\* What a hand tells.
ToldHand(g) == [g EXCEPT !.left = Bool(@)]

\* A Hand1 there and back.
LEMMA Hand1Back ==
    ASSUME NEW g \in GSHand1, NEW m, m = DeserializeHand1(SerializeHand1(g))
    PROVE  m \in GSHand1 /\ m = ToldHand(g) /\ m = ToldHand(m)
<1>1. /\ g.id \in Number /\ g.time \in Byte /\ g.left \in Byte /\ g.location \in GSLoc2
      /\ g.rotation \in GSRot2
      /\ g = [id |-> g.id, time |-> g.time, left |-> g.left, location |-> g.location,
              rotation |-> g.rotation]
  BY DEF GSHand1
<1> DEFINE a == g.id  b == g.time  c == g.left  d == g.location  e == g.rotation  x == Bool(c)
<1>2. ToldHand(g) = [id |-> a, time |-> b, left |-> x, location |-> d, rotation |-> e]
  <2>1. g = [id |-> a, time |-> b, left |-> c, location |-> d, rotation |-> e]
    BY <1>1
  <2> HIDE DEF a, b, c, d, e
  <2> QED BY <2>1 DEF ToldHand
<1>3. m = [id |-> a, time |-> b, left |-> x, location |-> d, rotation |-> e]
  <2>1. DeserializeCopyLoc2(SerializeCopyLoc2(d)) = d /\ DeserializeCopyRot2(SerializeCopyRot2(e)) = e
    BY <1>1, SmallCopies
  <2> DEFINE v == SerializeHand1(g)
  <2>2. /\ v.id[1] = a /\ v.time[1] = b /\ v.left[1] = x /\ v.location = SerializeCopyLoc2(d)
        /\ v.rotation = SerializeCopyRot2(e)
    BY DEF SerializeHand1
  <2> HIDE DEF v, a, b, d, e, x
  <2> QED BY <2>1, <2>2 DEF DeserializeHand1, v
<1>4. x \in Byte /\ Bool(x) = x
  BY BoolTwice
<1>5. m \in GSHand1
  <2> HIDE DEF x
  <2> QED BY <1>1, <1>3, <1>4 DEF GSHand1
<1>6. m = ToldHand(m)
  <2> HIDE DEF a, b, d, e, x
  <2> QED BY <1>3, <1>4 DEF ToldHand
<1> QED BY <1>2, <1>3, <1>5, <1>6

\* A Hand2 there and back.
LEMMA Hand2Back ==
    ASSUME NEW g \in GSHand2, NEW m, m = DeserializeHand2(SerializeHand2(g))
    PROVE  m \in GSHand2 /\ m = ToldHand(g) /\ m = ToldHand(m)
<1>1. /\ g.id \in Number /\ g.time \in Byte /\ g.left \in Byte /\ g.location \in GSLoc2
      /\ g.rotation \in GSRot2 /\ g.wrist \in GSTransform1 /\ g.thumb \in GSThumb
      /\ g.index \in GSFinger /\ g.middle \in GSFinger /\ g.ring \in GSFinger /\ g.pinky \in GSFinger
      /\ g = [id |-> g.id, time |-> g.time, left |-> g.left, location |-> g.location,
              rotation |-> g.rotation, wrist |-> g.wrist, thumb |-> g.thumb, index |-> g.index,
              middle |-> g.middle, ring |-> g.ring, pinky |-> g.pinky]
  BY DEF GSHand2
<1> DEFINE a == g.id  b == g.time  c == g.left  d == g.location  e == g.rotation  x == Bool(c)
           i == g.wrist  j == g.thumb  k == g.index  l == g.middle  n == g.ring  o == g.pinky
<1>2. ToldHand(g) = [id |-> a, time |-> b, left |-> x, location |-> d, rotation |-> e,
                     wrist |-> i, thumb |-> j, index |-> k, middle |-> l, ring |-> n, pinky |-> o]
  <2>1. g = [id |-> a, time |-> b, left |-> c, location |-> d, rotation |-> e,
             wrist |-> i, thumb |-> j, index |-> k, middle |-> l, ring |-> n, pinky |-> o]
    BY <1>1
  <2> HIDE DEF a, b, c, d, e, i, j, k, l, n, o
  <2> QED BY <2>1 DEF ToldHand
<1>3. m = [id |-> a, time |-> b, left |-> x, location |-> d, rotation |-> e,
           wrist |-> i, thumb |-> j, index |-> k, middle |-> l, ring |-> n, pinky |-> o]
  <2>1. /\ DeserializeCopyLoc2(SerializeCopyLoc2(d)) = d /\ DeserializeCopyRot2(SerializeCopyRot2(e)) = e
        /\ DeserializeCopyTransform1(SerializeCopyTransform1(i)) = i
        /\ DeserializeCopyThumb(SerializeCopyThumb(j)) = j
        /\ DeserializeCopyFinger(SerializeCopyFinger(k)) = k
        /\ DeserializeCopyFinger(SerializeCopyFinger(l)) = l
        /\ DeserializeCopyFinger(SerializeCopyFinger(n)) = n
        /\ DeserializeCopyFinger(SerializeCopyFinger(o)) = o
    BY <1>1, SmallCopies, HandCopies
  <2> DEFINE v == SerializeHand2(g)
  <2>2. /\ v.id[1] = a /\ v.time[1] = b /\ v.left[1] = x /\ v.location = SerializeCopyLoc2(d)
        /\ v.rotation = SerializeCopyRot2(e) /\ v.wrist = SerializeCopyTransform1(i)
        /\ v.thumb = SerializeCopyThumb(j) /\ v.index = SerializeCopyFinger(k)
        /\ v.middle = SerializeCopyFinger(l) /\ v.ring = SerializeCopyFinger(n)
        /\ v.pinky = SerializeCopyFinger(o)
    BY DEF SerializeHand2
  <2> HIDE DEF v, a, b, d, e, x, i, j, k, l, n, o
  <2> QED BY <2>1, <2>2 DEF DeserializeHand2, v
<1>4. x \in Byte /\ Bool(x) = x
  BY BoolTwice
<1>5. m \in GSHand2
  <2> HIDE DEF x
  <2> QED BY <1>1, <1>3, <1>4 DEF GSHand2
<1>6. m = ToldHand(m)
  <2> HIDE DEF a, b, d, e, x, i, j, k, l, n, o
  <2> QED BY <1>3, <1>4 DEF ToldHand
<1> QED BY <1>2, <1>3, <1>5, <1>6

\* A HeadIPD1 there and back.
LEMMA HeadIPDBack ==
    ASSUME NEW g \in GSHeadIPD1
    PROVE  DeserializeHeadIPD(SerializeHeadIPD(g)) = g
  BY DEF GSHeadIPD1, DeserializeHeadIPD, SerializeHeadIPD

\* The i-th block holds the i-th array.
Holds(at, blocks, arrays) ==
    /\ DOMAIN blocks = DOMAIN arrays
    /\ \A i \in DOMAIN arrays : blocks[i] # NULL /\ blocks[i] \in DOMAIN at /\ at[blocks[i]] = arrays[i]

\* An array that is where a pointer points to.
LEMMA ArrayBack ==
    ASSUME NEW type, NEW a \in Seq(type), NEW n, n = Len(a), n < Huge, NEW p, NEW at,
           n # 0 => p # NULL /\ p \in DOMAIN at /\ at[p] = a
    PROVE  PointsTo(p, n, at, type) /\ Elements(at, p, n) = a
<1>1. n \in Nat
  BY LenProperties
<1>2. n \in Number
  BY <1>1 DEF Number, IsNumber
<1>3. CASE n = 0
  <2>1. Len(a) = 0
    BY <1>3
  <2>2. a = <<>>
    BY <2>1, EmptySeq
  <2> QED BY <1>2, <1>3, <2>2, Zenon DEF PointsTo, Elements
<1>4. CASE n # 0
  <2>1. SubSeq(a, 1, n) = a
    BY <1>1
  <2>2. n <= Len(a)
    BY <1>1
  <2> QED BY <1>2, <1>4, <2>1, <2>2, Zenon DEF PointsTo, Elements
<1> QED BY <1>3, <1>4

MeshNames == {"vertices", "normals", "textures", "triangles"}

\* A sequence of names has one.
Has(s, name) == \E i \in DOMAIN s : s[i] = name

\* A name is in one of two sequences when it is in both, one after the other.
LEMMA HasBoth ==
    ASSUME NEW s \in Seq(MeshNames), NEW t \in Seq(MeshNames), NEW name
    PROVE  s \o t \in Seq(MeshNames) /\ (Has(s \o t, name) <=> Has(s, name) \/ Has(t, name))
<1> DEFINE m == Len(s)  n == Len(t)  r == s \o t
<1>1. /\ r \in Seq(MeshNames) /\ DOMAIN r = 1..(m + n) /\ DOMAIN s = 1..m /\ DOMAIN t = 1..n
      /\ m \in Nat /\ n \in Nat
      /\ \A i \in 1..(m + n) : r[i] = IF i <= m THEN s[i] ELSE t[i - m]
  BY ConcatProperties
<1> HIDE DEF m, n, r
<1>2. ASSUME Has(r, name) PROVE Has(s, name) \/ Has(t, name)
  <2>1. PICK i \in 1..(m + n) : r[i] = name
    BY <1>1, <1>2 DEF Has
  <2>2. CASE i <= m
    BY <1>1, <2>1, <2>2 DEF Has
  <2>3. CASE ~(i <= m)
    <3> DEFINE k == i - m
    <3>1. k \in 1..n /\ t[k] = name
      BY <1>1, <2>1, <2>3
    <3> HIDE DEF k
    <3> QED BY <1>1, <3>1 DEF Has
  <2> QED BY <2>2, <2>3
<1>3. ASSUME Has(s, name) PROVE Has(r, name)
  <2>1. PICK i \in 1..m : s[i] = name
    BY <1>1, <1>3 DEF Has
  <2> QED BY <1>1, <2>1 DEF Has
<1>4. ASSUME Has(t, name) PROVE Has(r, name)
  <2>1. PICK i \in 1..n : t[i] = name
    BY <1>1, <1>4 DEF Has
  <2> DEFINE k == m + i
  <2>2. k \in 1..(m + n) /\ ~(k <= m) /\ k - m = i
    BY <1>1
  <2> HIDE DEF k
  <2> QED BY <1>1, <2>1, <2>2 DEF Has
<1> QED BY <1>1, <1>2, <1>3, <1>4 DEF r

\* The arrays of a mesh that have a name are those that are not empty.
LEMMA NamesFound ==
    ASSUME NEW v, v.kind = "Mesh1"
    PROVE  /\ ArrayNames(v) \in Seq(MeshNames)
           /\ \A name \in MeshNames : Has(ArrayNames(v), name) <=> v[name] # <<>>
<1>1. ASSUME NEW name \in MeshNames
      PROVE  /\ ArrayName(v, name) \in Seq(MeshNames)
             /\ \A other : Has(ArrayName(v, name), other) <=> other = name /\ v[name] # <<>>
  <2>1. CASE v[name] # <<>>
    <3>1. ArrayName(v, name) = <<name>>
      BY <2>1 DEF ArrayName
    <3>2. <<name>> \in Seq(MeshNames) /\ DOMAIN <<name>> = 1..1 /\ <<name>>[1] = name
      OBVIOUS
    <3> QED BY <2>1, <3>1, <3>2 DEF Has
  <2>2. CASE v[name] = <<>>
    <3>1. ArrayName(v, name) = <<>>
      BY <2>2 DEF ArrayName
    <3>2. <<>> \in Seq(MeshNames) /\ DOMAIN <<>> = {}
      OBVIOUS
    <3> QED BY <2>2, <3>1, <3>2 DEF Has
  <2> QED BY <2>1, <2>2
<1> DEFINE a == ArrayName(v, "vertices")  b == ArrayName(v, "normals")
           c == ArrayName(v, "textures")  d == ArrayName(v, "triangles")
<1>2. /\ a \in Seq(MeshNames) /\ b \in Seq(MeshNames) /\ c \in Seq(MeshNames) /\ d \in Seq(MeshNames)
      /\ \A name : Has(a, name) <=> name = "vertices" /\ v["vertices"] # <<>>
      /\ \A name : Has(b, name) <=> name = "normals" /\ v["normals"] # <<>>
      /\ \A name : Has(c, name) <=> name = "textures" /\ v["textures"] # <<>>
      /\ \A name : Has(d, name) <=> name = "triangles" /\ v["triangles"] # <<>>
  BY <1>1 DEF MeshNames
<1> HIDE DEF a, b, c, d
<1>3. a \o b \in Seq(MeshNames) /\ (a \o b) \o c \in Seq(MeshNames) /\ ((a \o b) \o c) \o d \in Seq(MeshNames)
  BY <1>2, HasBoth
<1>4. \A name : Has(((a \o b) \o c) \o d, name) <=> Has(a, name) \/ Has(b, name) \/ Has(c, name) \/ Has(d, name)
  BY <1>2, <1>3, HasBoth
<1>5. ArrayNames(v) = ((a \o b) \o c) \o d
  BY DEF ArrayNames, a, b, c, d
<1> QED BY <1>2, <1>3, <1>4, <1>5 DEF MeshNames

\* The pointer to one of them.
LEMMA PointerFound ==
    ASSUME NEW v, v.kind = "Mesh1", NEW at, NEW blocks, Holds(at, blocks, ArraysOf(v)), NEW name \in MeshNames,
           v[name] # <<>>, NEW p, p = PointerTo(v, name, blocks)
    PROVE  p # NULL /\ p \in DOMAIN at /\ at[p] = MeshCells(v, name)
<1> DEFINE names == ArrayNames(v)  arrays == ArraysOf(v)
<1>1. arrays = [i \in DOMAIN names |-> MeshCells(v, names[i])] /\ DOMAIN arrays = DOMAIN names
  BY DEF ArraysOf
<1>2. DOMAIN blocks = DOMAIN names
  BY <1>1 DEF Holds
<1>3. \E i \in DOMAIN blocks : names[i] = name
  BY <1>2, NamesFound DEF Has
<1> DEFINE k == CHOOSE i \in DOMAIN blocks : names[i] = name
<1>4. k \in DOMAIN blocks /\ names[k] = name
  BY <1>3
<1>5. p = blocks[k]
  BY <1>3 DEF PointerTo
<1> HIDE DEF k, names, arrays
<1>6. blocks[k] # NULL /\ blocks[k] \in DOMAIN at /\ at[blocks[k]] = arrays[k]
  BY <1>1, <1>2, <1>4 DEF Holds, arrays
<1> QED BY <1>1, <1>2, <1>4, <1>5, <1>6

\* What a mesh tells.
ToldMesh1(g, at) ==
    [g EXCEPT !.vertices = Elements(at, @, g.num_vertices),
              !.normals = Elements(at, @, g.num_normals),
              !.textures = Elements(at, @, g.num_textures),
              !.triangles = Elements(at, @, g.num_triangles)]

\* Its fields.
LEMMA ToldMesh1Fields ==
    ASSUME NEW g, NEW at, IsGSMesh1(g, at), NEW h, h = ToldMesh1(g, at)
    PROVE  h = [id |-> g.id,
                num_vertices  |-> g.num_vertices,  vertices  |-> MeshArray(g, at, "vertices"),
                num_normals   |-> g.num_normals,   normals   |-> MeshArray(g, at, "normals"),
                num_textures  |-> g.num_textures,  textures  |-> MeshArray(g, at, "textures"),
                num_triangles |-> g.num_triangles, triangles |-> MeshArray(g, at, "triangles")]
<1>1. g = [id |-> g.id,
           num_vertices  |-> g.num_vertices,  vertices  |-> g.vertices,
           num_normals   |-> g.num_normals,   normals   |-> g.normals,
           num_textures  |-> g.num_textures,  textures  |-> g.textures,
           num_triangles |-> g.num_triangles, triangles |-> g.triangles]
  BY DEF IsGSMesh1
<1>2. h = [n \in {"id", "num_vertices", "vertices", "num_normals", "normals", "num_textures", "textures",
                  "num_triangles", "triangles"} |-> h[n]]
  BY <1>1 DEF ToldMesh1
<1>3. h = [id |-> h.id,
           num_vertices  |-> h.num_vertices,  vertices  |-> h.vertices,
           num_normals   |-> h.num_normals,   normals   |-> h.normals,
           num_textures  |-> h.num_textures,  textures  |-> h.textures,
           num_triangles |-> h.num_triangles, triangles |-> h.triangles]
  BY ONLY <1>2
<1>4. /\ h.id = g.id /\ h.num_vertices = g.num_vertices /\ h.num_normals = g.num_normals
      /\ h.num_textures = g.num_textures /\ h.num_triangles = g.num_triangles
      /\ h.vertices = Elements(at, g.vertices, g.num_vertices)
      /\ h.normals = Elements(at, g.normals, g.num_normals)
      /\ h.textures = Elements(at, g.textures, g.num_textures)
      /\ h.triangles = Elements(at, g.triangles, g.num_triangles)
  BY <1>1 DEF ToldMesh1
<1>5. /\ h.vertices = MeshArray(g, at, "vertices") /\ h.normals = MeshArray(g, at, "normals")
      /\ h.textures = MeshArray(g, at, "textures") /\ h.triangles = MeshArray(g, at, "triangles")
  BY <1>4 DEF MeshArray
<1> QED BY <1>3, <1>4, <1>5, Zenon

\* The cells of the arrays that decoding allocates are the elements encoded.
LEMMA CellsBack ==
    ASSUME NEW g, NEW at, IsGSMesh1(g, at), NEW v, v = SerializeMesh1(g, at), NEW name \in MeshNames
    PROVE  /\ MeshCells(v, name) = MeshArray(g, at, name)
           /\ Len(v[name]) = Len(MeshArray(g, at, name))
           /\ Len(MeshArray(g, at, name)) # 0 => v[name] # <<>>
<1> DEFINE a == MeshArray(g, at, "vertices")  b == MeshArray(g, at, "normals")
           c == MeshArray(g, at, "textures")  d == MeshArray(g, at, "triangles")
<1>1. /\ a \in Seq(GSLoc1) /\ b \in Seq(GSNorm1) /\ c \in Seq(GSTextureUV1) /\ d \in Seq(Number)
      /\ v.vertices = [i \in 1..Len(a) |-> SerializeCopyLoc1(a[i])]
      /\ v.normals = [i \in 1..Len(b) |-> SerializeCopyNorm1(b[i])]
      /\ v.textures = [i \in 1..Len(c) |-> SerializeCopyTextureUV1(c[i])]
      /\ v.triangles = [i \in 1..Len(d) |-> <<d[i]>>]
  <2>1. MeshMade(g, v, a, b, c, d)
    BY MeshCopies
  <2> HIDE DEF a, b, c, d
  <2> QED BY <2>1, Zenon DEF MeshMade
<1>2. ASSUME NEW S, NEW s \in Seq(S), NEW t, DOMAIN t = 1..Len(s), NEW u,
             u = [i \in DOMAIN t |-> u[i]], \A i \in 1..Len(s) : u[i] = s[i]
      PROVE  u = s /\ Len(t) = Len(s) /\ (Len(s) # 0 => t # <<>>)
  <2> DEFINE n == Len(s)
  <2>1. n \in Nat /\ s = [i \in 1..n |-> s[i]]
    OBVIOUS
  <2>2. DOMAIN t = 1..n
    BY <1>2
  <2> HIDE DEF n
  <2>3. Len(t) = n
    BY <2>1, <2>2
  <2>4. n # 0 => t # <<>>
    BY <2>1, <2>2
  <2>5. u = s
    <3>1. u = [i \in 1..n |-> u[i]] /\ \A i \in 1..n : u[i] = s[i]
      BY <1>2, <2>2 DEF n
    <3> QED BY <2>1, <3>1
  <2> QED BY <2>3, <2>4, <2>5 DEF n
<1> HIDE DEF a, b, c, d
<1>3. CASE name = "vertices"
  <2> DEFINE t == v.vertices  u == MeshCells(v, name)
  <2>1. u = [i \in DOMAIN t |-> DeserializeCopyLoc1(t[i])]
    BY <1>3 DEF MeshCells, Mapped
  <2>2. DOMAIN t = 1..Len(a) /\ \A i \in 1..Len(a) : t[i] = SerializeCopyLoc1(a[i])
    BY <1>1
  <2>3. \A i \in 1..Len(a) : a[i] \in GSLoc1
    BY <1>1, ElementOfSeq
  <2> HIDE DEF t, u
  <2>4. u = [i \in DOMAIN t |-> u[i]] /\ \A i \in 1..Len(a) : u[i] = a[i]
    BY <2>1, <2>2, <2>3, SmallCopies
  <2>5. u = a /\ Len(t) = Len(a) /\ (Len(a) # 0 => t # <<>>)
    BY <1>1, <1>2, <2>2, <2>4
  <2> QED BY <1>3, <2>5, Zenon DEF u, t, a
<1>4. CASE name = "normals"
  <2> DEFINE t == v.normals  u == MeshCells(v, name)
  <2>1. u = [i \in DOMAIN t |-> DeserializeCopyNorm1(t[i])]
    BY <1>4 DEF MeshCells, Mapped
  <2>2. DOMAIN t = 1..Len(b) /\ \A i \in 1..Len(b) : t[i] = SerializeCopyNorm1(b[i])
    BY <1>1
  <2>3. \A i \in 1..Len(b) : b[i] \in GSNorm1
    BY <1>1, ElementOfSeq
  <2> HIDE DEF t, u
  <2>4. u = [i \in DOMAIN t |-> u[i]] /\ \A i \in 1..Len(b) : u[i] = b[i]
    BY <2>1, <2>2, <2>3, SmallCopies
  <2>5. u = b /\ Len(t) = Len(b) /\ (Len(b) # 0 => t # <<>>)
    BY <1>1, <1>2, <2>2, <2>4
  <2> QED BY <1>4, <2>5, Zenon DEF u, t, b
<1>5. CASE name = "textures"
  <2> DEFINE t == v.textures  u == MeshCells(v, name)
  <2>1. u = [i \in DOMAIN t |-> DeserializeCopyTextureUV1(t[i])]
    BY <1>5 DEF MeshCells, Mapped
  <2>2. DOMAIN t = 1..Len(c) /\ \A i \in 1..Len(c) : t[i] = SerializeCopyTextureUV1(c[i])
    BY <1>1
  <2>3. \A i \in 1..Len(c) : c[i] \in GSTextureUV1
    BY <1>1, ElementOfSeq
  <2> HIDE DEF t, u
  <2>4. u = [i \in DOMAIN t |-> u[i]] /\ \A i \in 1..Len(c) : u[i] = c[i]
    BY <2>1, <2>2, <2>3, SmallCopies
  <2>5. u = c /\ Len(t) = Len(c) /\ (Len(c) # 0 => t # <<>>)
    BY <1>1, <1>2, <2>2, <2>4
  <2> QED BY <1>5, <2>5, Zenon DEF u, t, c
<1>6. CASE name = "triangles"
  <2> DEFINE t == v.triangles  u == MeshCells(v, name)
  <2>1. u = [i \in DOMAIN t |-> t[i][1]]
    BY <1>6 DEF MeshCells
  <2>2. DOMAIN t = 1..Len(d) /\ \A i \in 1..Len(d) : t[i] = <<d[i]>>
    BY <1>1
  <2> HIDE DEF t, u
  <2>4. u = [i \in DOMAIN t |-> u[i]] /\ \A i \in 1..Len(d) : u[i] = d[i]
    BY <2>1, <2>2
  <2>5. u = d /\ Len(t) = Len(d) /\ (Len(d) # 0 => t # <<>>)
    BY <1>1, <1>2, <2>2, <2>4
  <2> QED BY <1>6, <2>5, Zenon DEF u, t, d
<1> QED BY <1>3, <1>4, <1>5, <1>6 DEF MeshNames

\* Two meshes with the same elements are the same object.
LEMMA SameMesh ==
    ASSUME NEW g, NEW at, IsGSMesh1(g, at), NEW m, NEW new, IsGSMesh1(m, new), m.id = g.id,
           MeshArray(m, new, "vertices") = MeshArray(g, at, "vertices"),
           MeshArray(m, new, "normals") = MeshArray(g, at, "normals"),
           MeshArray(m, new, "textures") = MeshArray(g, at, "textures"),
           MeshArray(m, new, "triangles") = MeshArray(g, at, "triangles"),
           NEW v, v = SerializeMesh1(g, at), NEW w, w = SerializeMesh1(m, new)
    PROVE  w = v
<1> PICK a : a = MeshArray(g, at, "vertices")
  OBVIOUS
<1> PICK b : b = MeshArray(g, at, "normals")
  OBVIOUS
<1> PICK c : c = MeshArray(g, at, "textures")
  OBVIOUS
<1> PICK d : d = MeshArray(g, at, "triangles")
  OBVIOUS
<1>1. MeshMade(g, v, a, b, c, d)
  BY MeshCopies
<1>2. MeshMade(m, w, a, b, c, d)
  <2>1. /\ a = MeshArray(m, new, "vertices") /\ b = MeshArray(m, new, "normals")
        /\ c = MeshArray(m, new, "textures") /\ d = MeshArray(m, new, "triangles")
    BY Zenon
  <2> QED BY <2>1, MeshCopies
<1>3. v = [kind |-> v.kind, id |-> v.id, vertices |-> v.vertices, normals |-> v.normals,
           textures |-> v.textures, triangles |-> v.triangles]
  BY DEF SerializeMesh1
<1>4. w = [kind |-> w.kind, id |-> w.id, vertices |-> w.vertices, normals |-> w.normals,
           textures |-> w.textures, triangles |-> w.triangles]
  BY DEF SerializeMesh1
<1> QED BY <1>1, <1>2, <1>3, <1>4, Zenon DEF MeshMade


\* A mesh there and back.
LEMMA Mesh1Back ==
    ASSUME NEW g, NEW at, IsGSMesh1(g, at), NEW v, v = SerializeMesh1(g, at),
           NEW new, NEW blocks, Holds(new, blocks, ArraysOf(v)), NEW m, m = DeserializeMesh1(v, blocks)
    PROVE  IsGSMesh1(m, new) /\ SerializeMesh1(m, new) = v /\ ToldMesh1(m, new) = ToldMesh1(g, at)
<1> DEFINE a == MeshArray(g, at, "vertices")  b == MeshArray(g, at, "normals")
           c == MeshArray(g, at, "textures")  d == MeshArray(g, at, "triangles")
           i == PointerTo(v, "vertices", blocks)  j == PointerTo(v, "normals", blocks)
           k == PointerTo(v, "textures", blocks)  l == PointerTo(v, "triangles", blocks)
<1>a. MeshMade(g, v, a, b, c, d)
  BY MeshCopies
<1> HIDE DEF a, b, c, d
<1>1. /\ a \in Seq(GSLoc1) /\ b \in Seq(GSNorm1) /\ c \in Seq(GSTextureUV1) /\ d \in Seq(Number)
      /\ Len(a) < Huge /\ Len(b) < Huge /\ Len(c) < Huge /\ Len(d) < Huge
      /\ Len(a) = g.num_vertices /\ Len(b) = g.num_normals
      /\ Len(c) = g.num_textures /\ Len(d) = g.num_triangles
      /\ v.kind = "Mesh1" /\ v.id = <<g.id>> /\ g.id \in Number
  BY <1>a, Zenon DEF MeshMade
<1> USE DEF a, b, c, d
<1>2. /\ MeshCells(v, "vertices") = a /\ Len(v.vertices) = Len(a) /\ (Len(a) # 0 => v.vertices # <<>>)
      /\ MeshCells(v, "normals") = b /\ Len(v.normals) = Len(b) /\ (Len(b) # 0 => v.normals # <<>>)
      /\ MeshCells(v, "textures") = c /\ Len(v.textures) = Len(c) /\ (Len(c) # 0 => v.textures # <<>>)
      /\ MeshCells(v, "triangles") = d /\ Len(v.triangles) = Len(d) /\ (Len(d) # 0 => v.triangles # <<>>)
  BY CellsBack DEF MeshNames
<1>n. {"vertices", "normals", "textures", "triangles"} \subseteq MeshNames
  BY DEF MeshNames
<1>3. /\ Len(a) # 0 => i # NULL /\ i \in DOMAIN new /\ new[i] = a
      /\ Len(b) # 0 => j # NULL /\ j \in DOMAIN new /\ new[j] = b
      /\ Len(c) # 0 => k # NULL /\ k \in DOMAIN new /\ new[k] = c
      /\ Len(d) # 0 => l # NULL /\ l \in DOMAIN new /\ new[l] = d
  <2> HIDE DEF a, b, c, d, i, j, k, l
  <2>1. ASSUME NEW name \in MeshNames, v[name] # <<>>
        PROVE  LET p == PointerTo(v, name, blocks)
               IN  p # NULL /\ p \in DOMAIN new /\ new[p] = MeshCells(v, name)
    BY <1>1, <2>1, PointerFound
  <2> QED BY <1>2, <1>n, <2>1 DEF i, j, k, l
<1>4. m = [id |-> g.id,
           num_vertices  |-> Len(a), vertices  |-> i,
           num_normals   |-> Len(b), normals   |-> j,
           num_textures  |-> Len(c), textures  |-> k,
           num_triangles |-> Len(d), triangles |-> l]
  <2>1. v.id[1] = g.id
    BY <1>1
  <2> HIDE DEF a, b, c, d, i, j, k, l
  <2> QED BY <1>2, <2>1 DEF DeserializeMesh1, i, j, k, l
<1> HIDE DEF a, b, c, d, i, j, k, l
<1>5. /\ PointsTo(i, Len(a), new, GSLoc1) /\ Elements(new, i, Len(a)) = a
      /\ PointsTo(j, Len(b), new, GSNorm1) /\ Elements(new, j, Len(b)) = b
      /\ PointsTo(k, Len(c), new, GSTextureUV1) /\ Elements(new, k, Len(c)) = c
      /\ PointsTo(l, Len(d), new, Number) /\ Elements(new, l, Len(d)) = d
  BY <1>1, <1>3, ArrayBack
<1>6. IsGSMesh1(m, new)
  <2>1. /\ m.id = g.id /\ m.num_vertices = Len(a) /\ m.vertices = i /\ m.num_normals = Len(b)
        /\ m.normals = j /\ m.num_textures = Len(c) /\ m.textures = k
        /\ m.num_triangles = Len(d) /\ m.triangles = l
    BY <1>4
  <2> QED BY <1>1, <1>4, <1>5, <2>1, Zenon DEF IsGSMesh1
<1>7. /\ MeshArray(m, new, "vertices") = a /\ MeshArray(m, new, "normals") = b
      /\ MeshArray(m, new, "textures") = c /\ MeshArray(m, new, "triangles") = d
  BY <1>4, <1>5 DEF MeshArray
<1>8. SerializeMesh1(m, new) = v
  <2> PICK w : w = SerializeMesh1(m, new)
    OBVIOUS
  <2>1. /\ MeshArray(m, new, "vertices") = MeshArray(g, at, "vertices")
        /\ MeshArray(m, new, "normals") = MeshArray(g, at, "normals")
        /\ MeshArray(m, new, "textures") = MeshArray(g, at, "textures")
        /\ MeshArray(m, new, "triangles") = MeshArray(g, at, "triangles") /\ m.id = g.id
    BY <1>4, <1>7 DEF a, b, c, d
  <2> QED BY <1>6, <2>1, SameMesh
<1>9. ToldMesh1(m, new) = ToldMesh1(g, at)
  <2> DEFINE h == [id |-> g.id,
                   num_vertices  |-> Len(a), vertices  |-> a,
                   num_normals   |-> Len(b), normals   |-> b,
                   num_textures  |-> Len(c), textures  |-> c,
                   num_triangles |-> Len(d), triangles |-> d]
  <2>1. ToldMesh1(g, at) = h
    BY <1>1, ToldMesh1Fields DEF a, b, c, d
  <2>2. /\ m.id = g.id /\ m.num_vertices = Len(a) /\ m.num_normals = Len(b)
        /\ m.num_textures = Len(c) /\ m.num_triangles = Len(d)
    BY <1>4
  <2>3. ToldMesh1(m, new) = h
    <3> PICK r : r = ToldMesh1(m, new)
      OBVIOUS
    <3>1. r = [id |-> m.id,
                num_vertices  |-> m.num_vertices,  vertices  |-> MeshArray(m, new, "vertices"),
                num_normals   |-> m.num_normals,   normals   |-> MeshArray(m, new, "normals"),
                num_textures  |-> m.num_textures,  textures  |-> MeshArray(m, new, "textures"),
                num_triangles |-> m.num_triangles, triangles |-> MeshArray(m, new, "triangles")]
      BY <1>6, ToldMesh1Fields
    <3> QED BY <1>7, <2>2, <3>1, Zenon
  <2> QED BY <2>1, <2>3
<1> QED BY <1>6, <1>8, <1>9

\* What octets that are not understood tell.
ToldUnknown(g, at) == [g EXCEPT !.data = Elements(at, @, g.data_length)]

\* What a GS_Object tells, case by case.
LEMMA MeaningCases ==
    ASSUME NEW o, NEW at
    PROVE  /\ o.type = TagOf["Head1"] => Meaning(o, at) = ToldHead1(o.u)
           /\ o.type = TagOf["Object1"] => Meaning(o, at) = ToldObject1(o.u)
           /\ o.type \in {TagOf["Hand1"], TagOf["Hand2"]} => Meaning(o, at) = ToldHand(o.u)
           /\ o.type = TagOf["Mesh1"] => Meaning(o, at) = ToldMesh1(o.u, at)
           /\ o.type = TagOf["HeadIPD1"] => Meaning(o, at) = o.u
           /\ (\A kind \in Kinds : o.type # TagOf[kind]) => Meaning(o, at) = ToldUnknown(o.u, at)
<1>1. /\ TagOf["Object1"] = 3 /\ TagOf["Head1"] = 1 /\ TagOf["Hand1"] = 2
      /\ TagOf["Mesh1"] = 32768 /\ TagOf["Hand2"] = 32769 /\ TagOf["HeadIPD1"] = 32770
  BY DEF TagOf
<1>2. \A t : (\A kind \in Kinds : t # TagOf[kind]) <=>
                t # 3 /\ t # 1 /\ t # 2 /\ t # 32768 /\ t # 32769 /\ t # 32770
  BY <1>1, KindTags
<1> DEFINE a == ToldHead1(o.u)  b == ToldObject1(o.u)  c == ToldHand(o.u)  d == ToldMesh1(o.u, at)
           e == ToldUnknown(o.u, at)
<1>3. Meaning(o, at) = CASE o.type = TagOf["Head1"] -> a
                         [] o.type = TagOf["Object1"] -> b
                         [] o.type \in {TagOf["Hand1"], TagOf["Hand2"]} -> c
                         [] o.type = TagOf["Mesh1"] -> d
                         [] o.type = TagOf["HeadIPD1"] -> o.u
                         [] OTHER -> e
  BY DEF Meaning, ToldHead1, ToldObject1, ToldHand, ToldMesh1, ToldUnknown
<1> HIDE DEF a, b, c, d, e
<1>4. /\ o.type = 1 => Meaning(o, at) = a
      /\ o.type = 3 => Meaning(o, at) = b
      /\ o.type \in {2, 32769} => Meaning(o, at) = c
      /\ o.type = 32768 => Meaning(o, at) = d
      /\ o.type = 32770 => Meaning(o, at) = o.u
      /\ o.type # 3 /\ o.type # 1 /\ o.type # 2 /\ o.type # 32768 /\ o.type # 32769 /\ o.type # 32770 =>
            Meaning(o, at) = e
  BY <1>1, <1>3
<1> QED BY <1>1, <1>2, <1>4 DEF a, b, c, d, e

\* Octets that are not understood there and back.
LEMMA UnknownBack ==
    ASSUME NEW g, NEW at, IsGSUnknownObject(g, at), NEW v, v = SerializeUnknown(g, at),
           NEW new, NEW blocks, Holds(new, blocks, ArraysOf(v)), NEW m, m = DeserializeUnknown(v, blocks)
    PROVE  /\ IsGSUnknownObject(m, new) /\ m.tag = g.tag
           /\ ToldUnknown(m, new) = ToldUnknown(g, at)
<1> DEFINE a == Elements(at, g.data, g.data_length)  p == blocks[1]
<1>1. a \in Seq(Byte) /\ Len(a) = g.data_length /\ Len(a) < Huge
      /\ g = [tag |-> g.tag, data_length |-> g.data_length, data |-> g.data]
  BY ElementsShape DEF IsGSUnknownObject
<1>2. v.kind = "Unknown" /\ v.tag = g.tag /\ v.data = a
  BY DEF SerializeUnknown
<1>3. ArraysOf(v) = <<a>>
  BY <1>2 DEF ArraysOf
<1>4. p # NULL /\ p \in DOMAIN new /\ new[p] = a /\ blocks # <<>>
  <2> HIDE DEF a
  <2>1. DOMAIN <<a>> = 1..1 /\ <<a>>[1] = a /\ 1 \in 1..1
    OBVIOUS
  <2> DEFINE s == <<a>>
  <2>2. DOMAIN s = 1..1 /\ s[1] = a /\ 1 \in 1..1 /\ DOMAIN <<>> = {}
    BY <2>1
  <2> HIDE DEF s
  <2> QED BY <1>3, <2>2 DEF Holds, s
<1>5. m = [tag |-> g.tag, data_length |-> Len(a), data |-> p]
  BY <1>2, <1>4 DEF DeserializeUnknown
<1> HIDE DEF a, p
<1>6. PointsTo(p, Len(a), new, Byte) /\ Elements(new, p, Len(a)) = a
  BY <1>1, <1>4, ArrayBack
<1>7. m.tag = g.tag /\ m.data_length = Len(a) /\ m.data = p
  BY <1>5
<1>8. IsGSUnknownObject(m, new)
  BY <1>5, <1>6, <1>7 DEF IsGSUnknownObject
<1>9. ToldUnknown(m, new) = [tag |-> g.tag, data_length |-> Len(a), data |-> a]
  BY <1>5, <1>6 DEF ToldUnknown
<1>10. ToldUnknown(g, at) = [tag |-> g.tag, data_length |-> Len(a), data |-> a]
  <2> DEFINE x == g.tag  y == g.data_length  z == g.data
  <2>1. g = [tag |-> x, data_length |-> y, data |-> z] /\ y = Len(a) /\ Elements(at, z, y) = a
    BY <1>1 DEF a
  <2> HIDE DEF x, y, z
  <2>2. ToldUnknown(g, at) = [tag |-> x, data_length |-> y, data |-> a]
    BY <2>1 DEF ToldUnknown
  <2> QED BY <2>1, <2>2 DEF x
<1> QED BY <1>7, <1>8, <1>9, <1>10

\* The pointers of a GS_Object, case by case.
LEMMA PointerCases ==
    ASSUME NEW o
    PROVE  /\ o.type = TagOf["Mesh1"] =>
                Pointers(o) = {o.u.vertices, o.u.normals, o.u.textures, o.u.triangles} \ {NULL}
           /\ o.type = 0 => Pointers(o) = {}
           /\ \A kind \in Kinds \ {"Mesh1"} : o.type = TagOf[kind] => Pointers(o) = {}
           /\ o.type # 0 /\ (\A kind \in Kinds : o.type # TagOf[kind]) => Pointers(o) = {o.u.data} \ {NULL}
<1> DEFINE a == {o.u.vertices, o.u.normals, o.u.textures, o.u.triangles} \ {NULL}
           b == {o.u.data} \ {NULL}
           others == {0} \cup {TagOf[k] : k \in Kinds \ {"Mesh1"}}
<1>1. Pointers(o) = CASE o.type = TagOf["Mesh1"] -> a
                      [] o.type \in others -> {}
                      [] OTHER -> b
  BY Zenon DEF Pointers
<1>2. "Mesh1" \in Kinds
  BY DEF Kinds
<1>3. TagOf["Mesh1"] \notin others
  BY <1>2, KindTags
<1>4. o.type \in others <=> o.type = 0 \/ \E kind \in Kinds \ {"Mesh1"} : o.type = TagOf[kind]
  OBVIOUS
<1>5. (\A kind \in Kinds : o.type # TagOf[kind]) /\ o.type # 0 => o.type \notin others /\ o.type # TagOf["Mesh1"]
  BY <1>2, <1>4
<1>6. 0 \in others /\ \A kind \in Kinds \ {"Mesh1"} : TagOf[kind] \in others
  OBVIOUS
<1> HIDE DEF a, b, others
<1>7. /\ o.type = TagOf["Mesh1"] => Pointers(o) = a
      /\ o.type \in others => Pointers(o) = {}
      /\ o.type \notin others /\ o.type # TagOf["Mesh1"] => Pointers(o) = b
  BY <1>1, <1>3
<1> QED BY <1>5, <1>6, <1>7, Zenon DEF a, b

\* The pointers of a GS_Object that was decoded are to blocks of its own.
LEMMA PointersBack ==
    ASSUME NEW v, NEW blocks, NEW m, m = GSDeserialize(v, blocks),
           v.kind \in Kinds \/ (v.kind = "Unknown" /\ v.tag # 0 /\ \A kind \in Kinds : v.tag # TagOf[kind]),
           v.kind = "Unknown" /\ blocks # <<>> => 1 \in DOMAIN blocks
    PROVE  Pointers(m) \subseteq {blocks[i] : i \in DOMAIN blocks}
<1> DEFINE B == {blocks[i] : i \in DOMAIN blocks}
<1>1. CASE v.kind = "Mesh1"
  <2> DEFINE g == DeserializeMesh1(v, blocks)
  <2>1. m = [type |-> TagOf["Mesh1"], u |-> g]
    BY <1>1 DEF GSDeserialize
  <2>2. ASSUME NEW name PROVE PointerTo(v, name, blocks) \in B \cup {NULL}
    <3> DEFINE names == ArrayNames(v)
    <3> HIDE DEF names
    <3>1. PointerTo(v, name, blocks) = IF \E i \in DOMAIN blocks : names[i] = name
                THEN blocks[CHOOSE i \in DOMAIN blocks : names[i] = name] ELSE NULL
      BY DEF PointerTo, names
    <3> QED BY <3>1
  <2>3. /\ g.vertices = PointerTo(v, "vertices", blocks) /\ g.normals = PointerTo(v, "normals", blocks)
        /\ g.textures = PointerTo(v, "textures", blocks) /\ g.triangles = PointerTo(v, "triangles", blocks)
    BY DEF DeserializeMesh1
  <2> HIDE DEF g, B
  <2>4. m.type = TagOf["Mesh1"] /\ m.u = g
    BY <2>1
  <2>5. Pointers(m) = {g.vertices, g.normals, g.textures, g.triangles} \ {NULL}
    BY <2>4, PointerCases
  <2> QED BY <2>2, <2>3, <2>5 DEF B
<1>2. CASE v.kind \in Kinds \ {"Mesh1"}
  <2>1. v.kind \in {"Head1", "Hand1", "Hand2", "HeadIPD1", "Object1"}
    BY <1>2 DEF Kinds
  <2>2. m.type = TagOf[v.kind]
    BY <2>1 DEF GSDeserialize
  <2> QED BY <1>2, <2>2, PointerCases
<1>3. CASE v.kind = "Unknown" /\ v.tag # 0 /\ \A kind \in Kinds : v.tag # TagOf[kind]
  <2> DEFINE g == DeserializeUnknown(v, blocks)
  <2>1. m = [type |-> v.tag, u |-> g]
    BY <1>3 DEF GSDeserialize
  <2>2. g.data \in B \cup {NULL}
    BY <1>3 DEF DeserializeUnknown
  <2> HIDE DEF g, B
  <2>3. m.type = v.tag /\ m.u = g
    BY <2>1
  <2>4. Pointers(m) = {g.data} \ {NULL}
    BY <1>3, <2>3, PointerCases
  <2> QED BY <2>2, <2>4 DEF B
<1> QED BY <1>1, <1>2, <1>3

\* A GS_Object there and back: what is decoded is a GS_Object, of the same type,
\* and tells, with its own arrays, what the one that was encoded told.
LEMMA ObjectBack ==
    ASSUME NEW o, NEW at, IsGSObject(o, at), NEW v, v = GSSerialize(o, at),
           NEW new, NEW blocks, Holds(new, blocks, ArraysOf(v)), NEW m, m = GSDeserialize(v, blocks)
    PROVE  /\ IsGSObject(m, new) /\ Told(m, new) = Told(o, at) /\ m.type = o.type
           /\ Pointers(m) \subseteq {blocks[i] : i \in DOMAIN blocks}
<1>1. Becomes(o, at, v)
  BY ObjectCases
<1>2. {"Head1", "Hand1", "Mesh1", "Hand2", "HeadIPD1", "Object1"} = Kinds
  BY DEF Kinds
<1>3. ASSUME NEW w, Becomes(m, new, w), m = [type |-> m.type, u |-> m.u]
      PROVE  IsGSObject(m, new)
  BY <1>3, ObjectCases
<1> DEFINE Alike == /\ IsGSObject(m, new) /\ Meaning(m, new) = Meaning(o, at) /\ m.type = o.type
                    /\ \/ v.kind \in Kinds
                       \/ /\ v.kind = "Unknown" /\ v.tag # 0 /\ \A kind \in Kinds : v.tag # TagOf[kind]
                          /\ blocks # <<>> => 1 \in DOMAIN blocks
<1> SUFFICES Alike
  <2> HIDE DEF Alike
  <2>1. ASSUME Alike PROVE Pointers(m) \subseteq {blocks[i] : i \in DOMAIN blocks}
    <3>1. \/ v.kind \in Kinds
          \/ /\ v.kind = "Unknown" /\ v.tag # 0 /\ \A kind \in Kinds : v.tag # TagOf[kind]
             /\ blocks # <<>> => 1 \in DOMAIN blocks
      BY <2>1, Zenon DEF Alike
    <3>2. "Unknown" \notin Kinds
      BY KindsAreRead
    <3>3. v.kind = "Unknown" /\ blocks # <<>> => 1 \in DOMAIN blocks
      BY <3>1, <3>2
    <3> QED BY <3>1, <3>3, PointersBack
  <2>2. ASSUME Alike PROVE IsGSObject(m, new) /\ Told(m, new) = Told(o, at) /\ m.type = o.type
    BY <2>2, Zenon DEF Alike, Told
  <2> QED BY <2>1, <2>2
<1>4. CASE o.type = TagOf["Object1"] /\ o.u \in GSObject1 /\ v = SerializeObject1(o.u)
  <2> PICK g : g = DeserializeObject1(v)
    OBVIOUS
  <2>1. v.kind = "Object1"
    BY <1>4 DEF SerializeObject1
  <2>2. m = [type |-> TagOf["Object1"], u |-> g]
    BY <2>1 DEF GSDeserialize
  <2>3. g \in GSObject1 /\ g = ToldObject1(o.u) /\ g = ToldObject1(g)
    BY <1>4, Object1Back
  <2>4. m.type = TagOf["Object1"] /\ m.u = g /\ m = [type |-> m.type, u |-> m.u]
    BY <2>2
  <2>5. Meaning(m, new) = Meaning(o, at)
    BY <1>4, <2>3, <2>4, MeaningCases
  <2>6. Becomes(m, new, SerializeObject1(g))
    BY <2>3, <2>4 DEF Becomes
  <2> QED BY <1>2, <1>3, <1>4, <2>1, <2>4, <2>5, <2>6
<1>5. CASE o.type = TagOf["Head1"] /\ o.u \in GSHead1 /\ v = SerializeHead1(o.u)
  <2> PICK g : g = DeserializeHead1(v)
    OBVIOUS
  <2>1. v.kind = "Head1"
    BY <1>5 DEF SerializeHead1
  <2>2. m = [type |-> TagOf["Head1"], u |-> g]
    BY <2>1 DEF GSDeserialize
  <2>3. g \in GSHead1 /\ g = ToldHead1(o.u) /\ g = ToldHead1(g)
    BY <1>5, Head1Back
  <2>4. m.type = TagOf["Head1"] /\ m.u = g /\ m = [type |-> m.type, u |-> m.u]
    BY <2>2
  <2>5. Meaning(m, new) = Meaning(o, at)
    BY <1>5, <2>3, <2>4, MeaningCases
  <2>6. Becomes(m, new, SerializeHead1(g))
    BY <2>3, <2>4 DEF Becomes
  <2> QED BY <1>2, <1>3, <1>5, <2>1, <2>4, <2>5, <2>6
<1>6. CASE o.type = TagOf["Hand1"] /\ o.u \in GSHand1 /\ v = SerializeHand1(o.u)
  <2> PICK g : g = DeserializeHand1(v)
    OBVIOUS
  <2>1. v.kind = "Hand1"
    BY <1>6 DEF SerializeHand1
  <2>2. m = [type |-> TagOf["Hand1"], u |-> g]
    BY <2>1 DEF GSDeserialize
  <2>3. g \in GSHand1 /\ g = ToldHand(o.u) /\ g = ToldHand(g)
    BY <1>6, Hand1Back
  <2>4. m.type = TagOf["Hand1"] /\ m.u = g /\ m = [type |-> m.type, u |-> m.u]
    BY <2>2
  <2>5. Meaning(m, new) = Meaning(o, at)
    BY <1>6, <2>3, <2>4, MeaningCases
  <2>6. Becomes(m, new, SerializeHand1(g))
    BY <2>3, <2>4 DEF Becomes
  <2> QED BY <1>2, <1>3, <1>6, <2>1, <2>4, <2>5, <2>6
<1>7. CASE o.type = TagOf["Hand2"] /\ o.u \in GSHand2 /\ v = SerializeHand2(o.u)
  <2> PICK g : g = DeserializeHand2(v)
    OBVIOUS
  <2>1. v.kind = "Hand2"
    BY <1>7 DEF SerializeHand2
  <2>2. m = [type |-> TagOf["Hand2"], u |-> g]
    BY <2>1 DEF GSDeserialize
  <2>3. g \in GSHand2 /\ g = ToldHand(o.u) /\ g = ToldHand(g)
    BY <1>7, Hand2Back
  <2>4. m.type = TagOf["Hand2"] /\ m.u = g /\ m = [type |-> m.type, u |-> m.u]
    BY <2>2
  <2>5. Meaning(m, new) = Meaning(o, at)
    BY <1>7, <2>3, <2>4, MeaningCases
  <2>6. Becomes(m, new, SerializeHand2(g))
    BY <2>3, <2>4 DEF Becomes
  <2> QED BY <1>2, <1>3, <1>7, <2>1, <2>4, <2>5, <2>6
<1>8. CASE o.type = TagOf["HeadIPD1"] /\ o.u \in GSHeadIPD1 /\ v = SerializeHeadIPD(o.u)
  <2> PICK g : g = DeserializeHeadIPD(v)
    OBVIOUS
  <2>1. v.kind = "HeadIPD1"
    BY <1>8 DEF SerializeHeadIPD
  <2>2. m = [type |-> TagOf["HeadIPD1"], u |-> g]
    BY <2>1 DEF GSDeserialize
  <2>3. g \in GSHeadIPD1 /\ g = o.u
    BY <1>8, HeadIPDBack
  <2>4. m.type = TagOf["HeadIPD1"] /\ m.u = g /\ m = [type |-> m.type, u |-> m.u]
    BY <2>2
  <2>5. Meaning(m, new) = Meaning(o, at)
    BY <1>8, <2>3, <2>4, MeaningCases
  <2>6. Becomes(m, new, SerializeHeadIPD(g))
    BY <2>3, <2>4 DEF Becomes
  <2> QED BY <1>2, <1>3, <1>8, <2>1, <2>4, <2>5, <2>6
<1>9. CASE /\ o.type = TagOf["Mesh1"] /\ IsGSMesh1(o.u, at) /\ v = SerializeMesh1(o.u, at)
         /\ Length(SerializeAll(Mesh1Written, v)) < Huge
  <2> PICK g : g = DeserializeMesh1(v, blocks)
    OBVIOUS
  <2>1. v.kind = "Mesh1"
    BY <1>9 DEF SerializeMesh1
  <2>2. m = [type |-> TagOf["Mesh1"], u |-> g]
    BY <2>1 DEF GSDeserialize
  <2>3. IsGSMesh1(g, new) /\ SerializeMesh1(g, new) = v /\ ToldMesh1(g, new) = ToldMesh1(o.u, at)
    BY <1>9, Mesh1Back
  <2>4. m.type = TagOf["Mesh1"] /\ m.u = g /\ m = [type |-> m.type, u |-> m.u]
    BY <2>2
  <2>5. Meaning(m, new) = Meaning(o, at)
    BY <1>9, <2>3, <2>4, MeaningCases
  <2>6. Becomes(m, new, v)
    BY <1>9, <2>3, <2>4 DEF Becomes
  <2> QED BY <1>2, <1>3, <1>9, <2>1, <2>4, <2>5, <2>6
<1>10. CASE /\ \A kind \in Kinds : o.type # TagOf[kind]
         /\ o.type \in Number \ {0} /\ o.u.tag = o.type /\ IsGSUnknownObject(o.u, at)
         /\ v = SerializeUnknown(o.u, at)
  <2> PICK g : g = DeserializeUnknown(v, blocks)
    OBVIOUS
  <2>1. v.kind = "Unknown" /\ v.tag = o.type
    BY <1>10 DEF SerializeUnknown
  <2>2. m = [type |-> o.type, u |-> g]
    BY <2>1 DEF GSDeserialize
  <2>3. IsGSUnknownObject(g, new) /\ g.tag = o.type /\ ToldUnknown(g, new) = ToldUnknown(o.u, at)
    BY <1>10, UnknownBack
  <2>4. m.type = o.type /\ m.u = g /\ m = [type |-> m.type, u |-> m.u]
    BY <2>2
  <2>5. Meaning(m, new) = Meaning(o, at)
    BY <1>10, <2>3, <2>4, MeaningCases
  <2>6. Becomes(m, new, SerializeUnknown(g, new))
    BY <1>10, <2>3, <2>4 DEF Becomes
  <2>7. 1 \in DOMAIN blocks
    <3> DEFINE x == v.data  s == <<x>>
    <3>1. ArraysOf(v) = s /\ DOMAIN s = 1..1
      BY <2>1 DEF ArraysOf
    <3> HIDE DEF s
    <3> QED BY <3>1 DEF Holds
  <2>8. v.tag # 0 /\ \A kind \in Kinds : v.tag # TagOf[kind]
    BY <1>10, <2>1
  <2> QED BY <1>3, <2>1, <2>4, <2>5, <2>6, <2>7, <2>8
<1> QED BY <1>1, <1>4, <1>5, <1>6, <1>7, <1>8, <1>9, <1>10 DEF Becomes

\* What an object points to is where it was, with the same elements.
Agree(o, at, new) == \A p \in Pointers(o) : p \in DOMAIN at => p \in DOMAIN new /\ new[p] = at[p]

\* So a pointer leads to the same elements.
LEMMA ElementsStay ==
    ASSUME NEW p, NEW n, NEW at, NEW new, NEW type, PointsTo(p, n, at, type),
           p # NULL /\ p \in DOMAIN at => p \in DOMAIN new /\ new[p] = at[p]
    PROVE  PointsTo(p, n, new, type) /\ Elements(new, p, n) = Elements(at, p, n)
  BY DEF PointsTo, Elements

\* The object tells the same.
LEMMA SameElsewhere ==
    ASSUME NEW o, NEW at, IsGSObject(o, at), NEW new, Agree(o, at, new)
    PROVE  /\ IsGSObject(o, new) /\ Told(o, new) = Told(o, at)
           /\ GSSerialize(o, new) = GSSerialize(o, at)
<1> DEFINE v == GSSerialize(o, at)
<1>1. Becomes(o, at, v) /\ o = [type |-> o.type, u |-> o.u]
  BY ObjectCases
<1> HIDE DEF v
<1>2. SUFFICES Becomes(o, new, v) /\ Meaning(o, new) = Meaning(o, at)
  <2>1. ASSUME Becomes(o, new, v) PROVE IsGSObject(o, new) /\ v = GSSerialize(o, new)
    BY <1>1, <2>1, ObjectCases
  <2> QED BY <2>1, Zenon DEF Told, v
<1>3. CASE o.type = TagOf["Object1"] /\ o.u \in GSObject1 /\ v = SerializeObject1(o.u)
  BY <1>3, MeaningCases DEF Becomes
<1>4. CASE o.type = TagOf["Head1"] /\ o.u \in GSHead1 /\ v = SerializeHead1(o.u)
  BY <1>4, MeaningCases DEF Becomes
<1>5. CASE o.type = TagOf["Hand1"] /\ o.u \in GSHand1 /\ v = SerializeHand1(o.u)
  BY <1>5, MeaningCases DEF Becomes
<1>6. CASE /\ o.type = TagOf["Mesh1"] /\ IsGSMesh1(o.u, at) /\ v = SerializeMesh1(o.u, at)
           /\ Length(SerializeAll(Mesh1Written, v)) < Huge
  <2> PICK g : g = o.u
    OBVIOUS
  <2>1. Pointers(o) = {g.vertices, g.normals, g.textures, g.triangles} \ {NULL}
    BY <1>6, PointerCases
  <2>2. \A p \in {g.vertices, g.normals, g.textures, g.triangles} :
            p # NULL /\ p \in DOMAIN at => p \in DOMAIN new /\ new[p] = at[p]
    BY <2>1 DEF Agree
  <2>3. /\ PointsTo(g.vertices, g.num_vertices, at, GSLoc1)
        /\ PointsTo(g.normals, g.num_normals, at, GSNorm1)
        /\ PointsTo(g.textures, g.num_textures, at, GSTextureUV1)
        /\ PointsTo(g.triangles, g.num_triangles, at, Number) /\ g.id \in Number
        /\ g = [id |-> g.id,
                num_vertices  |-> g.num_vertices,  vertices  |-> g.vertices,
                num_normals   |-> g.num_normals,   normals   |-> g.normals,
                num_textures  |-> g.num_textures,  textures  |-> g.textures,
                num_triangles |-> g.num_triangles, triangles |-> g.triangles]
    BY <1>6 DEF IsGSMesh1
  <2>4. PointsTo(g.vertices, g.num_vertices, new, GSLoc1)
        /\ Elements(new, g.vertices, g.num_vertices) = Elements(at, g.vertices, g.num_vertices)
    BY <2>2, <2>3, ElementsStay
  <2>5. PointsTo(g.normals, g.num_normals, new, GSNorm1)
        /\ Elements(new, g.normals, g.num_normals) = Elements(at, g.normals, g.num_normals)
    BY <2>2, <2>3, ElementsStay
  <2>6. PointsTo(g.textures, g.num_textures, new, GSTextureUV1)
        /\ Elements(new, g.textures, g.num_textures) = Elements(at, g.textures, g.num_textures)
    BY <2>2, <2>3, ElementsStay
  <2>7. PointsTo(g.triangles, g.num_triangles, new, Number)
        /\ Elements(new, g.triangles, g.num_triangles) = Elements(at, g.triangles, g.num_triangles)
    BY <2>2, <2>3, ElementsStay
  <2>8. IsGSMesh1(g, at) /\ IsGSMesh1(g, new)
    BY <1>6, <2>3, <2>4, <2>5, <2>6, <2>7, Zenon DEF IsGSMesh1
  <2>9. /\ MeshArray(g, new, "vertices") = MeshArray(g, at, "vertices")
        /\ MeshArray(g, new, "normals") = MeshArray(g, at, "normals")
        /\ MeshArray(g, new, "textures") = MeshArray(g, at, "textures")
        /\ MeshArray(g, new, "triangles") = MeshArray(g, at, "triangles")
    BY <2>4, <2>5, <2>6, <2>7 DEF MeshArray
  <2> PICK w : w = SerializeMesh1(g, new)
    OBVIOUS
  <2>10. v = SerializeMesh1(g, at) /\ w = v
    BY <1>6, <2>8, <2>9, SameMesh
  <2>11. ToldMesh1(g, new) = ToldMesh1(g, at)
    <3> PICK x : x = ToldMesh1(g, new)
      OBVIOUS
    <3> PICK y : y = ToldMesh1(g, at)
      OBVIOUS
    <3>1. x = [id |-> g.id,
                num_vertices  |-> g.num_vertices,  vertices  |-> MeshArray(g, new, "vertices"),
                num_normals   |-> g.num_normals,   normals   |-> MeshArray(g, new, "normals"),
                num_textures  |-> g.num_textures,  textures  |-> MeshArray(g, new, "textures"),
                num_triangles |-> g.num_triangles, triangles |-> MeshArray(g, new, "triangles")]
      BY <2>8, ToldMesh1Fields
    <3>2. y = [id |-> g.id,
                num_vertices  |-> g.num_vertices,  vertices  |-> MeshArray(g, at, "vertices"),
                num_normals   |-> g.num_normals,   normals   |-> MeshArray(g, at, "normals"),
                num_textures  |-> g.num_textures,  textures  |-> MeshArray(g, at, "textures"),
                num_triangles |-> g.num_triangles, triangles |-> MeshArray(g, at, "triangles")]
      BY <2>8, ToldMesh1Fields
    <3> QED BY <2>9, <3>1, <3>2, Zenon
  <2>12. Becomes(o, new, v)
    BY <1>6, <2>8, <2>10 DEF Becomes
  <2>13. Meaning(o, new) = Meaning(o, at)
    BY <1>6, <2>11, MeaningCases
  <2> QED BY <2>12, <2>13
<1>7. CASE o.type = TagOf["Hand2"] /\ o.u \in GSHand2 /\ v = SerializeHand2(o.u)
  BY <1>7, MeaningCases DEF Becomes
<1>8. CASE o.type = TagOf["HeadIPD1"] /\ o.u \in GSHeadIPD1 /\ v = SerializeHeadIPD(o.u)
  BY <1>8, MeaningCases DEF Becomes
<1>9. CASE /\ \A kind \in Kinds : o.type # TagOf[kind]
           /\ o.type \in Number \ {0} /\ o.u.tag = o.type /\ IsGSUnknownObject(o.u, at)
           /\ v = SerializeUnknown(o.u, at)
  <2> PICK g : g = o.u
    OBVIOUS
  <2>1. Pointers(o) = {g.data} \ {NULL}
    BY <1>9, PointerCases
  <2>2. g.data # NULL /\ g.data \in DOMAIN at => g.data \in DOMAIN new /\ new[g.data] = at[g.data]
    BY <2>1 DEF Agree
  <2>3. /\ g = [tag |-> g.tag, data_length |-> g.data_length, data |-> g.data]
        /\ PointsTo(g.data, g.data_length, at, Byte)
    BY <1>9 DEF IsGSUnknownObject
  <2>4. /\ PointsTo(g.data, g.data_length, new, Byte)
        /\ Elements(new, g.data, g.data_length) = Elements(at, g.data, g.data_length)
    BY <2>2, <2>3, ElementsStay
  <2>5. IsGSUnknownObject(g, new)
    BY <2>3, <2>4, Zenon DEF IsGSUnknownObject
  <2>6. SerializeUnknown(g, new) = v
    BY <1>9, <2>4 DEF SerializeUnknown
  <2>7. ToldUnknown(g, new) = ToldUnknown(g, at)
    <3> DEFINE x == g.tag  y == g.data_length  z == g.data  a == Elements(at, z, y)
    <3>1. g = [tag |-> x, data_length |-> y, data |-> z] /\ Elements(new, z, y) = a
      BY <2>3, <2>4
    <3> HIDE DEF x, y, z, a
    <3>2. ToldUnknown(g, new) = [tag |-> x, data_length |-> y, data |-> a]
      BY <3>1 DEF ToldUnknown
    <3>3. ToldUnknown(g, at) = [tag |-> x, data_length |-> y, data |-> a]
      BY <3>1 DEF ToldUnknown, a
    <3> QED BY <3>2, <3>3
  <2>8. Becomes(o, new, v)
    BY <1>9, <2>5, <2>6 DEF Becomes
  <2>9. Meaning(o, new) = Meaning(o, at)
    BY <1>9, <2>7, MeaningCases
  <2> QED BY <2>8, <2>9
<1> QED BY <1>1, <1>3, <1>4, <1>5, <1>6, <1>7, <1>8, <1>9 DEF Becomes

-----------------------------------------------------------------------------
(* What is in a raw buffer.                                                *)

\* The object v of the library is that of a GS_Object which tells t.
Speaks(v, t) == \E o, at : IsGSObject(o, at) /\ v = GSSerialize(o, at) /\ t = Told(o, at)

\* It can be encoded, and tells something.
LEMMA SpeaksObject ==
    ASSUME NEW v, NEW t, Speaks(v, t)
    PROVE  IsObject(v) /\ t # NoObject
<1>1. PICK o, at : IsGSObject(o, at) /\ v = GSSerialize(o, at) /\ t = Told(o, at)
  BY DEF Speaks
<1>2. IsObject(v) /\ o.type # 0
  BY <1>1, SerializedIsObject
<1>3. t.type = o.type
  BY <1>1 DEF Told
<1>4. NoObject.type = 0
  BY DEF NoObject
<1> QED BY <1>2, <1>3, <1>4

\* What is made of it tells the same.
LEMMA SpeaksBack ==
    ASSUME NEW v, NEW t, Speaks(v, t), NEW new, NEW blocks, Holds(new, blocks, ArraysOf(v)),
           NEW m, m = GSDeserialize(v, blocks)
    PROVE  /\ IsGSObject(m, new) /\ Told(m, new) = t
           /\ Pointers(m) \subseteq {blocks[i] : i \in DOMAIN blocks}
<1>1. PICK o, at : IsGSObject(o, at) /\ v = GSSerialize(o, at) /\ t = Told(o, at)
  BY DEF Speaks
<1> QED BY <1>1, ObjectBack

\* The octets of an object.
Sent(v) == Octets(Written(v))

\* They are decoded where they stand, and refused where they are cut.
LEMMA SentIsRead ==
    ASSUME NEW v, IsObject(v)
    PROVE  /\ IsData(Sent(v)) /\ Len(Sent(v)) \in Nat \ {0} /\ Length(Written(v)) = Len(Sent(v))
           /\ \A s, p : IsData(s) /\ p \in Nat /\ StandsAt(Sent(v), s, p) =>
                 Got(Decode(s, p), p + Len(Sent(v)), Len(Sent(v)), v)
           /\ \A s, p : IsData(s) /\ p \in Nat /\ StandsCut(Sent(v), s, p) => Decode(s, p).threw
<1> DEFINE none == <<>>
<1>1. Sent(v) = ObjectOctets(v, none) /\ IsData(Sent(v)) /\ Len(Sent(v)) \in Nat \ {0}
      /\ Length(Written(v)) = Len(Sent(v))
  BY WrittenOctets DEF Sent, Octets, Length
<1>2. MayFollow(none, v)
  BY NoneFollows
<1> HIDE DEF none
<1>3. ASSUME NEW s, IsData(s), NEW p \in Nat, StandsAt(Sent(v), s, p)
      PROVE  Got(Decode(s, p), p + Len(Sent(v)), Len(Sent(v)), v)
  <2>1. StandsAt(ObjectOctets(v, none), s, p)
    BY <1>1, <1>3
  <2>2. ReadsBack(s, v, none, p)
    BY <1>2, <1>3, <2>1, RoundTrip
  <2> QED BY <1>1, <2>2, Zenon DEF ReadsBack
<1>4. ASSUME NEW s, IsData(s), NEW p \in Nat, StandsCut(Sent(v), s, p)
      PROVE  Decode(s, p).threw
  <2>1. StandsCut(ObjectOctets(v, none), s, p)
    BY <1>1, <1>4
  <2>2. p <= Len(s)
    BY <1>4 DEF StandsCut
  <2> QED BY <1>2, <1>4, <2>1, <2>2, CutObjectThrows
<1> QED BY <1>1, <1>3, <1>4

\* Where the k-th entry of a raw buffer ends, and the octets of its object.
EndAt(w, k) == IF k = 0 THEN 0 ELSE w[k].end

Stands(v, s, from, to) == StandsAt(Sent(v), s, from) /\ to = from + Len(Sent(v))

\* The entries w say what is in the octets s: one object after the other.
Chronicle(w, s) ==
    /\ IsData(s) /\ Len(w) \in Nat /\ w = [k \in 1..Len(w) |-> w[k]]
    /\ \A k \in 0..Len(w) : EndAt(w, k) \in Nat
    /\ \A j, k \in 0..Len(w) : j < k => EndAt(w, j) < EndAt(w, k)
    /\ Len(s) = EndAt(w, Len(w))
    /\ \A k \in 1..Len(w) : \E v : Speaks(v, w[k].object) /\ Stands(v, s, EndAt(w, k - 1), EndAt(w, k))

\* How many entries end at or before n.
FirstEnding(w, n) ==
    LET ends == {k \in 0..Len(w) : k = 0 \/ w[k].end <= n}
    IN  CHOOSE k \in ends : \A i \in ends : i <= k

\* They are the first ones.
LEMMA FirstEntries ==
    ASSUME NEW w, NEW s, Chronicle(w, s), NEW n \in Nat, NEW m, m = FirstEnding(w, n)
    PROVE  m \in 0..Len(w) /\ \A k \in 0..Len(w) : k <= m <=> EndAt(w, k) <= n
<1>a. PICK ends : ends = {k \in 0..Len(w) : k = 0 \/ w[k].end <= n}
  OBVIOUS
<1>b. m = CHOOSE k \in ends : \A i \in ends : i <= k
  BY <1>a, Zenon DEF FirstEnding
<1> DEFINE N == Len(w)  T == {j \in Nat : N - j \notin ends}
<1>1. N \in Nat /\ (\A k \in 0..N : EndAt(w, k) \in Nat)
      /\ \A j, k \in 0..N : j < k => EndAt(w, j) < EndAt(w, k)
  BY DEF Chronicle
<1>2. ends = {k \in 0..N : EndAt(w, k) <= n}
  BY <1>a DEF EndAt
<1> HIDE DEF N
<1>3. 0 \in ends
  <2>1. EndAt(w, 0) = 0 /\ 0 \in 0..N
    BY <1>1 DEF EndAt
  <2> QED BY <1>2, <2>1
<1>4. \E k \in ends : \A i \in ends : i <= k
  <2>1. N \notin T
    BY <1>1, <1>3
  <2>2. PICK j \in Nat : j <= N /\ j \notin T /\ \A i \in Nat : i < j => i \in T
    BY <1>1, <2>1, LeastOutside
  <2>3. N - j \in ends
    BY <2>2
  <2>4. ASSUME NEW i \in ends, ~(i <= N - j) PROVE FALSE
    <3>1. i \in 0..N
      BY <1>2
    <3>2. N - i \in Nat /\ N - i < j /\ N - (N - i) = i
      BY <1>1, <2>2, <2>4, <3>1
    <3>3. N - i \in T
      BY <2>2, <3>2
    <3> QED BY <2>4, <3>2, <3>3
  <2> QED BY <2>3, <2>4
<1>5. m \in ends /\ \A i \in ends : i <= m
  BY <1>b, <1>4, Zenon
<1>6. m \in 0..N /\ EndAt(w, m) <= n
  BY <1>2, <1>5
<1>7. ASSUME NEW k \in 0..N, k <= m PROVE EndAt(w, k) <= n
  <2>1. k = m \/ k < m
    BY <1>1, <1>6, <1>7
  <2>2. k < m => EndAt(w, k) < EndAt(w, m)
    BY <1>1, <1>6
  <2> DEFINE x == EndAt(w, k)  y == EndAt(w, m)
  <2>3. x \in Nat /\ y \in Nat /\ y <= n /\ (x = y \/ x < y)
    BY <1>1, <1>6, <2>1, <2>2
  <2> HIDE DEF x, y
  <2>4. x <= n
    BY <2>3
  <2> QED BY <2>4 DEF x
<1>8. ASSUME NEW k \in 0..N, EndAt(w, k) <= n PROVE k <= m
  BY <1>2, <1>5, <1>8
<1> QED BY <1>6, <1>7, <1>8 DEF N

\* A sequence and one more element.
LEMMA AppendOne ==
    ASSUME NEW S, NEW u \in Seq(S), NEW x \in S, NEW t, t = Append(u, x)
    PROVE  /\ t \in Seq(S) /\ Len(t) = Len(u) + 1 /\ t[Len(u) + 1] = x
           /\ \A k \in 1..Len(u) : t[k] = u[k]
  BY AppendProperties

\* The first part of a sequence.
LEMMA FirstOf ==
    ASSUME NEW S, NEW q \in Seq(S), NEW k \in 0..Len(q), NEW u, u = SubSeq(q, 1, k)
    PROVE  /\ u \in Seq(S) /\ Len(u) = k /\ DOMAIN u = 1..k
           /\ \A i \in 1..k : u[i] = q[i]
<1>1. Len(q) \in Nat /\ k \in Nat /\ \A i \in 1..k : q[i] \in S
  BY LenProperties, ElementOfSeq
<1> DEFINE one == 1
<1>2. /\ u \in Seq(S) /\ Len(u) = IF one <= k THEN k - one + 1 ELSE 0
      /\ \A i \in 1..(k - one + 1) : u[i] = q[one + i - 1]
  BY <1>1, SubSeqProperties
<1>3. Len(u) = k /\ k - one + 1 = k /\ \A i \in 1..k : one + i - 1 = i
  BY <1>1, <1>2
<1>4. \A i \in 1..k : u[i] = q[i]
  BY <1>2, <1>3
<1>5. DOMAIN u = 1..k
  BY <1>2, <1>3, LenProperties
<1> QED BY <1>2, <1>3, <1>4, <1>5

\* The first entries, and those with one more.
LEMMA SomeEntries ==
    ASSUME NEW w, NEW n \in Nat, n = Len(w), w = [k \in 1..n |-> w[k]], NEW m \in 0..n, NEW x,
           NEW u, u = SubSeq(w, 1, m), NEW t, t = Append(u, x)
    PROVE  /\ Len(u) = m /\ DOMAIN u = 1..m /\ \A k \in 1..m : u[k] = w[k]
           /\ Len(t) = m + 1 /\ t = [k \in 1..(m + 1) |-> t[k]] /\ t[m + 1] = x
           /\ \A k \in 1..m : t[k] = w[k]
<1> DEFINE S == {w[k] : k \in 1..n} \cup {x}
<1>1. w \in Seq(S)
  <2>1. \A k \in 1..n : w[k] \in S
    OBVIOUS
  <2> HIDE DEF S
  <2>2. w \in [1..n -> S]
    BY <2>1
  <2> QED BY <2>2, SeqDef
<1>2. x \in S
  OBVIOUS
<1> HIDE DEF S
<1>5. u \in Seq(S) /\ Len(u) = m /\ m \in Nat /\ DOMAIN u = 1..m /\ \A k \in 1..m : u[k] = w[k]
  BY <1>1, FirstOf
<1>7. /\ t \in Seq(S) /\ Len(t) = m + 1 /\ t[m + 1] = x /\ \A k \in 1..m : t[k] = u[k]
  <2>1. u \in Seq(S) /\ x \in S /\ t = Append(u, x)
    BY <1>2, <1>5
  <2>2. /\ t \in Seq(S) /\ Len(t) = Len(u) + 1 /\ t[Len(u) + 1] = x
        /\ \A k \in 1..Len(u) : t[k] = u[k]
    BY ONLY <2>1, AppendOne
  <2> QED BY <1>5, <2>2
<1>8. t = [k \in 1..(m + 1) |-> t[k]]
  BY <1>7, LenProperties
<1> QED BY <1>5, <1>7, <1>8

\* A raw buffer that was not written.
LEMMA EmptyChronicle ==
    ASSUME NEW w, w = <<>>, NEW s, s = <<>>
    PROVE  Chronicle(w, s)
<1>1. IsData(s) /\ Len(s) = 0 /\ Len(w) = 0
  BY EmptySeq DEF IsData
<1>2. w = [k \in 1..0 |-> w[k]] /\ 0 \in Nat /\ 1..0 = {} /\ 0..0 = {0}
  OBVIOUS
<1>3. EndAt(w, 0) = 0
  BY DEF EndAt
<1> QED BY <1>1, <1>2, <1>3 DEF Chronicle

\* The object stands as well in octets that are the same up to its end.
LEMMA StandsToo ==
    ASSUME NEW v, IsObject(v), NEW s, IsData(s), NEW r, IsData(r), NEW from \in Nat, NEW to \in Nat,
           Stands(v, s, from, to), NEW c \in Nat, to <= c, c <= Len(r), \A i \in 1..c : r[i] = s[i]
    PROVE  Stands(v, r, from, to)
<1> DEFINE e == Sent(v)  l == Len(e)
<1>1. l \in Nat
  BY SentIsRead
<1>2. to = from + l /\ \A i \in 1..l : s[from + i] = e[i]
  BY DEF Stands, StandsAt
<1>3. Len(r) \in Nat
  BY LenProperties DEF IsData
<1> HIDE DEF e, l
<1>4. ASSUME NEW i \in 1..l PROVE r[from + i] = e[i]
  <2> DEFINE j == from + i
  <2>1. j \in 1..c
    BY <1>1, <1>2
  <2>2. s[j] = e[i]
    BY <1>2
  <2> HIDE DEF j
  <2>3. r[j] = e[i]
    BY <2>1, <2>2
  <2> QED BY <2>3 DEF j
<1>5. from + l <= Len(r)
  BY <1>1, <1>2, <1>3
<1>6. StandsAt(e, r, from)
  BY <1>4, <1>5 DEF StandsAt, l
<1> QED BY <1>2, <1>6 DEF Stands, e, l

\* An object that tells t, its octets e, after the first m entries.
EntriesWith(w, m, t, e) == Append(SubSeq(w, 1, m), [object |-> t, end |-> EndAt(w, m) + Len(e)])

OctetsWith(w, m, s, e) == SubSeq(s, 1, EndAt(w, m)) \o e

Grown(w, m, s, u, r, e) ==
    /\ Chronicle(u, r) /\ Len(u) = m + 1
    /\ Len(r) = EndAt(w, m) + Len(e) /\ EndAt(u, m + 1) = Len(r)
    /\ EndAt(w, m) \in Nat /\ EndAt(w, m) <= Len(s) /\ \A i \in 1..EndAt(w, m) : r[i] = s[i]

\* An object is written after some of the entries, in place of the others.
LEMMA ChronicleGrows ==
    ASSUME NEW w, NEW s, Chronicle(w, s), NEW m \in 0..Len(w),
           NEW v, NEW t, Speaks(v, t), NEW e, e = Sent(v),
           NEW u, u = EntriesWith(w, m, t, e), NEW r, r = OctetsWith(w, m, s, e)
    PROVE  Grown(w, m, s, u, r, e)
<1>a. PICK c : c = EndAt(w, m)
  OBVIOUS
<1>b. r = SubSeq(s, 1, c) \o e
  BY <1>a DEF OctetsWith
<1> DEFINE n == Len(w)  l == Len(e)  x == [object |-> t, end |-> c + l]  a == Len(s)
<1>1. /\ n \in Nat /\ w = [k \in 1..n |-> w[k]] /\ IsData(s)
      /\ \A k \in 0..n : EndAt(w, k) \in Nat
      /\ \A j, k \in 0..n : j < k => EndAt(w, j) < EndAt(w, k)
      /\ a = EndAt(w, n)
      /\ \A k \in 1..n : \E y : Speaks(y, w[k].object) /\ Stands(y, s, EndAt(w, k - 1), EndAt(w, k))
  BY DEF Chronicle
<1>2. IsObject(v) /\ IsData(e) /\ l \in Nat \ {0}
  BY SpeaksObject, SentIsRead
<1>3. x.object = t /\ x.end = c + l
  OBVIOUS
<1> HIDE DEF n, l, x
<1>4. u = Append(SubSeq(w, 1, m), x) /\ m \in 0..n
  BY <1>a, Zenon DEF x, l, n, EntriesWith
<1>5. /\ Len(u) = m + 1 /\ u = [k \in 1..(m + 1) |-> u[k]] /\ u[m + 1] = x
      /\ \A k \in 1..m : u[k] = w[k]
  BY <1>1, <1>4, SomeEntries DEF n
<1>6. c \in Nat /\ c <= a /\ a \in Nat
  <2>1. m = n \/ m < n
    BY <1>1, <1>4
  <2>2. m < n => EndAt(w, m) < EndAt(w, n)
    BY <1>1, <1>4
  <2>3. EndAt(w, m) \in Nat /\ EndAt(w, n) \in Nat
    BY <1>1, <1>4
  <2> DEFINE i == EndAt(w, m)  j == EndAt(w, n)
  <2>4. c = i /\ a = j /\ i \in Nat /\ j \in Nat /\ (i = j \/ i < j)
    BY <1>a, <1>1, <2>1, <2>2, <2>3
  <2> HIDE DEF i, j, a
  <2> QED BY <2>4
<1> DEFINE h == SubSeq(s, 1, c)
<1>7. h \in Seq(Byte) /\ Len(h) = c /\ \A i \in 1..c : h[i] = s[i]
  <2>1. s \in Seq(Byte) /\ c \in 0..Len(s)
    BY <1>1, <1>6 DEF IsData
  <2> QED BY <2>1, FirstOf
<1> HIDE DEF h
<1>8. r = h \o e
  BY <1>b DEF h
<1>9. /\ r \in Seq(Byte) /\ Len(r) = c + l /\ \A i \in 1..c : r[i] = s[i]
      /\ \A i \in 1..l : r[c + i] = e[i]
  <2>1. e \in Seq(Byte) /\ h \in Seq(Byte) /\ Len(e) = l /\ Len(h) = c
    BY <1>2, <1>7 DEF IsData, l
  <2>2. /\ r \in Seq(Byte) /\ Len(r) = c + l
        /\ \A i \in 1..(c + l) : r[i] = IF i <= c THEN h[i] ELSE e[i - c]
    BY <1>8, <2>1, ConcatProperties
  <2>3. \A i \in 1..c : i \in 1..(c + l) /\ i <= c
    BY <1>2, <1>6
  <2>4. \A i \in 1..l : c + i \in 1..(c + l) /\ ~(c + i <= c) /\ (c + i) - c = i
    BY <1>2, <1>6
  <2>5. \A i \in 1..c : r[i] = s[i]
    BY <1>7, <2>2, <2>3
  <2>6. ASSUME NEW i \in 1..l PROVE r[c + i] = e[i]
    <3> DEFINE j == c + i
    <3>1. j \in 1..(c + l) /\ ~(j <= c) /\ j - c = i
      BY <2>4
    <3> HIDE DEF j
    <3>2. r[j] = e[i]
      BY <2>2, <3>1
    <3> QED BY <3>2 DEF j
  <2> QED BY <2>2, <2>5, <2>6
<1>10. \A k \in 0..m : EndAt(u, k) = EndAt(w, k)
  <2> SUFFICES ASSUME NEW k \in 0..m PROVE EndAt(u, k) = EndAt(w, k)
    OBVIOUS
  <2>1. k = 0 \/ k \in 1..m
    BY <1>4
  <2> QED BY <1>5, <2>1 DEF EndAt
<1>11. EndAt(u, m + 1) = c + l
  <2>1. m + 1 # 0
    BY <1>4
  <2> QED BY <1>3, <1>5, <2>1 DEF EndAt
<1>12. \A k \in 0..(m + 1) : EndAt(u, k) \in Nat
  <2>1. \A k \in 0..(m + 1) : k \in 0..m \/ k = m + 1
    BY <1>4
  <2>2. \A k \in 0..m : k \in 0..n
    BY <1>1, <1>4
  <2>3. c + l \in Nat
    BY <1>2, <1>6
  <2> QED BY <1>1, <1>10, <1>11, <2>1, <2>2, <2>3
<1>13. ASSUME NEW j \in 0..(m + 1), NEW k \in 0..(m + 1), j < k PROVE EndAt(u, j) < EndAt(u, k)
  <2>1. j \in 0..m /\ j \in 0..n /\ j \in Nat
    BY <1>1, <1>4, <1>13
  <2>2. CASE k \in 0..m
    <3>1. k \in 0..n
      BY <1>1, <1>4, <2>2
    <3> QED BY <1>1, <1>10, <1>13, <2>1, <2>2, <3>1
  <2>3. CASE k = m + 1
    <3>1. j < m \/ j = m
      BY <1>4, <2>1
    <3>2. j < m => EndAt(w, j) < c
      BY <1>a, <1>1, <1>4, <2>1
    <3> DEFINE p == EndAt(w, j)
    <3>3. p \in Nat /\ (p < c \/ p = c)
      BY <1>a, <1>1, <2>1, <3>1, <3>2
    <3>4. EndAt(u, j) = p
      BY <1>10, <2>1
    <3> HIDE DEF p
    <3>5. p < c + l
      BY <1>2, <1>6, <3>3
    <3> QED BY <1>11, <2>3, <3>4, <3>5
  <2> QED BY <1>4, <2>2, <2>3
<1>14. IsData(r)
  BY <1>9 DEF IsData
<1>15. ASSUME NEW k \in 1..(m + 1)
       PROVE  \E y : Speaks(y, u[k].object) /\ Stands(y, r, EndAt(u, k - 1), EndAt(u, k))
  <2>1. CASE k \in 1..m
    <3>1. k \in 1..n /\ k - 1 \in 0..m /\ k \in 0..m /\ k \in 0..n /\ k - 1 \in 0..n
      BY <1>1, <1>4, <2>1
    <3>2. PICK y : Speaks(y, w[k].object) /\ Stands(y, s, EndAt(w, k - 1), EndAt(w, k))
      BY <1>1, <3>1
    <3>3. EndAt(u, k - 1) = EndAt(w, k - 1) /\ EndAt(u, k) = EndAt(w, k) /\ u[k] = w[k]
      BY <1>5, <1>10, <2>1, <3>1
    <3>4. EndAt(w, k - 1) \in Nat /\ EndAt(w, k) \in Nat
      BY <1>1, <3>1
    <3>5. EndAt(w, k) <= c
      <4>1. k < m \/ k = m
        BY <1>4, <2>1
      <4>2. k < m => EndAt(w, k) < c
        BY <1>a, <1>1, <1>4, <3>1
      <4> DEFINE p == EndAt(w, k)
      <4>3. p \in Nat /\ (p < c \/ p = c)
        BY <1>a, <3>4, <4>1, <4>2
      <4> HIDE DEF p
      <4>4. p <= c
        BY <1>6, <4>3
      <4> QED BY <4>4 DEF p
    <3>6. c <= Len(r)
      BY <1>2, <1>6, <1>9
    <3>7. IsObject(y)
      BY <3>2, SpeaksObject
    <3>8. Stands(y, r, EndAt(w, k - 1), EndAt(w, k))
      BY <1>1, <1>6, <1>9, <1>14, <3>2, <3>4, <3>5, <3>6, <3>7, StandsToo
    <3> QED BY <3>2, <3>3, <3>8
  <2>2. CASE k = m + 1
    <3>1. u[k].object = t /\ EndAt(u, k) = c + l
      BY <1>3, <1>5, <1>11, <2>2
    <3>2. EndAt(u, k - 1) = c
      <4>1. k - 1 = m /\ m \in 0..m
        BY <1>4, <2>2
      <4> QED BY <1>a, <1>10, <4>1
    <3>3. StandsAt(e, r, c)
      <4>1. c + l <= Len(r)
        BY <1>2, <1>6, <1>9
      <4> QED BY <1>9, <4>1 DEF StandsAt, l
    <3>4. Stands(v, r, c, c + l)
      BY <3>3 DEF Stands, l
    <3> QED BY <3>1, <3>2, <3>4
  <2>3. k \in 1..m \/ k = m + 1
    BY <1>4
  <2> QED BY <2>1, <2>2, <2>3
<1>16. Len(r) = EndAt(u, m + 1)
  BY <1>9, <1>11
<1>17. m + 1 \in Nat
  BY <1>4
<1>18. Chronicle(u, r)
  BY <1>5, <1>12, <1>13, <1>14, <1>15, <1>16, <1>17 DEF Chronicle
<1> QED BY <1>a, <1>5, <1>6, <1>9, <1>16, <1>18, Zenon DEF l, n, a, Grown

\* The entries end one after the other.
LEMMA EndsApart ==
    ASSUME NEW w, NEW s, Chronicle(w, s), NEW i \in 0..Len(w), NEW j \in 0..Len(w),
           EndAt(w, i) = EndAt(w, j)
    PROVE  i = j
<1> DEFINE x == EndAt(w, i)  y == EndAt(w, j)
<1>1. x \in Nat /\ y \in Nat /\ (i < j => x < y) /\ (j < i => y < x)
  BY DEF Chronicle
<1>2. x = y
  OBVIOUS
<1>3. i \in Nat /\ j \in Nat
  BY DEF Chronicle
<1> HIDE DEF x, y
<1> QED BY <1>1, <1>2, <1>3

\* The entries that end at or before n are the first m; the next entry is what
\* is decoded at p.
FirstEnded(w, n, m) == m \in 0..Len(w) /\ \A k \in 0..Len(w) : k <= m <=> EndAt(w, k) <= n

FollowedBy(w, j, u, p) ==
    \E v : Speaks(v, w[j + 1].object) /\ Got(Decode(u, p), EndAt(w, j + 1), Len(Sent(v)), v)

\* What GSDecodeObject finds at the end of an entry in the first n octets of a
\* raw buffer, whose first m entries are there: the next entry, or an exception.
LEMMA NextDecoded ==
    ASSUME NEW w, NEW s, Chronicle(w, s), NEW n \in 0..Len(s), NEW u, u = SubSeq(s, 1, n),
           NEW m, FirstEnded(w, n, m), NEW j \in 0..m, NEW p, p = EndAt(w, j), p < n
    PROVE  /\ IsData(u) /\ Len(u) = n
           /\ j < m => FollowedBy(w, j, u, p)
           /\ j = m => Decode(u, p).threw
<1> DEFINE N == Len(w)  a == Len(s)
<1>1. /\ N \in Nat /\ IsData(s) /\ a = EndAt(w, N)
      /\ \A k \in 0..N : EndAt(w, k) \in Nat
      /\ \A k \in 1..N : \E v : Speaks(v, w[k].object) /\ Stands(v, s, EndAt(w, k - 1), EndAt(w, k))
  BY DEF Chronicle
<1>2. m \in 0..N /\ \A k \in 0..N : k <= m <=> EndAt(w, k) <= n
  BY DEF FirstEnded
<1>3. a \in Nat /\ n \in Nat /\ n <= a
  BY <1>1, LenProperties DEF IsData
<1> HIDE DEF N, a
<1>4. p \in Nat /\ j \in 0..N
  BY <1>1, <1>2
<1>5. j + 1 \in 1..N
  <2>1. j # N
    <3>1. j = N => p = a
      BY <1>1
    <3>2. p < a
      BY <1>3, <1>4
    <3>3. p # a
      BY <1>3, <1>4, <3>2
    <3> QED BY <3>1, <3>3
  <2> QED BY <1>1, <1>4, <2>1
<1> DEFINE k == j + 1
<1>6. PICK v : Speaks(v, w[k].object) /\ Stands(v, s, EndAt(w, k - 1), EndAt(w, k))
  BY <1>1, <1>5
<1>7. k - 1 = j /\ k \in 0..N
  BY <1>4, <1>5
<1> HIDE DEF k
<1> DEFINE e == Sent(v)  q == EndAt(w, k)
<1>8. IsObject(v) /\ IsData(e) /\ Len(e) \in Nat \ {0}
  BY <1>6, SpeaksObject, SentIsRead
<1>9. StandsAt(e, s, p) /\ q = p + Len(e)
  BY <1>6, <1>7 DEF Stands
<1> HIDE DEF e, q
<1>10. /\ u \in Seq(Byte) /\ Len(u) = n
       /\ p + Len(e) <= n => StandsAt(e, u, p)
       /\ p <= n /\ n < p + Len(e) => StandsCut(e, u, p)
  <2>1. s \in Seq(Byte) /\ e \in Seq(Byte) /\ n <= Len(s)
    BY <1>1, <1>3, <1>8 DEF IsData, a
  <2> QED BY <1>3, <1>4, <1>9, <2>1, StandsShorter
<1>11. IsData(u)
  BY <1>10 DEF IsData
<1>12. CASE j < m
  <2>1. k <= m /\ ~(j = m)
    BY <1>2, <1>12 DEF k
  <2>2. q <= n
    BY <1>2, <1>7, <2>1 DEF q
  <2>3. StandsAt(e, u, p)
    BY <1>9, <1>10, <2>2
  <2>4. Got(Decode(u, p), q, Len(e), v)
    BY <1>4, <1>8, <1>9, <1>11, <2>3, SentIsRead DEF e
  <2>5. FollowedBy(w, j, u, p)
    BY <1>6, <2>4, Zenon DEF FollowedBy, k, e, q
  <2> QED BY <1>10, <1>11, <2>1, <2>5
<1>13. CASE j = m
  <2>1. ~(k <= m) /\ ~(j < m)
    BY <1>2, <1>13 DEF k
  <2>2. ~(q <= n) /\ q \in Nat
    BY <1>1, <1>2, <1>7, <2>1 DEF q
  <2> DEFINE l == Len(e)
  <2>3. p <= n /\ n < p + l
    <3>1. l \in Nat /\ q = p + l
      BY <1>8, <1>9
    <3> HIDE DEF l
    <3> QED BY <1>3, <1>4, <2>2, <3>1
  <2>4. StandsCut(e, u, p)
    BY <1>10, <2>3
  <2>5. Decode(u, p).threw
    BY <1>4, <1>8, <1>11, <2>4, SentIsRead DEF e
  <2> QED BY <1>10, <1>11, <2>1, <2>5
<1> QED BY <1>2, <1>12, <1>13

\* What Expected says of the read position p.
ExpectedAt(whole, p) ==
    LET next == {i \in DOMAIN whole : p = IF i = 1 THEN 0 ELSE whole[i - 1].end}
    IN  IF next = {} THEN NoObject ELSE whole[CHOOSE i \in next : TRUE].object

\* It is the entry that follows the one that ends there.
LEMMA NextExpected ==
    ASSUME NEW w, NEW s, Chronicle(w, s), NEW m \in 0..Len(w), NEW whole, whole = SubSeq(w, 1, m),
           NEW j \in 0..m, NEW p, p = EndAt(w, j), NEW x, x = ExpectedAt(whole, p)
    PROVE  /\ j < m => x = w[j + 1].object
           /\ j = m => x = NoObject
<1> DEFINE next == {i \in DOMAIN whole : p = IF i = 1 THEN 0 ELSE whole[i - 1].end}
<1>b. x = IF next = {} THEN NoObject ELSE whole[CHOOSE i \in next : TRUE].object
  BY DEF ExpectedAt
<1> HIDE DEF next
<1>a. next = {i \in DOMAIN whole : p = IF i = 1 THEN 0 ELSE whole[i - 1].end}
  BY DEF next
<1> DEFINE N == Len(w)
<1>1. N \in Nat /\ w = [k \in 1..N |-> w[k]] /\ m \in 0..N
  BY DEF Chronicle
<1>2. DOMAIN whole = 1..m /\ \A k \in 1..m : whole[k] = w[k]
  BY <1>1, SomeEntries
<1>3. ASSUME NEW i \in 1..m
      PROVE  (p = IF i = 1 THEN 0 ELSE whole[i - 1].end) <=> i = j + 1
  <2>1. (IF i = 1 THEN 0 ELSE whole[i - 1].end) = EndAt(w, i - 1)
    <3>1. CASE i = 1
      BY <3>1 DEF EndAt
    <3>2. CASE i # 1
      <4>1. i - 1 \in 1..m /\ i - 1 # 0
        BY <1>1, <3>2
      <4> QED BY <1>2, <3>2, <4>1 DEF EndAt
    <3> QED BY <3>1, <3>2
  <2>2. i - 1 \in 0..N /\ j \in 0..N
    BY <1>1
  <2>3. EndAt(w, j) = EndAt(w, i - 1) => j = i - 1
    BY <2>2, EndsApart
  <2>4. j = i - 1 <=> i = j + 1
    BY <2>2
  <2> QED BY <2>1, <2>3, <2>4
<1>4. next = {i \in 1..m : i = j + 1}
  BY <1>a, <1>2, <1>3
<1>5. CASE j < m
  <2>1. j + 1 \in 1..m /\ ~(j = m)
    BY <1>1, <1>5
  <2>2. next = {j + 1}
    BY <1>4, <2>1
  <2>3. (CHOOSE i \in next : TRUE) = j + 1 /\ next # {}
    BY <2>2
  <2>4. x = whole[j + 1].object
    BY <1>b, <2>3
  <2> QED BY <1>2, <2>1, <2>4
<1>6. CASE j = m
  <2>1. next = {} /\ ~(j < m)
    BY <1>1, <1>4, <1>6
  <2>2. x = NoObject
    BY <1>b, <2>1
  <2> QED BY <2>1, <2>2
<1> QED BY <1>1, <1>5, <1>6

-----------------------------------------------------------------------------
(* The inductive invariant of the C API.                                   *)

\* Each raw buffer holds the objects that its entries name.
Buffered ==
    /\ memory = [b \in Buffers |-> memory[b]] /\ written = [b \in Buffers |-> written[b]]
    /\ \A b \in Buffers : Chronicle(written[b], memory[b]) /\ Len(memory[b]) <= Capacity[b]

\* An encoder context writes after one of them; a closed one has no buffer.
Sink(c) ==
    /\ c = [open |-> c.open, buffer |-> c.buffer, size |-> c.size, length |-> c.length, error |-> c.error]
    /\ c.open \in BOOLEAN /\ (~c.open => c.buffer = NULL)
    /\ c.buffer \in Buffers \cup {NULL}
    /\ c.size = IF c.buffer = NULL THEN 0 ELSE Capacity[c.buffer]
    /\ IF c.buffer = NULL THEN c.length = 0
       ELSE \E k \in 0..Len(written[c.buffer]) : c.length = EndAt(written[c.buffer], k)

\* No two of them write to the same raw buffer.
Sinks ==
    /\ encoder = [e \in Encoders |-> encoder[e]]
    /\ \A e \in Encoders : Sink(encoder[e]) /\ Unshared(e, encoder[e].buffer)

\* A decoder context reads within the octets it was given, and those are there.
Source(c) ==
    /\ c.open \in BOOLEAN /\ c.buffer \in Buffers \cup {NULL}
    /\ c.length \in 0..(IF c.buffer = NULL THEN 0 ELSE Len(memory[c.buffer]))
    /\ c.read \in 0..c.length

Sources == \A d \in Decoders : Source(decoder[d])

\* What the caller has decoded points to arrays of its context, and tells what
\* was encoded.
KeptBy(k, at, contexts) ==
    /\ k.owner \in Decoders \cup {NULL}
    /\ k.owner \in Decoders => /\ IsGSObject(k.object, at) /\ Told(k.object, at) = k.told
                               /\ Pointers(k.object) \subseteq contexts[k.owner].allocations

Kept ==
    /\ slot = [s \in Slots |-> slot[s]]
    /\ \A s \in Slots : KeptBy(slot[s], Pointed, decoder)

Intact == Owned /\ Buffered /\ Sinks /\ Sources /\ Kept

\* What the assumption says of the pointers.
LEMMA PointersApart ==
    NULL \notin Buffers \cup Blocks \cup Decoders /\ Blocks \cap DOMAIN Arrays = {}
  BY ApiAssumption

\* Where blocks and the caller's arrays are, now and after a step.
LEMMA PointedAt ==
    /\ DOMAIN Pointed = Blocks \cup DOMAIN Arrays /\ DOMAIN Pointed' = Blocks \cup DOMAIN Arrays
    /\ \A p \in Blocks : Pointed[p] = heap[p].array /\ Pointed'[p] = heap'[p].array
    /\ \A p \in DOMAIN Arrays : Pointed[p] = Arrays[p]
<1>1. \A p \in DOMAIN Arrays : p \notin Blocks
  BY PointersApart
<1> QED BY <1>1 DEF Pointed

\* What is encoded is an object, or has no type.
LEMMA EncodableObject ==
    ASSUME Kept, NEW o \in Encodable
    PROVE  o.type = 0 \/ IsGSObject(o, Pointed)
<1>1. CASE o \in CObjects
  <2>1. o.type = 0 \/ IsGSObject(o, Arrays)
    BY <1>1, ApiAssumption
  <2>2. Agree(o, Arrays, Pointed)
    BY PointedAt DEF Agree
  <2> QED BY <2>1, <2>2, SameElsewhere
<1>2. CASE \E s \in Slots : slot[s].owner \in Decoders /\ o = slot[s].object
  BY <1>2 DEF Kept, KeptBy
<1> QED BY <1>1, <1>2 DEF Encodable

\* An object stays as it is when its context keeps its arrays and they stay.
LEMMA KeptStays ==
    ASSUME NEW k, KeptBy(k, Pointed, decoder),
           k.owner \in Decoders =>
               /\ decoder[k.owner].allocations \subseteq decoder'[k.owner].allocations
               /\ decoder[k.owner].allocations \subseteq Blocks
               /\ \A p \in decoder[k.owner].allocations : heap'[p] = heap[p]
    PROVE  KeptBy(k, Pointed', decoder')
<1> SUFFICES ASSUME k.owner \in Decoders
             PROVE  /\ IsGSObject(k.object, Pointed') /\ Told(k.object, Pointed') = k.told
                    /\ Pointers(k.object) \subseteq decoder'[k.owner].allocations
  BY DEF KeptBy
<1>1. /\ IsGSObject(k.object, Pointed) /\ Told(k.object, Pointed) = k.told
      /\ Pointers(k.object) \subseteq decoder[k.owner].allocations
  BY DEF KeptBy
<1>2. Agree(k.object, Pointed, Pointed')
  BY <1>1, PointedAt DEF Agree
<1>3. IsGSObject(k.object, Pointed') /\ Told(k.object, Pointed') = Told(k.object, Pointed)
  BY <1>1, <1>2, SameElsewhere
<1> QED BY <1>1, <1>3

-----------------------------------------------------------------------------
(* The steps of an encoder context.                                        *)

\* Nothing that the invariant speaks of changes.
LEMMA NothingMoves ==
    ASSUME Intact, memory' = memory, encoder' = encoder, decoder' = decoder, heap' = heap, slot' = slot,
           written' = written
    PROVE  Intact'
<1>1. Owned'
  BY DEF Intact, Owned, Contexts, AllocationsOwned
<1>2. Buffered'
  BY DEF Intact, Buffered
<1>3. Sinks'
  BY DEF Intact, Sinks, Sink, Unshared
<1>4. Sources'
  BY DEF Intact, Sources, Source
<1>5. Kept'
  BY DEF Intact, Kept, KeptBy, Pointed
<1> QED BY <1>1, <1>2, <1>3, <1>4, <1>5 DEF Intact

\* A context changes, not to a raw buffer of another one, and no octet does.
LEMMA SinkMoves ==
    ASSUME Intact, NEW e \in Encoders, NEW c, encoder' = [encoder EXCEPT ![e] = c],
           Sink(c), Unshared(e, c.buffer),
           memory' = memory, decoder' = decoder, heap' = heap, slot' = slot, written' = written
    PROVE  Intact'
<1>1. Owned'
  BY DEF Intact, Owned, Contexts, AllocationsOwned
<1>2. Buffered'
  BY DEF Intact, Buffered
<1>3. Sinks'
  <2>1. /\ encoder = [f \in Encoders |-> encoder[f]]
        /\ \A f \in Encoders : Sink(encoder[f]) /\ Unshared(f, encoder[f].buffer)
    BY DEF Intact, Sinks
  <2>2. encoder' = [f \in Encoders |-> encoder'[f]] /\ encoder'[e] = c
        /\ \A f \in Encoders \ {e} : encoder'[f] = encoder[f]
    BY <2>1
  <2>3. \A f \in Encoders : Sink(encoder'[f])
    BY <2>1, <2>2
  <2>4. \A x : Sink(x) => Sink(x)'
    BY DEF Sink
  <2>5. \A f, g \in Encoders : f # g => encoder'[f].buffer # encoder'[g].buffer \/ encoder'[f].buffer = NULL
    BY <2>1, <2>2 DEF Unshared
  <2>6. \A f \in Encoders : Unshared(f, encoder[f].buffer)'
    BY <2>5 DEF Unshared
  <2>7. \A f \in Encoders : Sink(encoder[f])'
    BY <2>2, <2>3 DEF Sink
  <2> QED BY <2>2, <2>6, <2>7 DEF Sinks
<1>4. Sources'
  BY DEF Intact, Sources, Source
<1>5. Kept'
  BY DEF Intact, Kept, KeptBy, Pointed
<1> QED BY <1>1, <1>2, <1>3, <1>4, <1>5 DEF Intact

\* Where a context may go on.
Place(c, n) ==
    \/ n = c.length
    \/ c.buffer = NULL /\ n = 0
    \/ c.buffer # NULL /\ \E k \in 0..Len(written[c.buffer]) : n = EndAt(written[c.buffer], k)

Relocated(c, n, text) == [c EXCEPT !.length = n, !.error = text]

\* Another error's text, and another place.
LEMMA SinkRelocated ==
    ASSUME NEW c, Sink(c), NEW n, Place(c, n),
           NEW text, NEW x, x = Relocated(c, n, text)
    PROVE  Sink(x) /\ x.buffer = c.buffer
<1>1. x = [open |-> c.open, buffer |-> c.buffer, size |-> c.size, length |-> n, error |-> text]
  BY DEF Sink, Relocated
<1>2. x.open = c.open /\ x.buffer = c.buffer /\ x.size = c.size /\ x.length = n /\ x.error = text
  BY <1>1
<1>3. x = [open |-> x.open, buffer |-> x.buffer, size |-> x.size, length |-> x.length, error |-> x.error]
  BY <1>1, <1>2, Zenon
<1>4. /\ c.open \in BOOLEAN /\ (~c.open => c.buffer = NULL) /\ c.buffer \in Buffers \cup {NULL}
      /\ c.size = IF c.buffer = NULL THEN 0 ELSE Capacity[c.buffer]
      /\ IF c.buffer = NULL THEN c.length = 0
         ELSE \E k \in 0..Len(written[c.buffer]) : c.length = EndAt(written[c.buffer], k)
  BY DEF Sink
<1>5. IF c.buffer = NULL THEN n = 0
      ELSE \E k \in 0..Len(written[c.buffer]) : n = EndAt(written[c.buffer], k)
  BY <1>4 DEF Place
<1>6. /\ x.open \in BOOLEAN /\ (~x.open => x.buffer = NULL) /\ x.buffer \in Buffers \cup {NULL}
      /\ x.size = IF x.buffer = NULL THEN 0 ELSE Capacity[x.buffer]
      /\ IF x.buffer = NULL THEN x.length = 0
         ELSE \E k \in 0..Len(written[x.buffer]) : x.length = EndAt(written[x.buffer], k)
  BY <1>2, <1>4, <1>5
<1> QED BY <1>2, <1>3, <1>6, Zenon DEF Sink

\* A new context, or one with another raw buffer.
LEMMA NewSink ==
    ASSUME Buffered, NEW g \in Given, NEW b, NEW n, b = g[1], n = g[2], ~Mismatched(b, n),
           NEW c, c = EncoderContext(b, n)
    PROVE  Sink(c) /\ c.buffer = b
<1>1. b \in Buffers \cup {NULL} /\ n = IF b = NULL THEN 0 ELSE Capacity[b]
  <2>1. (b \in Buffers /\ (n = Capacity[b] \/ n = 0)) \/ (b = NULL /\ n \in {0, 1})
    BY DEF Given
  <2>2. NULL \notin Buffers
    BY PointersApart
  <2> QED BY <2>1, <2>2 DEF Mismatched
<1> DEFINE yes == TRUE  zero == 0  none == ""
<1>2. c = [open |-> yes, buffer |-> b, size |-> n, length |-> zero, error |-> none]
  BY DEF EncoderContext
<1>a. yes \in BOOLEAN /\ yes /\ zero = 0
  OBVIOUS
<1> HIDE DEF yes, zero, none
<1>3. c.open = yes /\ c.buffer = b /\ c.size = n /\ c.length = zero /\ c.error = none
  BY <1>2
<1>4. c = [open |-> c.open, buffer |-> c.buffer, size |-> c.size, length |-> c.length, error |-> c.error]
  BY <1>2, <1>3, Zenon
<1>5. b # NULL => \E k \in 0..Len(written[b]) : 0 = EndAt(written[b], k)
  <2>1. b # NULL => Len(written[b]) \in Nat
    BY <1>1 DEF Buffered, Chronicle
  <2>2. EndAt(written[b], 0) = 0
    BY DEF EndAt
  <2> QED BY <2>1, <2>2
<1> QED BY <1>1, <1>a, <1>3, <1>4, <1>5 DEF Sink

\* The steps that write nothing.
LEMMA QuietSteps ==
    ASSUME Intact, NEW e \in Encoders,
           \/ \E g \in Given : GSEncoderInit(e, g[1], g[2]) \/ GSEncoderSetBuffer(e, g[1], g[2])
           \/ GSEncoderResetBuffer(e)
           \/ GSEncoderDataLength(e)
           \/ GetEncoderError(e)
           \/ GSEncoderDestroy(e)
    PROVE  Intact'
<1> DEFINE a == encoder[e]
<1>1. Sink(a) /\ Unshared(e, a.buffer) /\ Buffered
  BY DEF Intact, Sinks
<1>2. ASSUME NEW g \in Given, GSEncoderInit(e, g[1], g[2]) PROVE Intact'
  <2>1. CASE encoder' = encoder
    BY <1>2, <2>1, NothingMoves DEF GSEncoderInit
  <2>2. CASE ~Mismatched(g[1], g[2]) /\ encoder' = [encoder EXCEPT ![e] = EncoderContext(g[1], g[2])]
    <3> DEFINE c == EncoderContext(g[1], g[2])
    <3>1. Sink(c) /\ c.buffer = g[1]
      BY <1>1, <2>2, NewSink
    <3>2. Unshared(e, g[1])
      BY <1>2 DEF GSEncoderInit
    <3>3. memory' = memory /\ decoder' = decoder /\ heap' = heap /\ slot' = slot /\ written' = written
      BY <1>2 DEF GSEncoderInit
    <3> HIDE DEF c
    <3>4. Unshared(e, c.buffer)
      BY <3>1, <3>2
    <3> QED BY <2>2, <3>1, <3>3, <3>4, SinkMoves DEF c
  <2> QED BY <1>2, <2>1, <2>2 DEF GSEncoderInit
<1>3. ASSUME NEW g \in Given, GSEncoderSetBuffer(e, g[1], g[2]) PROVE Intact'
  <2>1. CASE encoder' = encoder
    BY <1>3, <2>1, NothingMoves DEF GSEncoderSetBuffer
  <2>2. CASE ~(g[1] = NULL \/ g[2] = 0) /\ encoder' = [encoder EXCEPT ![e] = EncoderContext(g[1], g[2])]
    <3> DEFINE c == EncoderContext(g[1], g[2])
    <3>0. ~Mismatched(g[1], g[2])
      BY <2>2 DEF Mismatched
    <3>1. Sink(c) /\ c.buffer = g[1]
      BY <1>1, <3>0, NewSink
    <3>2. Unshared(e, g[1])
      BY <1>3 DEF GSEncoderSetBuffer
    <3>3. memory' = memory /\ decoder' = decoder /\ heap' = heap /\ slot' = slot /\ written' = written
      BY <1>3 DEF GSEncoderSetBuffer
    <3> HIDE DEF c
    <3>4. Unshared(e, c.buffer)
      BY <3>1, <3>2
    <3> QED BY <2>2, <3>1, <3>3, <3>4, SinkMoves DEF c
  <2> QED BY <1>3, <2>1, <2>2 DEF GSEncoderSetBuffer
<1>4. ASSUME GSEncoderResetBuffer(e) PROVE Intact'
  <2> DEFINE zero == 0  none == ""  x == [a EXCEPT !.length = zero, !.error = none]
  <2>1. encoder' = [encoder EXCEPT ![e] = x]
    BY <1>4 DEF GSEncoderResetBuffer
  <2>2. Place(a, zero)
    <3>1. a.buffer # NULL => Len(written[a.buffer]) \in Nat
      BY <1>1 DEF Buffered, Chronicle, Sink
    <3>2. EndAt(written[a.buffer], 0) = 0
      BY DEF EndAt
    <3> HIDE DEF a
    <3> QED BY <3>1, <3>2 DEF Place
  <2>3. memory' = memory /\ decoder' = decoder /\ heap' = heap /\ slot' = slot /\ written' = written
    BY <1>4 DEF GSEncoderResetBuffer
  <2>a. x = Relocated(a, zero, none)
    BY DEF Relocated
  <2> HIDE DEF a, zero, none, x
  <2>4. Sink(x) /\ x.buffer = a.buffer
    BY <1>1, <2>2, <2>a, SinkRelocated
  <2> QED BY <1>1, <2>1, <2>3, <2>4, SinkMoves
<1>5. ASSUME GSEncoderDataLength(e) PROVE Intact'
  <2> DEFINE none == ""  x == [a EXCEPT !.error = none]
  <2>1. encoder' = [encoder EXCEPT ![e] = x]
    BY <1>5 DEF GSEncoderDataLength
  <2>2. x = [a EXCEPT !.length = a.length, !.error = none]
    BY <1>1 DEF Sink
  <2>3. memory' = memory /\ decoder' = decoder /\ heap' = heap /\ slot' = slot /\ written' = written
    BY <1>5 DEF GSEncoderDataLength
  <2> HIDE DEF a, none, x
  <2> PICK n : n = a.length
    OBVIOUS
  <2>4. Sink(x) /\ x.buffer = a.buffer
    <3>1. Place(a, n) /\ x = Relocated(a, n, none)
      BY <2>2 DEF Place, Relocated
    <3> QED BY <1>1, <3>1, SinkRelocated
  <2> QED BY <1>1, <2>1, <2>3, <2>4, SinkMoves
<1>6. ASSUME GetEncoderError(e) PROVE Intact'
  BY <1>6, NothingMoves DEF GetEncoderError
<1>7. ASSUME GSEncoderDestroy(e) PROVE Intact'
  <2> DEFINE x == ClosedEncoder
  <2>1. encoder' = [encoder EXCEPT ![e] = x]
    BY <1>7 DEF GSEncoderDestroy
  <2>2. Sink(x) /\ x.buffer = NULL
    BY DEF ClosedEncoder, Sink
  <2>3. memory' = memory /\ decoder' = decoder /\ heap' = heap /\ slot' = slot /\ written' = written
    BY <1>7 DEF GSEncoderDestroy
  <2> HIDE DEF x
  <2>4. Unshared(e, x.buffer)
    BY <2>2 DEF Unshared
  <2> QED BY <2>1, <2>2, <2>3, <2>4, SinkMoves
<1> QED BY <1>2, <1>3, <1>4, <1>5, <1>6, <1>7

\* The octets of an object are appended to the data, or nothing is for want of
\* room.
EncodedAs(r, data, sent, n) ==
    /\ ~r.threw
    /\ Len(data) + Len(sent) <= n => r.objects = 1 /\ r.buffer.data = data \o sent
    /\ ~(Len(data) + Len(sent) <= n) => r.objects = 0 /\ r.buffer.data = data

\* This is what the Encoder does with an object.
LEMMA EncodedForm ==
    ASSUME NEW v, IsObject(v), NEW data, IsData(data), NEW n \in Nat \ {0},
           NEW b, b = [size |-> n, data |-> data, read |-> 0], NEW r, r = Encode(b, v)
    PROVE  EncodedAs(r, data, Sent(v), n)
<1> DEFINE x == Sent(v)  l == Len(x)  a == Len(data)
<1>1. b.size = n /\ b.data = data /\ a \in Nat
  BY LenProperties DEF IsData
<1>2. r = Encoding(b, v)
  BY <1>1, EncodeWhole
<1>3. ObjectOctets(v, <<>>) = x
  BY WrittenOctets DEF Sent, Octets
<1> HIDE DEF x
<1>4. r = IF a + l <= n THEN Outcome([b EXCEPT !.data = @ \o x], 1, l, FALSE)
          ELSE IF n = 0 THEN Outcome(b, 1, l, FALSE)
          ELSE Outcome(b, 0, 0, FALSE)
  BY <1>1, <1>2, <1>3, Zenon DEF Encoding
<1> HIDE DEF a, l
<1>5. n # 0
  OBVIOUS
<1>6. CASE a + l <= n
  <2> DEFINE d == data \o x
  <2>1. r = Outcome([b EXCEPT !.data = @ \o x], 1, l, FALSE)
    BY <1>4, <1>6
  <2>2. [b EXCEPT !.data = @ \o x] = [size |-> n, data |-> d, read |-> 0]
    <3>1. b.data \o x = d
      BY <1>1
    <3>2. [b EXCEPT !.data = @ \o x] = [b EXCEPT !.data = d]
      BY <3>1
    <3> HIDE DEF d
    <3> PICK zero : zero = 0
      OBVIOUS
    <3>3. b = [size |-> n, data |-> data, read |-> zero]
      OBVIOUS
    <3>4. [b EXCEPT !.data = d] = [size |-> n, data |-> d, read |-> zero]
      BY ONLY <3>3
    <3> QED BY <3>2, <3>4
  <2> DEFINE y == [size |-> n, data |-> d, read |-> 0]
  <2>3. y.data = d
    OBVIOUS
  <2> HIDE DEF y
  <2>4. r = [buffer |-> y, objects |-> 1, octets |-> l, threw |-> FALSE]
    BY <2>1, <2>2 DEF Outcome, y
  <2>5. r.buffer = y /\ r.objects = 1 /\ ~r.threw
    BY <2>4
  <2> QED BY <1>6, <2>3, <2>5 DEF x, l, a, EncodedAs
<1>7. CASE ~(a + l <= n)
  <2>1. r = Outcome(b, 0, 0, FALSE)
    BY <1>4, <1>5, <1>7
  <2>2. r.buffer = b /\ r.objects = 0 /\ ~r.threw
    BY <2>1 DEF Outcome
  <2> QED BY <1>1, <1>7, <2>2 DEF x, l, a, EncodedAs
<1> QED BY <1>6, <1>7 DEF x, l, a, EncodedAs

\* GSEncodeObject has no room for the object.
Refused(e, o) ==
    /\ encoder' = [encoder EXCEPT ![e] = Relocated(encoder[e], encoder[e].length, "")]
    /\ memory' = memory /\ written' = written
    /\ Returned("GSEncodeObject", e, o, 0, "")

\* GSEncodeObject appends it.
Appended(e, o) ==
    LET c    == encoder[e]
        b    == c.buffer
        sent == Sent(GSSerialize(o, Pointed))
        end  == c.length + Len(sent)
    IN  /\ encoder' = [encoder EXCEPT ![e] = Relocated(c, end, "")]
        /\ memory' = [memory EXCEPT ![b] = SubSeq(memory[b], 1, c.length) \o sent]
        /\ written' = [written EXCEPT ![b] = Append(EntriesUpTo(b, c.length),
                                                    [object |-> Told(o, Pointed), end |-> end])]
        /\ Returned("GSEncodeObject", e, o, 1, "")

\* It does one or the other.
LEMMA EncodeOutcome ==
    ASSUME Intact, NEW e \in Encoders, NEW o, IsGSObject(o, Pointed), EncodeValue(e, o),
           NEW c, c = encoder[e], NEW v, v = GSSerialize(o, Pointed)
    PROVE  /\ c.buffer \in Buffers /\ c.size = Capacity[c.buffer] /\ c.length \in Nat /\ MayWrite(c)
           /\ IsData(DataOf(c)) /\ Len(DataOf(c)) = c.length
           /\ IF c.length + Len(Sent(v)) <= c.size THEN Appended(e, o) ELSE Refused(e, o)
<1>1. Sink(c) /\ Buffered
  BY DEF Intact, Sinks
<1>2. c.length # c.size /\ MayWrite(c)
  BY DEF EncodeValue
<1> DEFINE b == c.buffer  w == written[b]  s == memory[b]  n == c.length
<1>3. b # NULL /\ b \in Buffers /\ c.size = Capacity[b] /\ Capacity[b] \in Nat \ {0}
      /\ \E k \in 0..Len(w) : n = EndAt(w, k)
  BY <1>1, <1>2, ApiAssumption DEF Sink
<1>4. Chronicle(w, s)
  BY <1>1, <1>3 DEF Buffered
<1>5. IsData(s) /\ n \in 0..Len(s)
  <2> PICK k \in 0..Len(w) : n = EndAt(w, k)
    BY <1>3
  <2> PICK q : q = Sent(v)
    OBVIOUS
  <2>1. k = Len(w) \/ k < Len(w)
    BY <1>4 DEF Chronicle
  <2>2. EndAt(w, k) \in Nat /\ EndAt(w, Len(w)) \in Nat /\ Len(s) = EndAt(w, Len(w)) /\ IsData(s)
        /\ (k < Len(w) => EndAt(w, k) < EndAt(w, Len(w)))
    BY <1>4 DEF Chronicle
  <2> DEFINE i == EndAt(w, k)  j == EndAt(w, Len(w))
  <2>3. n = i /\ Len(s) = j /\ i \in Nat /\ j \in Nat /\ (i = j \/ i < j)
    BY <2>1, <2>2
  <2> HIDE DEF i, j, n, s
  <2>4. n \in 0..Len(s)
    BY <2>3
  <2> QED BY <2>2, <2>4
<1> DEFINE data == DataOf(c)  x == Sent(v)
<1>6. data = SubSeq(s, 1, n) /\ IsData(data) /\ Len(data) = n
  <2>1. data = SubSeq(s, 1, n)
    BY <1>3 DEF DataOf
  <2>2. s \in Seq(Byte)
    BY <1>5 DEF IsData
  <2> HIDE DEF data, s, n
  <2>3. data \in Seq(Byte) /\ Len(data) = n
    BY <1>5, <2>1, <2>2, FirstOf
  <2> QED BY <2>1, <2>3 DEF IsData
<1>7. PICK r : /\ r = Encode(DataBufferOf(c), v)
               /\ LET whole  == r.objects = 1 /\ ~r.threw
                      length == Len(r.buffer.data)
                      text   == IF r.threw THEN "Serializer" ELSE ""
                  IN  /\ memory' = [memory EXCEPT ![b] = IF length = n THEN @ ELSE r.buffer.data]
                      /\ encoder' = [encoder EXCEPT ![e].length = IF whole THEN length ELSE @,
                                                    ![e].error = text]
                      /\ written' = IF ~whole THEN written
                                    ELSE [written EXCEPT ![b] = Append(EntriesUpTo(b, n),
                                                   [object |-> Told(o, Pointed), end |-> length])]
                      /\ Returned("GSEncodeObject", e, o, IF r.threw THEN -1 ELSE r.objects, text)
  BY DEF EncodeValue
<1>8. IsObject(v) /\ IsData(x) /\ Len(x) \in Nat \ {0}
  BY SerializedIsObject, SentIsRead
<1>9. /\ ~r.threw
      /\ n + Len(x) <= c.size => r.objects = 1 /\ r.buffer.data = data \o x
      /\ ~(n + Len(x) <= c.size) => r.objects = 0 /\ r.buffer.data = data
  <2> PICK y : y = DataBufferOf(c)
    OBVIOUS
  <2> PICK m : m = c.size
    OBVIOUS
  <2>1. y = [size |-> m, data |-> data, read |-> 0]
    BY DEF DataBufferOf
  <2>2. r = Encode(y, v) /\ m \in Nat \ {0}
    BY <1>3, <1>7
  <2> HIDE DEF data
  <2>3. EncodedAs(r, data, x, m)
    BY <1>6, <1>8, <2>1, <2>2, EncodedForm
  <2> HIDE DEF x
  <2> QED BY <1>6, <2>3, Zenon DEF EncodedAs
<1> DEFINE length == Len(r.buffer.data)  none == ""
<1>10. CASE n + Len(x) <= c.size
  <2>1. r.objects = 1 /\ ~r.threw /\ r.buffer.data = data \o x
    BY <1>9, <1>10
  <2>2. length = n + Len(x)
    <3>1. data \in Seq(Byte) /\ x \in Seq(Byte)
      BY <1>6, <1>8 DEF IsData
    <3> HIDE DEF data, x
    <3>2. Len(data \o x) = Len(data) + Len(x)
      BY <3>1
    <3> QED BY <1>6, <2>1, <3>2
  <2>3. length # n
    BY <1>5, <1>8, <2>2
  <2>4. /\ memory' = [memory EXCEPT ![b] = r.buffer.data]
        /\ encoder' = [encoder EXCEPT ![e].length = length, ![e].error = none]
        /\ written' = [written EXCEPT ![b] = Append(EntriesUpTo(b, n),
                                                    [object |-> Told(o, Pointed), end |-> length])]
        /\ Returned("GSEncodeObject", e, o, 1, none)
    BY <1>7, <2>1, <2>3
  <2>5. encoder' = [encoder EXCEPT ![e] = Relocated(c, n + Len(x), none)]
    BY <2>2, <2>4 DEF Relocated
  <2>6. Appended(e, o)
    BY <1>6, <2>1, <2>2, <2>4, <2>5 DEF Appended
  <2> QED BY <1>2, <1>3, <1>5, <1>6, <1>10, <2>6
<1>11. CASE ~(n + Len(x) <= c.size)
  <2>1. r.objects = 0 /\ ~r.threw /\ r.buffer.data = data
    BY <1>9, <1>11
  <2>2. length = n
    BY <1>6, <2>1
  <2>a. /\ memory' = [memory EXCEPT ![b] = memory[b]]
        /\ encoder' = [encoder EXCEPT ![e].length = n, ![e].error = none]
    BY <1>7, <2>1, <2>2
  <2>b. written' = written
    <3> DEFINE whole == r.objects = 1 /\ ~r.threw
               more  == [written EXCEPT ![b] = Append(EntriesUpTo(b, n),
                                                      [object |-> Told(o, Pointed), end |-> length])]
    <3>1. ~whole
      BY <2>1
    <3>2. written' = IF ~whole THEN written ELSE more
      BY <1>7, Zenon
    <3> HIDE DEF whole, more
    <3> QED BY <3>1, <3>2
  <2>c. Returned("GSEncodeObject", e, o, 0, none)
    BY <1>7, <2>1
  <2>3. written' = written /\ Returned("GSEncodeObject", e, o, 0, none)
    BY <2>b, <2>c
  <2>4. memory' = memory
    BY <1>1, <2>a DEF Buffered
  <2>5. encoder' = [encoder EXCEPT ![e] = Relocated(c, n, none)]
    BY <2>a DEF Relocated
  <2>6. Refused(e, o)
    BY <2>3, <2>4, <2>5 DEF Refused
  <2> QED BY <1>2, <1>3, <1>5, <1>6, <1>11, <2>6
<1> QED BY <1>10, <1>11

\* Where a context may go on, it goes on after one of the entries; those that
\* end there or before are the first ones.
LEMMA EntriesBefore ==
    ASSUME Buffered, NEW b \in Buffers, NEW n \in Nat
    PROVE  \E m \in 0..Len(written[b]) :
              /\ EntriesUpTo(b, n) = SubSeq(written[b], 1, m)
              /\ \A k \in 0..Len(written[b]) : k <= m <=> EndAt(written[b], k) <= n
<1> DEFINE w == written[b]  s == memory[b]
<1>1. Chronicle(w, s)
  BY DEF Buffered
<1>2. PICK m : m = FirstEnding(w, n)
  OBVIOUS
<1>3. b # NULL
  BY PointersApart
<1>4. EntriesUpTo(b, n) = SubSeq(w, 1, m)
  BY <1>2, <1>3, Zenon DEF EntriesUpTo, FirstEnding
<1>5. m \in 0..Len(w) /\ \A k \in 0..Len(w) : k <= m <=> EndAt(w, k) <= n
  <2> HIDE DEF w, s
  <2> QED BY <1>1, <1>2, FirstEntries
<1> QED BY <1>4, <1>5

\* A context goes on after m entries exactly.
LEMMA EntriesAt ==
    ASSUME Buffered, NEW b \in Buffers, NEW k \in 0..Len(written[b]), NEW n, n = EndAt(written[b], k)
    PROVE  /\ n \in Nat /\ EntriesUpTo(b, n) = SubSeq(written[b], 1, k)
           /\ \A i \in 0..Len(written[b]) : i <= k <=> EndAt(written[b], i) <= n
<1> DEFINE w == written[b]  N == Len(w)
<1>1. /\ N \in Nat /\ \A i \in 0..N : EndAt(w, i) \in Nat
      /\ \A i, j \in 0..N : i < j => EndAt(w, i) < EndAt(w, j)
  BY DEF Buffered, Chronicle
<1>2. n \in Nat
  BY <1>1
<1>3. PICK m \in 0..N : /\ EntriesUpTo(b, n) = SubSeq(w, 1, m)
                        /\ \A i \in 0..N : i <= m <=> EndAt(w, i) <= n
  BY <1>2, EntriesBefore
<1>4. k <= m
  <2> DEFINE x == EndAt(w, k)
  <2>1. x \in Nat /\ x = n /\ (k <= m <=> x <= n)
    BY <1>1, <1>3
  <2> HIDE DEF x
  <2> QED BY <2>1
<1>5. ~(k < m)
  <2> DEFINE x == EndAt(w, k)  y == EndAt(w, m)
  <2>1. x \in Nat /\ y \in Nat /\ x = n /\ (k < m => x < y) /\ (m <= m <=> y <= n)
    BY <1>1, <1>3
  <2>2. m \in Nat
    BY <1>1
  <2> HIDE DEF x, y
  <2> QED BY <2>1, <2>2
<1>6. k = m
  BY <1>1, <1>4, <1>5
<1> QED BY <1>2, <1>3, <1>6

\* Sink, said of any entries.
SinkIn(c, entries) ==
    /\ c = [open |-> c.open, buffer |-> c.buffer, size |-> c.size, length |-> c.length, error |-> c.error]
    /\ c.open \in BOOLEAN /\ (~c.open => c.buffer = NULL)
    /\ c.buffer \in Buffers \cup {NULL}
    /\ c.size = IF c.buffer = NULL THEN 0 ELSE Capacity[c.buffer]
    /\ IF c.buffer = NULL THEN c.length = 0
       ELSE \E k \in 0..Len(entries[c.buffer]) : c.length = EndAt(entries[c.buffer], k)

\* An object is appended: no octet before it changes, where other contexts read,
\* and no other context writes there.
LEMMA AppendedIntact ==
    ASSUME Intact, NEW e \in Encoders, NEW o, IsGSObject(o, Pointed), Appended(e, o),
           MayWrite(encoder[e]), NEW b \in Buffers, b = encoder[e].buffer,
           encoder[e].length + Len(Sent(GSSerialize(o, Pointed))) <= Capacity[b],
           decoder' = decoder, heap' = heap, slot' = slot
    PROVE  Intact'
<1> DEFINE c == encoder[e]  w == written[b]  s == memory[b]  n == c.length
           v == GSSerialize(o, Pointed)  t == Told(o, Pointed)  x == Sent(v)  end == n + Len(x)
<1>0. b # NULL /\ Buffered /\ Sink(c) /\ Unshared(e, b) /\ Sinks /\ Sources
  BY PointersApart DEF Intact, Sinks
<1>1. PICK m \in 0..Len(w) : n = EndAt(w, m)
  BY <1>0 DEF Sink
<1>a. Len(w) \in Nat
  BY <1>0 DEF Buffered, Chronicle
<1>b. m \in Nat /\ m + 1 \in 0..(m + 1)
  <2> DEFINE N == Len(w)
  <2>1. N \in Nat /\ m \in 0..N
    BY <1>a
  <2> HIDE DEF N
  <2> QED BY <2>1
<1>2. n \in Nat /\ EntriesUpTo(b, n) = SubSeq(w, 1, m)
  <2> HIDE DEF n
  <2> QED BY <1>0, <1>1, EntriesAt
<1>3. PICK u : u = Append(SubSeq(w, 1, m), [object |-> t, end |-> end])
  OBVIOUS
<1>4. PICK r : r = SubSeq(s, 1, n) \o x
  OBVIOUS
<1>5. /\ encoder' = [encoder EXCEPT ![e] = Relocated(c, end, "")]
      /\ memory' = [memory EXCEPT ![b] = r]
      /\ written' = [written EXCEPT ![b] = u]
  BY <1>2, <1>3, <1>4 DEF Appended
<1>6. /\ Chronicle(u, r) /\ Len(u) = m + 1 /\ Len(r) = end /\ EndAt(u, m + 1) = end
      /\ n <= Len(r)
  <2>1. Speaks(v, t)
    BY DEF Speaks
  <2>2. Chronicle(w, s)
    BY <1>0 DEF Buffered
  <2>3. Len(x) \in Nat
    <3>1. IsObject(v)
      BY SerializedIsObject
    <3> HIDE DEF v
    <3> QED BY <3>1, SentIsRead
  <2> HIDE DEF v, t, w, s, x, n
  <2>4. x = Sent(v)
    BY DEF x
  <2>5. u = Append(SubSeq(w, 1, m), [object |-> t, end |-> n + Len(x)])
    BY <1>3
  <2> HIDE DEF end
  <2>6. Chronicle(u, r) /\ Len(u) = m + 1 /\ Len(r) = n + Len(x) /\ EndAt(u, m + 1) = Len(r)
    <3>1. u = EntriesWith(w, m, t, x) /\ r = OctetsWith(w, m, s, x)
      BY <1>1, <1>4, <2>5, Zenon DEF EntriesWith, OctetsWith
    <3>2. Grown(w, m, s, u, r, x)
      BY <2>1, <2>2, <2>4, <3>1, ChronicleGrows
    <3> QED BY <1>1, <3>2, Zenon DEF Grown
  <2>7. n <= n + Len(x)
    BY <1>2, <2>3
  <2> QED BY <2>6, <2>7 DEF end
<1>7. end <= Capacity[b]
  OBVIOUS
<1>8. /\ memory'[b] = r /\ \A a \in Buffers : a # b => memory'[a] = memory[a]
      /\ written'[b] = u /\ \A a \in Buffers : a # b => written'[a] = written[a]
      /\ memory' = [a \in Buffers |-> memory'[a]] /\ written' = [a \in Buffers |-> written'[a]]
  <2>1. memory = [a \in Buffers |-> memory[a]] /\ written = [a \in Buffers |-> written[a]]
    BY <1>0 DEF Buffered
  <2> QED BY <1>5, <2>1
<1>9. Owned'
  BY DEF Intact, Owned, Contexts, AllocationsOwned
<1>10. Buffered'
  <2>1. ASSUME NEW a \in Buffers PROVE Chronicle(written'[a], memory'[a]) /\ Len(memory'[a]) <= Capacity[a]
    <3>1. CASE a = b
      BY <1>6, <1>7, <1>8, <3>1
    <3>2. CASE a # b
      BY <1>0, <1>8, <3>2 DEF Buffered
    <3> QED BY <3>1, <3>2
  <2> QED BY <1>8, <2>1 DEF Buffered
<1>11. Sinks'
  <2>1. /\ encoder = [f \in Encoders |-> encoder[f]]
        /\ \A f \in Encoders : Sink(encoder[f]) /\ Unshared(f, encoder[f].buffer)
    BY <1>0 DEF Sinks
  <2>2. encoder' = [f \in Encoders |-> encoder'[f]] /\ encoder'[e] = Relocated(c, end, "")
        /\ \A f \in Encoders \ {e} : encoder'[f] = encoder[f]
    BY <1>5, <2>1
  <2>3. SinkIn(encoder'[e], written') /\ encoder'[e].buffer = b
    <3> DEFINE y == encoder'[e]
    <3> PICK text : text = ""
      OBVIOUS
    <3>1. c = [open |-> c.open, buffer |-> c.buffer, size |-> c.size, length |-> c.length, error |-> c.error]
          /\ c.open \in BOOLEAN /\ (~c.open => c.buffer = NULL) /\ c.size = Capacity[b] /\ c.buffer = b
      BY <1>0 DEF Sink
    <3>2. y = [c EXCEPT !.length = end, !.error = text]
      BY <2>2 DEF Relocated
    <3> HIDE DEF c, y, end
    <3>3. y = [open |-> c.open, buffer |-> c.buffer, size |-> c.size, length |-> end, error |-> text]
      BY ONLY <3>1, <3>2
    <3>4. y.open = c.open /\ y.buffer = c.buffer /\ y.size = c.size /\ y.length = end /\ y.error = text
      BY ONLY <3>3
    <3>5. y = [open |-> y.open, buffer |-> y.buffer, size |-> y.size, length |-> y.length, error |-> y.error]
      BY <3>3, <3>4, Zenon
    <3>6. \E k \in 0..Len(written'[b]) : end = EndAt(written'[b], k)
      <4>3. written'[b] = u /\ Len(u) = m + 1 /\ EndAt(u, m + 1) = end
        BY <1>6, <1>8 DEF end
      <4> QED BY <1>b, <4>3
    <3>7. y.buffer = b /\ y.open \in BOOLEAN /\ (~y.open => y.buffer = NULL) /\ y.size = Capacity[b]
      BY <3>1, <3>4
    <3>8. \E k \in 0..Len(written'[y.buffer]) : y.length = EndAt(written'[y.buffer], k)
      BY <3>4, <3>6, <3>7
    <3>9. SinkIn(y, written')
      <4>1. /\ y = [open |-> y.open, buffer |-> y.buffer, size |-> y.size, length |-> y.length, error |-> y.error]
            /\ y.open \in BOOLEAN /\ (~y.open => y.buffer = NULL) /\ y.buffer \in Buffers \cup {NULL}
            /\ y.size = IF y.buffer = NULL THEN 0 ELSE Capacity[y.buffer]
            /\ IF y.buffer = NULL THEN y.length = 0
               ELSE \E k \in 0..Len(written'[y.buffer]) : y.length = EndAt(written'[y.buffer], k)
        BY <1>0, <3>5, <3>7, <3>8
      <4> QED BY <4>1, Zenon DEF SinkIn
    <3> QED BY <3>7, <3>9 DEF y
  <2>4. ASSUME NEW f \in Encoders \ {e} PROVE SinkIn(encoder'[f], written') /\ (encoder'[f].buffer # b)
    <3> DEFINE y == encoder[f]
    <3>1. Sink(y) /\ y.buffer # b
      BY <1>0, <2>1 DEF Unshared
    <3>2. y.buffer = NULL \/ written'[y.buffer] = written[y.buffer]
      BY <1>8, <3>1 DEF Sink
    <3>3. encoder'[f] = y
      BY <2>2
    <3> HIDE DEF y
    <3>4. /\ y = [open |-> y.open, buffer |-> y.buffer, size |-> y.size, length |-> y.length, error |-> y.error]
          /\ y.open \in BOOLEAN /\ (~y.open => y.buffer = NULL) /\ y.buffer \in Buffers \cup {NULL}
          /\ y.size = IF y.buffer = NULL THEN 0 ELSE Capacity[y.buffer]
          /\ IF y.buffer = NULL THEN y.length = 0
             ELSE \E k \in 0..Len(written[y.buffer]) : y.length = EndAt(written[y.buffer], k)
      BY <3>1 DEF Sink
    <3>5. IF y.buffer = NULL THEN y.length = 0
          ELSE \E k \in 0..Len(written'[y.buffer]) : y.length = EndAt(written'[y.buffer], k)
      BY <3>2, <3>4
    <3> QED BY <3>1, <3>3, <3>4, <3>5 DEF SinkIn
  <2>5. \A f \in Encoders : Sink(encoder[f])'
    <3> SUFFICES ASSUME NEW f \in Encoders PROVE SinkIn(encoder'[f], written')
      BY Zenon DEF Sink, SinkIn
    <3> QED BY <2>3, <2>4
  <2>6. \A f, g \in Encoders : f # g => encoder'[f].buffer # encoder'[g].buffer \/ encoder'[f].buffer = NULL
    BY <2>1, <2>2, <2>3, <2>4 DEF Unshared
  <2> QED BY <2>2, <2>5, <2>6 DEF Sinks, Unshared
<1>12. Sources'
  <2> SUFFICES ASSUME NEW d \in Decoders PROVE Source(decoder[d])'
    BY DEF Sources
  <2> DEFINE y == decoder[d]
  <2>1. Source(y) /\ decoder'[d] = y
    BY <1>0 DEF Sources
  <2>2. y.buffer = b => y.length <= n
    BY DEF MayWrite
  <2>3. y.length \in 0..(IF y.buffer = NULL THEN 0 ELSE Len(memory'[y.buffer]))
    <3>1. CASE y.buffer = b
      <4>1. y.length \in Nat
        BY <1>0, <2>1, <3>1 DEF Source, Buffered, Chronicle, IsData
      <4>2. Len(r) \in Nat
        BY <1>6, LenProperties DEF Chronicle, IsData
      <4>3. y.length <= n /\ memory'[y.buffer] = r /\ n <= Len(r) /\ y.buffer # NULL
        BY <1>0, <1>6, <1>8, <2>2, <3>1
      <4> HIDE DEF y, n
      <4> QED BY <1>2, <4>1, <4>2, <4>3
    <3>2. CASE y.buffer # b
      BY <1>8, <2>1, <3>2 DEF Source
    <3> QED BY <3>1, <3>2
  <2> HIDE DEF y
  <2>4. y.open \in BOOLEAN /\ y.buffer \in Buffers \cup {NULL} /\ y.read \in 0..y.length
    BY <2>1 DEF Source
  <2> QED BY <2>1, <2>3, <2>4 DEF Source
<1>13. Kept'
  BY DEF Intact, Kept, KeptBy, Pointed
<1> QED BY <1>9, <1>10, <1>11, <1>12, <1>13 DEF Intact

\* Nothing is written.
LEMMA NothingEncoded ==
    ASSUME Intact, NEW e \in Encoders, NEW c, c = encoder[e], NEW text,
           encoder' = [encoder EXCEPT ![e] = Relocated(c, c.length, text)],
           memory' = memory, written' = written, decoder' = decoder, heap' = heap, slot' = slot
    PROVE  Intact' /\ encoder'[e].length = c.length /\ DataOf(c)' = DataOf(c)
<1>1. Sink(c) /\ Unshared(e, c.buffer)
  BY DEF Intact, Sinks
<1> PICK n : n = c.length
  OBVIOUS
<1> PICK x : x = Relocated(c, n, text)
  OBVIOUS
<1>2. Place(c, n)
  BY DEF Place
<1>3. Sink(x) /\ x.buffer = c.buffer
  BY <1>1, <1>2, SinkRelocated
<1>4. encoder' = [encoder EXCEPT ![e] = x]
  OBVIOUS
<1>5. Intact'
  BY <1>1, <1>3, <1>4, SinkMoves
<1>6. encoder = [f \in Encoders |-> encoder[f]]
  BY DEF Intact, Sinks
<1>7. x.length = n
  <2>1. c = [open |-> c.open, buffer |-> c.buffer, size |-> c.size, length |-> c.length, error |-> c.error]
    BY <1>1 DEF Sink
  <2>2. x = [c EXCEPT !.length = n, !.error = text]
    BY DEF Relocated
  <2>3. x = [open |-> c.open, buffer |-> c.buffer, size |-> c.size, length |-> n, error |-> text]
    BY ONLY <2>1, <2>2
  <2> QED BY ONLY <2>3
<1>8. encoder'[e].length = c.length
  BY <1>4, <1>6, <1>7
<1>9. DataOf(c)' = DataOf(c)
  BY DEF DataOf
<1> QED BY <1>5, <1>8, <1>9

\* The outcome of GSEncodeObject(e, o): what EncodesAllOrNothing says of it.
WholeOrNothing(e, o, result) ==
    LET c    == encoder[e]
        need == IF o.type = 0 THEN 0 ELSE Length(Written(GSSerialize(o, Pointed)))
    IN  /\ encoder'[e].length = c.length + (IF result = 1 THEN need ELSE 0)
        /\ c.length > 0 => SubSeq(memory'[c.buffer], 1, c.length) = DataOf(c)
        /\ result = 0 => c.length + need > c.size \/ c.length = c.size
        /\ result = -1 => o.type = 0 \/ "copy" \in Failures

\* The calls that have written nothing.
LEMMA NothingIsNothing ==
    ASSUME Intact, NEW e \in Encoders, NEW o, NEW text, NEW result \in {0, -1},
           EncodesNothing(e, o, result, text), decoder' = decoder, heap' = heap, slot' = slot,
           result = 0 => encoder[e].length = encoder[e].size,
           result = -1 => o.type = 0 \/ "copy" \in Failures
    PROVE  Intact' /\ WholeOrNothing(e, o, result)
<1> PICK c : c = encoder[e]
  OBVIOUS
<1>1. Sink(c) /\ Buffered
  BY DEF Intact, Sinks
<1>2. encoder' = [encoder EXCEPT ![e] = Relocated(c, c.length, text)]
  <2>1. c = [open |-> c.open, buffer |-> c.buffer, size |-> c.size, length |-> c.length, error |-> c.error]
    BY <1>1 DEF Sink
  <2>2. [c EXCEPT !.error = text] = [c EXCEPT !.length = c.length, !.error = text]
    BY ONLY <2>1
  <2>3. encoder' = [encoder EXCEPT ![e] = [c EXCEPT !.error = text]]
    BY DEF EncodesNothing
  <2> QED BY <2>2, <2>3, Zenon DEF Relocated
<1>3. memory' = memory /\ written' = written
  BY DEF EncodesNothing
<1>4. Intact' /\ encoder'[e].length = c.length
  BY <1>2, <1>3, NothingEncoded
<1>5. c.length \in Nat /\ (c.length > 0 => c.buffer # NULL)
  <2>1. CASE c.buffer = NULL
    BY <1>1, <2>1 DEF Sink
  <2>2. CASE c.buffer # NULL
    <3>1. c.buffer \in Buffers
      BY <1>1, <2>2 DEF Sink
    <3>2. Chronicle(written[c.buffer], memory[c.buffer])
      BY <1>1, <3>1 DEF Buffered
    <3>3. \A k \in 0..Len(written[c.buffer]) : EndAt(written[c.buffer], k) \in Nat
      BY <3>2 DEF Chronicle
    <3> QED BY <1>1, <2>2, <3>3 DEF Sink
  <2> QED BY <2>1, <2>2
<1>6. c.length > 0 => SubSeq(memory'[c.buffer], 1, c.length) = DataOf(c)
  BY <1>3, <1>5 DEF DataOf
<1> DEFINE need == IF o.type = 0 THEN 0 ELSE Length(Written(GSSerialize(o, Pointed)))
<1>7. WholeOrNothing(e, o, result)
  <2> HIDE DEF need
  <2>1. encoder'[e].length = c.length + (IF result = 1 THEN need ELSE 0)
    BY <1>4, <1>5
  <2>2. result = 0 => c.length + need > c.size \/ c.length = c.size
    OBVIOUS
  <2> QED BY <1>6, <2>1, <2>2, Zenon DEF WholeOrNothing, need
<1> QED BY <1>4, <1>7

\* The beginning of octets that others follow.
LEMMA BeginsWith ==
    ASSUME NEW s, IsData(s), NEW r, IsData(r), NEW n \in Nat, n <= Len(s), n <= Len(r),
           \A i \in 1..n : r[i] = s[i]
    PROVE  SubSeq(r, 1, n) = SubSeq(s, 1, n)
<1>1. r \in Seq(Byte) /\ s \in Seq(Byte) /\ n \in 0..Len(r) /\ n \in 0..Len(s)
  BY LenProperties DEF IsData
<1> DEFINE a == SubSeq(r, 1, n)  b == SubSeq(s, 1, n)
<1>2. /\ a \in Seq(Byte) /\ Len(a) = n
      /\ \A i \in 1..n : a[i] = r[i]
  BY <1>1, FirstOf
<1>3. /\ b \in Seq(Byte) /\ Len(b) = n
      /\ \A i \in 1..n : b[i] = s[i]
  BY <1>1, FirstOf
<1> HIDE DEF a, b
<1>4. \A i \in 1..n : a[i] = b[i]
  BY <1>2, <1>3
<1> QED BY <1>2, <1>3, <1>4, SeqEqual DEF a, b

\* The three results are different.
LEMMA ResultsDiffer == 0 # -1 /\ 1 # -1 /\ 0 # 1
  OBVIOUS

\* GSEncodeObject keeps the invariant, and has its promised outcome.
LEMMA EncodeIntact ==
    ASSUME Intact, NEW e \in Encoders, NEW o \in Encodable, GSEncodeObject(e, o)
    PROVE  Intact' /\ WholeOrNothing(e, o, out'.result) /\ out'.given = o
<1> DEFINE c == encoder[e]
<1>1. decoder' = decoder /\ heap' = heap /\ slot' = slot
  BY DEF GSEncodeObject
<1>2. ASSUME NEW result, NEW text, EncodesNothing(e, o, result, text)
      PROVE  out'.result = result /\ out'.given = o
  BY <1>2 DEF EncodesNothing, Returned
<1>3. CASE EncodeFull(e, o)
  <2> PICK none, zero : none = "" /\ zero = 0
    OBVIOUS
  <2>1. EncodesNothing(e, o, zero, none) /\ c.length = c.size /\ zero \in {0, -1} /\ zero # -1
    <3>1. EncodesNothing(e, o, 0, "") /\ c.length = c.size
      BY <1>3 DEF EncodeFull
    <3> QED BY <3>1, ResultsDiffer, Zenon
  <2>2. Intact' /\ WholeOrNothing(e, o, zero)
    BY <1>1, <2>1, NothingIsNothing
  <2> QED BY <1>2, <2>1, <2>2
<1>4. ASSUME NEW text, EncodesNothing(e, o, -1, text), o.type = 0 \/ "copy" \in Failures
      PROVE  Intact' /\ WholeOrNothing(e, o, out'.result) /\ out'.given = o
  <2> PICK minus : minus = -1
    OBVIOUS
  <2>1. EncodesNothing(e, o, minus, text) /\ minus \in {0, -1} /\ minus # 0
    BY <1>4
  <2>2. Intact' /\ WholeOrNothing(e, o, minus)
    BY <1>1, <1>4, <2>1, NothingIsNothing
  <2> QED BY <1>2, <2>1, <2>2
<1>5. CASE EncodeInvalid(e, o)
  <2>1. o.type = 0 /\ \E text : EncodesNothing(e, o, -1, text)
    BY <1>5 DEF EncodeInvalid
  <2> QED BY <1>4, <2>1
<1>6. CASE EncodeNoMemory(e, o)
  <2>1. "copy" \in Failures /\ \E text : EncodesNothing(e, o, -1, text)
    BY <1>6 DEF EncodeNoMemory
  <2> QED BY <1>4, <2>1
<1>7. CASE EncodeValue(e, o)
  <2> DEFINE v == GSSerialize(o, Pointed)  x == Sent(v)  b == c.buffer  n == c.length  s == memory[b]
  <2>1. IsGSObject(o, Pointed) /\ o.type # 0
    <3>1. Kept
      BY DEF Intact
    <3> QED BY <1>7, <3>1, EncodableObject DEF EncodeValue
  <2>2. /\ b \in Buffers /\ c.size = Capacity[b] /\ n \in Nat /\ MayWrite(c)
        /\ IsData(DataOf(c)) /\ Len(DataOf(c)) = n
        /\ IF n + Len(x) <= c.size THEN Appended(e, o) ELSE Refused(e, o)
    BY <1>7, <2>1, EncodeOutcome
  <2>3. b # NULL
    BY <2>2, PointersApart
  <2>4. IsObject(v) /\ Length(Written(v)) = Len(x) /\ Len(x) \in Nat
    <3>1. IsObject(v)
      BY <2>1, SerializedIsObject
    <3> HIDE DEF v
    <3> QED BY <3>1, SentIsRead
  <2> DEFINE need == IF o.type = 0 THEN 0 ELSE Length(Written(v))
  <2>5. need = Len(x)
    BY <2>1, <2>4
  <2>6. CASE ~(n + Len(x) <= c.size)
    <3>1. Refused(e, o)
      BY <2>2, <2>6
    <3> PICK none : none = ""
      OBVIOUS
    <3>2. /\ encoder' = [encoder EXCEPT ![e] = Relocated(c, n, none)]
          /\ memory' = memory /\ written' = written /\ out'.result = 0 /\ out'.given = o
      BY <3>1 DEF Refused, Returned
    <3>3. Intact' /\ encoder'[e].length = n
      BY <1>1, <3>2, NothingEncoded
    <3>4. SubSeq(memory'[b], 1, n) = DataOf(c)
      BY <2>3, <3>2 DEF DataOf
    <3>5. c.size \in Nat
      BY <2>2, ApiAssumption
    <3> PICK l, z, k : l = Len(x) /\ z = c.size /\ k = n
      OBVIOUS
    <3>6. k + l > z /\ k = k + 0
      <4>1. l \in Nat /\ z \in Nat /\ k \in Nat /\ ~(k + l <= z)
        BY <2>2, <2>4, <2>6, <3>5
      <4> QED BY ONLY <4>1
    <3>8. WholeOrNothing(e, o, 0)
      <4>1. encoder'[e].length = n + (IF 0 = 1 THEN need ELSE 0)
        BY <3>3, <3>6, ResultsDiffer, Zenon
      <4>2. n + need > c.size
        BY <2>5, <3>6, Zenon
      <4> QED BY <3>4, <4>1, <4>2, ResultsDiffer, Zenon DEF WholeOrNothing
    <3> QED BY <3>2, <3>3, <3>8
  <2>7. CASE n + Len(x) <= c.size
    <3>1. Appended(e, o)
      BY <2>2, <2>7
    <3>2. Intact'
      BY <1>1, <2>1, <2>2, <2>7, <3>1, AppendedIntact
    <3>3. /\ encoder' = [encoder EXCEPT ![e] = Relocated(c, n + Len(x), "")]
          /\ memory' = [memory EXCEPT ![b] = SubSeq(s, 1, n) \o x]
          /\ out'.result = 1 /\ out'.given = o
      BY <3>1 DEF Appended, Returned
    <3>4. encoder'[e].length = n + Len(x)
      <4>1. encoder = [f \in Encoders |-> encoder[f]] /\ Sink(c)
        BY DEF Intact, Sinks
      <4>2. encoder'[e] = Relocated(c, n + Len(x), "")
        BY <3>3, <4>1
      <4>3. c = [open |-> c.open, buffer |-> c.buffer, size |-> c.size, length |-> c.length, error |-> c.error]
        BY <4>1 DEF Sink
      <4> HIDE DEF c, n, x
      <4> QED BY <4>2, <4>3 DEF Relocated
    <3>5. SubSeq(memory'[b], 1, n) = DataOf(c)
      <4> PICK r : r = memory'[b]
        OBVIOUS
      <4> PICK h : h = DataOf(c)
        OBVIOUS
      <4>1. memory = [a \in Buffers |-> memory[a]]
        BY DEF Intact, Buffered
      <4>2. r = h \o x /\ h = SubSeq(s, 1, n)
        BY <2>2, <2>3, <3>3, <4>1 DEF DataOf
      <4>3. IsData(x)
        <5> HIDE DEF v
        <5> QED BY <2>4, SentIsRead
      <4>4. IsData(h) /\ Len(h) = n
        BY <2>2
      <4> HIDE DEF x, s, n
      <4>5. h \in Seq(Byte) /\ x \in Seq(Byte)
        BY <4>3, <4>4 DEF IsData
      <4>6. /\ r \in Seq(Byte) /\ Len(r) = n + Len(x)
            /\ \A i \in 1..(n + Len(x)) : r[i] = IF i <= n THEN h[i] ELSE x[i - n]
        BY <4>2, <4>4, <4>5, ConcatProperties
      <4>7. \A i \in 1..n : i \in 1..(n + Len(x)) /\ i <= n
        BY <2>2, <2>4 DEF n
      <4>8. n <= Len(r) /\ n \in Nat /\ n <= Len(h)
        BY <2>2, <2>4, <4>4, <4>6 DEF n
      <4>9. \A i \in 1..n : r[i] = h[i]
        BY <4>6, <4>7
      <4>10. SubSeq(r, 1, n) = SubSeq(h, 1, n)
        <5>1. IsData(r)
          BY <4>6 DEF IsData
        <5> QED BY <4>4, <4>8, <4>9, <5>1, BeginsWith
      <4>11. SubSeq(h, 1, n) = h
        <5> DEFINE q == SubSeq(h, 1, n)
        <5>1. n \in 0..Len(h) /\ n \in Nat
          BY <4>4, <4>8
        <5>2. q \in Seq(Byte) /\ Len(q) = n /\ \A i \in 1..n : q[i] = h[i]
          BY <4>5, <5>1, FirstOf
        <5> HIDE DEF q
        <5>3. q = h
          BY <4>4, <4>5, <5>2, SeqEqual
        <5> QED BY <5>3 DEF q
      <4> QED BY <4>10, <4>11 DEF n
    <3>6. WholeOrNothing(e, o, 1)
      <4>1. encoder'[e].length = n + (IF 1 = 1 THEN need ELSE 0)
        BY <2>5, <3>4
      <4> QED BY <3>5, <4>1, ResultsDiffer, Zenon DEF WholeOrNothing
    <3> QED BY <3>2, <3>3, <3>6
  <2> QED BY <2>6, <2>7
<1> QED BY <1>3, <1>5, <1>6, <1>7 DEF GSEncodeObject

-----------------------------------------------------------------------------
(* The steps of a decoder context that decode nothing.                     *)

\* A length that a caller gives is not more than what the raw buffer holds.
LEMMA LengthsHere ==
    ASSUME Buffered, NEW b \in Buffers, NEW n \in Lengths(b)
    PROVE  n \in 0..Len(memory[b])
<1> DEFINE w == written[b]  s == memory[b]  N == Len(w)  ends == {w[i].end : i \in DOMAIN w}
<1>1. b # NULL /\ Chronicle(w, s)
  BY PointersApart DEF Buffered
<1>2. /\ N \in Nat /\ w = [k \in 1..N |-> w[k]] /\ \A k \in 0..N : EndAt(w, k) \in Nat
      /\ \A i, j \in 0..N : i < j => EndAt(w, i) < EndAt(w, j)
      /\ Len(s) = EndAt(w, N)
  BY <1>1 DEF Chronicle
<1>3. n \in {0} \cup ends \cup {k \in 1..Len(s) : \E c \in Cuts : k + c \in ends}
  BY <1>1 DEF Lengths
<1>4. Len(s) \in Nat
  BY <1>2
<1>5. ASSUME NEW i \in DOMAIN w PROVE w[i].end \in 0..Len(s)
  <2> HIDE DEF w, N
  <2>1. i \in 1..N
    BY <1>2
  <2>2. i # 0 /\ i \in 0..N /\ N \in 0..N /\ (i = N \/ i < N)
    BY <1>2, <2>1
  <2> DEFINE x == EndAt(w, i)  y == EndAt(w, N)
  <2>3. w[i].end = x
    BY <2>2 DEF EndAt
  <2>4. x \in Nat /\ y \in Nat /\ (x = y \/ x < y) /\ Len(s) = y
    BY <1>2, <2>2
  <2> HIDE DEF x, y, s
  <2> QED BY <2>3, <2>4
<1>6. CASE n \in ends
  BY <1>5, <1>6
<1>7. CASE n \in 1..Len(s)
  BY <1>4, <1>7
<1>8. CASE n = 0
  BY <1>4, <1>8
<1> QED BY <1>3, <1>6, <1>7, <1>8

\* A context changes but not its arrays, and no octet or array does.
LEMMA SourceMoves ==
    ASSUME Intact, Owned', NEW d \in Decoders, NEW c, decoder' = [decoder EXCEPT ![d] = c],
           Source(c), c.allocations = decoder[d].allocations,
           memory' = memory, encoder' = encoder, heap' = heap, slot' = slot, written' = written
    PROVE  Intact'
<1>1. Buffered'
  BY DEF Intact, Buffered
<1>2. Sinks'
  BY DEF Intact, Sinks, Sink, Unshared
<1>3. decoder = [a \in Decoders |-> decoder[a]] /\ \A a \in Decoders : decoder[a].allocations \subseteq Blocks
  BY DEF Intact, Owned, Contexts, Context
<1>4. /\ decoder'[d] = c /\ \A a \in Decoders : a # d => decoder'[a] = decoder[a]
      /\ \A a \in Decoders : decoder'[a].allocations = decoder[a].allocations
  BY <1>3
<1>5. Sources'
  <2> SUFFICES ASSUME NEW a \in Decoders PROVE Source(decoder'[a])
    BY DEF Sources, Source
  <2> QED BY <1>4 DEF Intact, Sources
<1>6. Kept'
  <2>1. slot = [t \in Slots |-> slot[t]] /\ \A t \in Slots : KeptBy(slot[t], Pointed, decoder)
    BY DEF Intact, Kept
  <2>2. ASSUME NEW t \in Slots PROVE KeptBy(slot'[t], Pointed', decoder')
    <3> PICK k : k = slot[t]
      OBVIOUS
    <3>1. KeptBy(k, Pointed, decoder) /\ slot'[t] = k
      BY <2>1
    <3>2. k.owner \in Decoders =>
             /\ decoder[k.owner].allocations \subseteq decoder'[k.owner].allocations
             /\ decoder[k.owner].allocations \subseteq Blocks
             /\ \A p \in decoder[k.owner].allocations : heap'[p] = heap[p]
      BY <1>3, <1>4
    <3> QED BY <3>1, <3>2, KeptStays
  <2> QED BY <2>1, <2>2 DEF Kept
<1> QED BY <1>1, <1>2, <1>5, <1>6 DEF Intact

\* A context that reads what a caller gives.
LEMMA NewSource ==
    ASSUME Buffered, NEW b \in Buffers \cup {NULL}, NEW n \in Lengths(b), b = NULL => n = 0,
           NEW c, c.open \in BOOLEAN, c.buffer = b, c.length = n, c.read = 0
    PROVE  Source(c)
<1>1. CASE b = NULL
  BY <1>1 DEF Source
<1>2. CASE b # NULL
  <2>1. n \in 0..Len(memory[b])
    BY <1>2, LengthsHere
  <2>2. 0 \in 0..n
    BY <2>1
  <2> QED BY <1>2, <2>1, <2>2 DEF Source
<1> QED BY <1>1, <1>2

\* Another place to read at, and another error's text.
ReadTo(c, n, text) == [c EXCEPT !.read = n, !.error = text]

\* The context still reads within its octets.
LEMMA SourceRead ==
    ASSUME NEW c, Context(c), Source(c), NEW n \in 0..c.length, NEW text, NEW x, x = ReadTo(c, n, text)
    PROVE  Source(x) /\ x.allocations = c.allocations
<1>1. /\ x.open = c.open /\ x.buffer = c.buffer /\ x.length = c.length /\ x.read = n
      /\ x.allocations = c.allocations
  BY DEF Context, ReadTo
<1> QED BY <1>1 DEF Source

\* The steps that decode nothing.
LEMMA StillSteps ==
    ASSUME Intact, Owned', NEW d \in Decoders,
           \/ \E b \in Buffers \cup {NULL} : \E n \in Lengths(b) :
                 GSDecoderInit(d, b, n) \/ GSDecoderSetBuffer(d, b, n)
           \/ \E n \in Lengths(decoder[d].buffer) : GSDecoderResetBuffer(d, n)
           \/ GetDecoderError(d)
    PROVE  Intact'
<1> DEFINE a == decoder[d]
<1>1. Context(a) /\ Source(a) /\ Buffered
  BY DEF Intact, Owned, Contexts, Sources
<1>2. ASSUME NEW b \in Buffers \cup {NULL}, NEW n \in Lengths(b), GSDecoderInit(d, b, n) PROVE Intact'
  <2>0. /\ memory' = memory /\ encoder' = encoder /\ heap' = heap /\ slot' = slot /\ written' = written
        /\ ~a.open
    BY <1>2 DEF GSDecoderInit
  <2>1. CASE decoder' = decoder
    BY <2>0, <2>1, NothingMoves
  <2>2. CASE /\ ~Mismatched(b, n)
             /\ decoder' = [decoder EXCEPT ![d] = [open |-> TRUE, buffer |-> b, length |-> n,
                                                   read |-> 0, error |-> "", allocations |-> {}]]
    <3> PICK c : c = [open |-> TRUE, buffer |-> b, length |-> n, read |-> 0, error |-> "", allocations |-> {}]
      OBVIOUS
    <3>1. c.open \in BOOLEAN /\ c.buffer = b /\ c.length = n /\ c.read = 0 /\ c.allocations = {}
      OBVIOUS
    <3>2. b = NULL => n = 0
      <4>1. b = NULL => n \in {0, 1}
        BY DEF Lengths
      <4>2. ~(b = NULL /\ n > 0)
        BY <2>2 DEF Mismatched
      <4> QED BY ONLY <4>1, <4>2
    <3>3. Source(c)
      <4>1. b \in Buffers \cup {NULL} /\ n \in Lengths(b)
        OBVIOUS
      <4> QED BY ONLY <1>1, <3>1, <3>2, <4>1, NewSource
    <3>4. c.allocations = a.allocations
      BY <1>1, <2>0, <3>1 DEF Context
    <3>5. decoder' = [decoder EXCEPT ![d] = c]
      BY <2>2
    <3> HIDE DEF a
    <3> QED BY <2>0, <3>3, <3>4, <3>5, SourceMoves DEF a
  <2> QED BY <1>2, <2>1, <2>2 DEF GSDecoderInit
<1>3. ASSUME NEW b \in Buffers, NEW n \in Lengths(b), a.open,
             decoder' = [decoder EXCEPT ![d] = Reading(a, b, n)],
             memory' = memory, encoder' = encoder, heap' = heap, slot' = slot, written' = written
      PROVE  Intact'
  <2> PICK c : c = Reading(a, b, n)
    OBVIOUS
  <2>1. c.open = a.open /\ c.buffer = b /\ c.length = n /\ c.read = 0 /\ c.allocations = a.allocations
    BY <1>1 DEF Reading, Context
  <2>2. b # NULL /\ c.open \in BOOLEAN
    BY <1>1, <2>1, PointersApart DEF Source
  <2>3. Source(c)
    BY <1>1, <2>1, <2>2, NewSource
  <2> QED BY <1>3, <2>1, <2>3, SourceMoves
<1>4. ASSUME NEW b \in Buffers \cup {NULL}, NEW n \in Lengths(b), GSDecoderSetBuffer(d, b, n) PROVE Intact'
  <2>0. memory' = memory /\ encoder' = encoder /\ heap' = heap /\ slot' = slot /\ written' = written /\ a.open
    BY <1>4 DEF GSDecoderSetBuffer
  <2>1. CASE decoder' = decoder
    BY <2>0, <2>1, NothingMoves
  <2>2. CASE b # NULL /\ decoder' = [decoder EXCEPT ![d] = Reading(a, b, n)]
    BY <1>3, <1>4, <2>0, <2>2
  <2> QED BY <1>4, <2>1, <2>2 DEF GSDecoderSetBuffer
<1>5. ASSUME NEW n \in Lengths(a.buffer), GSDecoderResetBuffer(d, n) PROVE Intact'
  <2>0. memory' = memory /\ encoder' = encoder /\ heap' = heap /\ slot' = slot /\ written' = written /\ a.open
    BY <1>5 DEF GSDecoderResetBuffer
  <2>1. CASE decoder' = [decoder EXCEPT ![d].error = ""]
    <3> PICK m, none : m = a.read /\ none = ""
      OBVIOUS
    <3> PICK x : x = ReadTo(a, m, none)
      OBVIOUS
    <3>1. m \in 0..a.length
      BY <1>1 DEF Source
    <3>2. Source(x) /\ x.allocations = a.allocations
      <4> HIDE DEF a
      <4>1. x = ReadTo(a, m, none)
        OBVIOUS
      <4> QED BY ONLY <1>1, <3>1, <4>1, SourceRead
    <3>3. decoder' = [decoder EXCEPT ![d] = x]
      <4>1. x = [a EXCEPT !.error = none]
        BY <1>1 DEF Context, ReadTo
      <4> QED BY <2>1, <4>1
    <3> QED BY <2>0, <3>2, <3>3, SourceMoves
  <2>2. CASE a.buffer # NULL /\ decoder' = [decoder EXCEPT ![d] = Reading(a, a.buffer, n)]
    <3>1. a.buffer \in Buffers
      BY <1>1, <2>2 DEF Source
    <3> PICK b : b = a.buffer
      OBVIOUS
    <3> QED BY <1>3, <1>5, <2>0, <2>2, <3>1
  <2> QED BY <1>5, <2>1, <2>2 DEF GSDecoderResetBuffer
<1>6. ASSUME GetDecoderError(d) PROVE Intact'
  BY <1>6, NothingMoves DEF GetDecoderError
<1> QED BY <1>2, <1>4, <1>5, <1>6

\* A context is destroyed with its arrays; the caller forgets what has them.
LEMMA DestroyStep ==
    ASSUME Intact, Owned', NEW d \in Decoders, GSDecoderDestroy(d)
    PROVE  Intact'
<1>1. /\ heap' = Freed(decoder[d]) /\ decoder' = [decoder EXCEPT ![d] = ClosedDecoder]
      /\ slot' = [s \in Slots |-> IF slot[s].owner = d THEN EmptySlot ELSE slot[s]]
      /\ memory' = memory /\ encoder' = encoder /\ written' = written
  BY DEF GSDecoderDestroy
<1>2. Buffered'
  BY <1>1 DEF Intact, Buffered
<1>3. Sinks'
  BY <1>1 DEF Intact, Sinks, Sink, Unshared
<1>4. /\ decoder = [a \in Decoders |-> decoder[a]]
      /\ \A a \in Decoders : decoder[a].allocations \subseteq Blocks
      /\ \A a \in Decoders : a # d => decoder[a].allocations \cap decoder[d].allocations = {}
  BY DEF Intact, Owned, Contexts, Context, AllocationsOwned
<1>5. decoder'[d] = ClosedDecoder /\ \A a \in Decoders : a # d => decoder'[a] = decoder[a]
  BY <1>1, <1>4
<1>6. Sources'
  <2>1. Source(ClosedDecoder)
    BY DEF Source, ClosedDecoder
  <2> SUFFICES ASSUME NEW a \in Decoders PROVE Source(decoder'[a])
    BY <1>1 DEF Sources, Source
  <2> QED BY <1>5, <2>1 DEF Intact, Sources
<1>7. Kept'
  <2>1. \A t \in Slots : KeptBy(slot[t], Pointed, decoder)
    BY DEF Intact, Kept
  <2>2. ASSUME NEW t \in Slots PROVE KeptBy(slot'[t], Pointed', decoder')
    <3>1. CASE slot[t].owner = d
      <4>1. slot'[t] = EmptySlot
        BY <1>1, <3>1
      <4>2. EmptySlot.owner = NULL
        BY DEF EmptySlot
      <4> QED BY <4>1, <4>2, PointersApart DEF KeptBy
    <3>2. CASE slot[t].owner # d
      <4> PICK k : k = slot[t]
        OBVIOUS
      <4>1. KeptBy(k, Pointed, decoder) /\ slot'[t] = k /\ k.owner # d
        BY <1>1, <2>1, <3>2
      <4>2. k.owner \in Decoders =>
               /\ decoder[k.owner].allocations \subseteq decoder'[k.owner].allocations
               /\ decoder[k.owner].allocations \subseteq Blocks
               /\ \A p \in decoder[k.owner].allocations : heap'[p] = heap[p]
        <5> SUFFICES ASSUME k.owner \in Decoders
                     PROVE  /\ decoder[k.owner].allocations \subseteq decoder'[k.owner].allocations
                            /\ decoder[k.owner].allocations \subseteq Blocks
                            /\ \A p \in decoder[k.owner].allocations : heap'[p] = heap[p]
          OBVIOUS
        <5>1. decoder'[k.owner] = decoder[k.owner] /\ decoder[k.owner].allocations \subseteq Blocks
          BY <1>4, <1>5, <4>1
        <5>2. \A p \in decoder[k.owner].allocations : p \in Blocks /\ p \notin decoder[d].allocations
          BY <1>4, <4>1
        <5>3. \A p \in decoder[k.owner].allocations : heap'[p] = heap[p]
          BY <1>1, <5>2 DEF Freed
        <5> QED BY <5>1, <5>3
      <4> QED BY <4>1, <4>2, KeptStays
    <3> QED BY <3>1, <3>2
  <2>3. slot' = [s \in Slots |-> slot'[s]]
    BY <1>1
  <2> QED BY <2>2, <2>3 DEF Kept
<1> QED BY <1>2, <1>3, <1>6, <1>7 DEF Intact

-----------------------------------------------------------------------------
(* Decoding.                                                               *)

\* The arrays of an object are a sequence.
LEMMA ArraysInOrder ==
    ASSUME NEW v
    PROVE  Len(ArraysOf(v)) \in Nat /\ DOMAIN ArraysOf(v) = 1..Len(ArraysOf(v))
<1>1. CASE v.kind = "Unknown"
  <2> PICK a : a = v.data
    OBVIOUS
  <2>1. ArraysOf(v) = <<a>>
    BY <1>1 DEF ArraysOf
  <2>2. Len(<<a>>) = 1 /\ DOMAIN <<a>> = 1..1
    OBVIOUS
  <2> QED BY <2>1, <2>2
<1>2. CASE v.kind # "Unknown"
  <2> DEFINE S == {"vertices", "normals", "textures", "triangles"}  names == ArrayNames(v)
             f == [i \in DOMAIN names |-> MeshCells(v, names[i])]
  <2>1. ASSUME NEW name \in S PROVE ArrayName(v, name) \in Seq(S)
    <3>1. <<name>> \in Seq(S) /\ <<>> \in Seq(S)
      OBVIOUS
    <3> HIDE DEF S
    <3> QED BY <3>1 DEF ArrayName
  <2>2. names \in Seq(S)
    <3>1. /\ ArrayName(v, "vertices") \in Seq(S) /\ ArrayName(v, "normals") \in Seq(S)
          /\ ArrayName(v, "textures") \in Seq(S) /\ ArrayName(v, "triangles") \in Seq(S)
      BY <2>1
    <3> DEFINE a == ArrayName(v, "vertices")  b == ArrayName(v, "normals")
               c == ArrayName(v, "textures")  d == ArrayName(v, "triangles")
    <3>2. names = ((a \o b) \o c) \o d
      BY DEF ArrayNames
    <3>3. a \in Seq(S) /\ b \in Seq(S) /\ c \in Seq(S) /\ d \in Seq(S)
      BY <3>1
    <3> HIDE DEF a, b, c, d, S, names
    <3>4. a \o b \in Seq(S)
      BY <3>3
    <3>5. (a \o b) \o c \in Seq(S)
      BY <3>3, <3>4
    <3> QED BY <3>2, <3>3, <3>5
  <2>3. ArraysOf(v) = f
    BY <1>2 DEF ArraysOf
  <2> DEFINE n == Len(names)
  <2>4. n \in Nat /\ DOMAIN names = 1..n
    BY <2>2, LenProperties
  <2> HIDE DEF names, n, S
  <2>5. f = [i \in 1..n |-> MeshCells(v, names[i])]
    BY <2>4
  <2>6. DOMAIN f = 1..n
    BY <2>5
  <2>7. Len(f) = n
    BY <2>4, <2>5
  <2> QED BY <2>3, <2>4, <2>6, <2>7
<1> QED BY <1>1, <1>2

\* What GSDecodeObject finds: the object that is expected, or it throws and
\* none is; it never reads on.
LEMMA DecodedNext ==
    ASSUME Intact, NEW d \in Decoders, NEW c, c = decoder[d], c.read \in Ends(d), c.read < c.length,
           NEW r, r = Decode(DataOf(c), c.read)
    PROVE  /\ r.pos \in 0..c.length
           /\ r.threw => Expected(d) = NoObject
           /\ ~r.threw => Speaks(r.value, Expected(d))
<1>1. Source(c) /\ Buffered
  BY DEF Intact, Sources
<1>2. c.buffer # NULL
  <2>1. c.buffer = NULL => c.length \in 0..0 /\ c.read \in 0..c.length
    BY <1>1 DEF Source
  <2> QED BY <2>1
<1> DEFINE b == c.buffer  w == written[b]  s == memory[b]  n == c.length  p == c.read
           whole == Whole(d)
<1>3. b \in Buffers /\ n \in 0..Len(s) /\ p \in 0..n /\ p < n
  BY <1>1, <1>2 DEF Source
<1>4. Chronicle(w, s)
  BY <1>1, <1>3 DEF Buffered
<1>5. n \in Nat /\ p \in Nat
  BY <1>3
<1>6. PICK m \in 0..Len(w) : /\ EntriesUpTo(b, n) = SubSeq(w, 1, m)
                             /\ \A k \in 0..Len(w) : k <= m <=> EndAt(w, k) <= n
  <2> HIDE DEF b, n
  <2> QED BY <1>1, <1>3, <1>5, EntriesBefore
<1>7. whole = SubSeq(w, 1, m)
  BY <1>6 DEF Whole
<1>8. Len(w) \in Nat /\ w = [k \in 1..Len(w) |-> w[k]] /\ m \in Nat
  <2> HIDE DEF w, s
  <2>1. Len(w) \in Nat /\ w = [k \in 1..Len(w) |-> w[k]]
    BY <1>4 DEF Chronicle
  <2> QED BY <2>1
<1>9. DOMAIN whole = 1..m /\ \A k \in 1..m : whole[k] = w[k]
  <2> PICK all, l : all = w /\ l = Len(w)
    OBVIOUS
  <2> HIDE DEF w, whole
  <2>1. l = Len(all) /\ l \in Nat /\ all = [k \in 1..l |-> all[k]] /\ m \in 0..l /\ whole = SubSeq(all, 1, m)
    BY <1>7, <1>8
  <2>2. DOMAIN whole = 1..m /\ \A k \in 1..m : whole[k] = all[k]
    BY <2>1, SomeEntries
  <2> QED BY <2>2
<1>10. PICK j \in 0..m : p = EndAt(w, j)
  <2>1. p \in {0} \cup {whole[i].end : i \in DOMAIN whole}
    BY DEF Ends
  <2> HIDE DEF w, whole, p
  <2>2. CASE p = 0
    <3>1. 0 \in 0..m
      BY <1>8
    <3> QED BY <2>2, <3>1 DEF EndAt
  <2>3. CASE \E i \in DOMAIN whole : p = whole[i].end
    <3>1. PICK i \in 1..m : p = w[i].end
      BY <1>9, <2>3
    <3>2. i # 0 /\ i \in 0..m
      BY <1>8, <3>1
    <3> QED BY <3>1, <3>2 DEF EndAt
  <2> QED BY <2>1, <2>2, <2>3
<1> PICK u : u = DataOf(c)
  OBVIOUS
<1>11. u = SubSeq(s, 1, n)
  BY <1>2 DEF DataOf
<1>12. r = Decode(u, p)
  OBVIOUS
<1> PICK x : x = Expected(d)
  OBVIOUS
<1>13. x = ExpectedAt(whole, p)
  BY DEF Expected, ExpectedAt
<1> HIDE DEF b, w, s, n, p, whole
<1>14. /\ j < m => x = w[j + 1].object
       /\ j = m => x = NoObject
  <2>1. m \in 0..Len(w) /\ j \in 0..m
    OBVIOUS
  <2> QED BY ONLY <1>4, <1>7, <1>10, <1>13, <2>1, NextExpected
<1>15. /\ IsData(u) /\ Len(u) = n
       /\ j < m => FollowedBy(w, j, u, p)
       /\ j = m => Decode(u, p).threw
  <2>1. FirstEnded(w, n, m)
    BY <1>6, Zenon DEF FirstEnded
  <2>2. j \in 0..m
    OBVIOUS
  <2> QED BY ONLY <1>3, <1>4, <1>10, <1>11, <2>1, <2>2, NextDecoded
<1>16. r.pos \in 0..n
  <2>1. p \in 0..Len(u)
    BY <1>3, <1>15
  <2>2. Sound(u, p, r)
    BY <1>12, <1>15, <2>1, DecodeSound
  <2>3. r.pos \in Nat /\ r.pos <= Len(u)
    BY <2>2 DEF Sound, At
  <2> QED BY <1>5, <1>15, <2>3
<1>17. CASE j < m
  <2>1. PICK v : Speaks(v, x) /\ Got(r, EndAt(w, j + 1), Len(Sent(v)), v)
    BY <1>12, <1>14, <1>15, <1>17 DEF FollowedBy
  <2> PICK pos, count : pos = EndAt(w, j + 1) /\ count = Len(Sent(v))
    OBVIOUS
  <2>2. Got(r, pos, count, v)
    BY <2>1
  <2>3. ~r.threw /\ r.value = v
    BY <2>2, GotFields
  <2> QED BY <1>16, <2>1, <2>3 DEF n
<1>18. CASE j = m
  BY <1>12, <1>14, <1>15, <1>16, <1>18 DEF n
<1>19. j < m \/ j = m
  BY <1>8, <1>10
<1> QED BY <1>17, <1>18, <1>19

\* The new position, text and arrays of a context that has decoded.
Decoded(c, n, text, more) == [c EXCEPT !.read = n, !.error = text, !.allocations = @ \cup more]

\* That context still reads within its octets.
LEMMA SourceDecoded ==
    ASSUME NEW c, Context(c), Source(c), NEW n \in 0..c.length, NEW text, NEW more,
           NEW x, x = Decoded(c, n, text, more)
    PROVE  Source(x) /\ x.allocations = c.allocations \cup more
<1>1. /\ x.open = c.open /\ x.buffer = c.buffer /\ x.length = c.length /\ x.read = n
      /\ x.allocations = c.allocations \cup more
  BY DEF Context, Decoded
<1> QED BY <1>1 DEF Source

\* An object is filled in: the caller's other objects are as they were, and this
\* one is what is expected unless it was given up.
LEMMA DeserializedIntact ==
    ASSUME Intact, Owned', NEW d \in Decoders, NEW s \in Slots, NEW r, NEW n \in Nat, NEW m,
           NEW owner, NEW told,
           Deserialized(d, s, r, n, m, owner, told), r.pos \in 0..decoder[d].length,
           \/ owner = NULL
           \/ owner = d /\ m = n /\ n = Len(ArraysOf(r.value)) /\ Speaks(r.value, told),
           memory' = memory, encoder' = encoder, written' = written
    PROVE  Intact'
<1> PICK text : text = IF owner = d THEN "" ELSE "std::bad_alloc"
  OBVIOUS
<1> PICK arrays : arrays = ArraysOf(r.value)
  OBVIOUS
<1>1. PICK blocks \in [1..n -> Blocks] :
        /\ Fresh(blocks)
        /\ heap' = Populated(blocks, arrays)
        /\ decoder' = [decoder EXCEPT
              ![d].read = r.pos,
              ![d].error = text,
              ![d].allocations = @ \cup {blocks[i] : i \in 1..m}]
        /\ slot' = [slot EXCEPT ![s] = [
              object |-> GSDeserialize(r.value, IF r.value.kind = "Unknown" THEN blocks
                                                ELSE SubSeq(blocks, 1, m)),
              owner |-> owner, told |-> told]]
  BY DEF Deserialized
<1> PICK recorded : recorded = {blocks[i] : i \in 1..m}
  OBVIOUS
<1> PICK x : x = Decoded(decoder[d], r.pos, text, recorded)
  OBVIOUS
<1> PICK o : o = GSDeserialize(r.value, IF r.value.kind = "Unknown" THEN blocks ELSE SubSeq(blocks, 1, m))
  OBVIOUS
<1> PICK k : k = [object |-> o, owner |-> owner, told |-> told]
  OBVIOUS
<1>2. decoder' = [decoder EXCEPT ![d] = x]
  BY <1>1, Zenon DEF Decoded
<1>3. slot' = [slot EXCEPT ![s] = k]
  BY <1>1, Zenon
<1>4. Fresh(blocks) /\ heap' = Populated(blocks, arrays)
  BY <1>1, Zenon
<1>5. k.object = o /\ k.owner = owner /\ k.told = told
  OBVIOUS
<1>6. /\ decoder = [a \in Decoders |-> decoder[a]]
      /\ \A a \in Decoders : Context(decoder[a]) /\ Source(decoder[a])
      /\ \A a \in Decoders : \A p \in decoder[a].allocations : p \in Blocks /\ heap[p].live
  BY DEF Intact, Owned, Contexts, Context, AllocationsOwned, Sources
<1>7. Source(x) /\ x.allocations = decoder[d].allocations \cup recorded
  <2> PICK c, pos : c = decoder[d] /\ pos = r.pos
    OBVIOUS
  <2>1. Context(c) /\ Source(c) /\ pos \in 0..c.length /\ x = Decoded(c, pos, text, recorded)
    BY <1>6
  <2>2. Source(x) /\ x.allocations = c.allocations \cup recorded
    BY ONLY <2>1, SourceDecoded
  <2> QED BY <2>2
<1>8. decoder'[d] = x /\ \A a \in Decoders : a # d => decoder'[a] = decoder[a]
  BY <1>2, <1>6
<1>9. Buffered'
  BY DEF Intact, Buffered
<1>10. Sinks'
  BY DEF Intact, Sinks, Sink, Unshared
<1>11. Sources'
  <2> SUFFICES ASSUME NEW a \in Decoders PROVE Source(decoder'[a])
    BY DEF Sources, Source
  <2> QED BY <1>6, <1>7, <1>8
<1>12. ASSUME NEW a \in Decoders
       PROVE  /\ decoder[a].allocations \subseteq decoder'[a].allocations
              /\ decoder[a].allocations \subseteq Blocks
              /\ \A p \in decoder[a].allocations : heap'[p] = heap[p]
  <2>1. decoder[a].allocations \subseteq decoder'[a].allocations
    BY <1>7, <1>8
  <2>2. ASSUME NEW p \in decoder[a].allocations PROVE heap'[p] = heap[p]
    <3>1. p \in Blocks /\ heap[p].live
      BY <1>6
    <3>2. \A i \in DOMAIN blocks : ~heap[blocks[i]].live
      BY <1>4 DEF Fresh
    <3>3. ~\E i \in DOMAIN blocks : blocks[i] = p
      BY <3>1, <3>2
    <3> QED BY <1>4, <3>1, <3>3 DEF Populated
  <2> QED BY <1>6, <2>1, <2>2
<1>13. KeptBy(k, Pointed', decoder')
  <2>1. CASE owner = NULL
    BY <1>5, <2>1, PointersApart DEF KeptBy
  <2>2. CASE owner = d /\ m = n /\ n = Len(arrays) /\ Speaks(r.value, told)
    <3> PICK v, new : v = r.value /\ new = Pointed'
      OBVIOUS
    <3>1. arrays = ArraysOf(v) /\ DOMAIN arrays = 1..n /\ DOMAIN blocks = 1..n /\ Speaks(v, told)
      BY <2>2, ArraysInOrder
    <3>2. SubSeq(blocks, 1, m) = blocks
      <4>1. blocks \in Seq(Blocks) /\ Len(blocks) = n
        <5>1. blocks \in [1..n -> Blocks] /\ n \in Nat
          OBVIOUS
        <5>2. blocks \in Seq(Blocks)
          BY ONLY <5>1, SeqDef
        <5>3. Len(blocks) = n
          BY ONLY <5>1, <5>2, LenProperties
        <5> QED BY <5>2, <5>3
      <4>2. n \in 0..n /\ n \in Nat
        <5>1. n \in Nat
          OBVIOUS
        <5> QED BY ONLY <5>1
      <4> DEFINE q == SubSeq(blocks, 1, n)
      <4>3. q \in Seq(Blocks) /\ Len(q) = n /\ \A i \in 1..n : q[i] = blocks[i]
        BY ONLY <4>1, <4>2, FirstOf
      <4> HIDE DEF q
      <4>4. q = blocks
        BY <4>1, <4>3, SeqEqual
      <4> QED BY <2>2, <4>4 DEF q
    <3>3. o = GSDeserialize(v, blocks)
      BY <3>2
    <3>4. Holds(new, blocks, arrays)
      <4>1. ASSUME NEW i \in 1..n
            PROVE  blocks[i] # NULL /\ blocks[i] \in DOMAIN new /\ new[blocks[i]] = arrays[i]
        <5>1. blocks[i] \in Blocks /\ blocks[i] # NULL
          BY PointersApart
        <5>2. new[blocks[i]] = heap'[blocks[i]].array /\ blocks[i] \in DOMAIN new
          BY <5>1, PointedAt
        <5>3. heap'[blocks[i]] = [live  |-> TRUE,
                                  array |-> arrays[CHOOSE j \in DOMAIN blocks : blocks[j] = blocks[i]]]
          BY <1>4, <3>1, <5>1 DEF Populated
        <5>4. (CHOOSE j \in DOMAIN blocks : blocks[j] = blocks[i]) = i
          BY <1>4, <3>1 DEF Fresh
        <5>5. heap'[blocks[i]].array = arrays[i]
          <6> PICK array : array = arrays[i]
            OBVIOUS
          <6>1. heap'[blocks[i]] = [live |-> TRUE, array |-> array]
            BY <5>3, <5>4, Zenon
          <6> QED BY ONLY <6>1, array = arrays[i]
        <5> QED BY <5>1, <5>2, <5>5
      <4> QED BY <3>1, <4>1 DEF Holds
    <3>5. IsGSObject(o, new) /\ Told(o, new) = told /\ Pointers(o) \subseteq {blocks[i] : i \in DOMAIN blocks}
      BY ONLY <3>1, <3>3, <3>4, SpeaksBack
    <3>6. recorded = {blocks[i] : i \in DOMAIN blocks}
      BY <2>2, <3>1
    <3>7. Pointers(o) \subseteq decoder'[d].allocations
      BY <1>7, <1>8, <3>5, <3>6
    <3> QED BY <1>5, <2>2, <3>5, <3>7 DEF KeptBy
  <2> QED BY <2>1, <2>2
<1>14. Kept'
  <2>1. slot = [t \in Slots |-> slot[t]] /\ \A t \in Slots : KeptBy(slot[t], Pointed, decoder)
    BY DEF Intact, Kept
  <2>2. slot'[s] = k /\ \A t \in Slots : t # s => slot'[t] = slot[t]
    BY <1>3, <2>1
  <2>3. slot' = [t \in Slots |-> slot'[t]]
    BY <1>3, <2>1
  <2>4. ASSUME NEW t \in Slots PROVE KeptBy(slot'[t], Pointed', decoder')
    <3>1. CASE t = s
      BY <1>13, <2>2, <3>1
    <3>2. CASE t # s
      <4> PICK y : y = slot[t]
        OBVIOUS
      <4>1. KeptBy(y, Pointed, decoder) /\ slot'[t] = y
        BY <2>1, <2>2, <3>2
      <4>2. KeptBy(y, Pointed', decoder')
        BY <1>12, <4>1, KeptStays
      <4> QED BY <4>1, <4>2
    <3> QED BY <3>1, <3>2
  <2> QED BY <2>3, <2>4 DEF Kept
<1> QED BY <1>9, <1>10, <1>11, <1>14 DEF Intact

\* The outcome of GSDecodeObject: what DecodesWhatIsThere says of it.
FoundWhatIsThere(d, result) ==
    /\ result = 1 => Expected(d) # NoObject
    /\ result = 0 => decoder[d].read = decoder[d].length
    /\ result = -1 => \/ Expected(d) = NoObject
                      \/ Failures \cap {"decode", "array", "record"} # {}

\* GSDecodeObject keeps the invariant, and has its promised outcome.
LEMMA DecodeIntact ==
    ASSUME Intact, Owned', NEW d \in Decoders, NEW s \in Slots, GSDecodeObject(d, s)
    PROVE  Intact' /\ FoundWhatIsThere(d, out'.result)
<1> PICK c : c = decoder[d]
  OBVIOUS
<1>1. /\ c.open /\ c.read \in Ends(d) /\ memory' = memory /\ encoder' = encoder /\ written' = written
      /\ DecodeEnd(d) \/ DecodeNext(d, s)
  BY DEF GSDecodeObject
<1>2. Context(c) /\ Source(c) /\ decoder = [a \in Decoders |-> decoder[a]]
  BY DEF Intact, Owned, Contexts, Sources
<1>3. ASSUME NEW result, NEW n \in 0..c.length, NEW text,
             decoder' = [decoder EXCEPT ![d].read = n, ![d].error = text], heap' = heap, slot' = slot
      PROVE  Intact'
  <2> PICK x : x = ReadTo(c, n, text)
    OBVIOUS
  <2>1. Source(x) /\ x.allocations = c.allocations
    <3>1. x = ReadTo(c, n, text) /\ n \in 0..c.length
      OBVIOUS
    <3> QED BY ONLY <1>2, <3>1, SourceRead
  <2>2. decoder' = [decoder EXCEPT ![d] = x]
    BY <1>3 DEF ReadTo
  <2> QED BY <1>1, <1>3, <2>1, <2>2, SourceMoves
<1>4. CASE DecodeEnd(d)
  <2>1. /\ c.read >= c.length /\ heap' = heap /\ slot' = slot /\ out'.result = 0
        /\ decoder' = [decoder EXCEPT ![d].read = c.read, ![d].error = ""]
    BY <1>4 DEF DecodeEnd, DecodesNothing, Returns, Returned
  <2>2. c.read \in 0..c.length
    BY <1>2 DEF Source
  <2>3. c.length \in Nat
    <3>1. Buffered
      BY DEF Intact
    <3>2. \A b \in Buffers : Len(memory[b]) \in Nat
      <4> SUFFICES ASSUME NEW b \in Buffers PROVE Len(memory[b]) \in Nat
        OBVIOUS
      <4>1. IsData(memory[b])
        BY <3>1 DEF Buffered, Chronicle
      <4> QED BY <4>1, LenProperties DEF IsData
    <3> QED BY <1>2, <3>2 DEF Source
  <2>4. c.read = c.length
    <3>1. c.read >= c.length
      BY <2>1
    <3> QED BY ONLY <2>2, <2>3, <3>1
  <2>5. Intact'
    BY <1>3, <2>1, <2>2
  <2> QED BY <2>1, <2>4, <2>5, ResultsDiffer DEF FoundWhatIsThere
<1>5. CASE DecodeNext(d, s)
  <2>1. c.read < c.length
    BY <1>5 DEF DecodeNext
  <2>2. PICK r : /\ r = Decode(DataOf(c), c.read)
                 /\ \/ DecodeThrows(d, r)
                    \/ DecodeNoMemory(d, r)
                    \/ DecodeValue(d, s, r)
                    \/ DecodeArrayFails(d, s, r)
                    \/ DecodeRecordFails(d, s, r)
    BY <1>5 DEF DecodeNext
  <2>3. /\ r.pos \in 0..c.length
        /\ r.threw => Expected(d) = NoObject
        /\ ~r.threw => Speaks(r.value, Expected(d))
    BY <1>1, <2>1, <2>2, DecodedNext
  <2>4. CASE DecodeThrows(d, r)
    <3>1. r.threw /\ heap' = heap /\ slot' = slot
      BY <2>4 DEF DecodeThrows
    <3>2. /\ \E text : decoder' = [decoder EXCEPT ![d].read = r.pos, ![d].error = text]
          /\ out'.result = -1 \/ out'.result = -2
      <4>1. CASE DecodesNothing(d, -1, r.pos, "Decoder")
        BY <4>1 DEF DecodesNothing, Returns, Returned
      <4>2. CASE /\ decoder' = [decoder EXCEPT ![d].read = r.pos, ![d].error = ""]
                 /\ Escapes("GSDecodeObject", d)
        BY <4>2 DEF Escapes, NoResult
      <4> QED BY <2>4, <4>1, <4>2 DEF DecodeThrows
    <3>3. Intact'
      BY <1>3, <2>3, <3>1, <3>2
    <3>4. out'.result # 0 /\ out'.result # 1
      BY ONLY <3>2
    <3> QED BY <2>3, <3>1, <3>3, <3>4, Zenon DEF FoundWhatIsThere
  <2>5. CASE DecodeNoMemory(d, r)
    <3>1. /\ "decode" \in Failures /\ heap' = heap /\ slot' = slot /\ out'.result = -1
          /\ decoder' = [decoder EXCEPT ![d].read = c.read + 1, ![d].error = "std::bad_alloc"]
      BY <2>5 DEF DecodeNoMemory, DecodesNothing, Returns, Returned
    <3>2. c.read + 1 \in 0..c.length
      <4>1. c.read \in 0..c.length /\ c.length \in Int
        BY <1>2 DEF Source
      <4> QED BY ONLY <2>1, <4>1
    <3>3. Intact'
      BY <1>3, <3>1, <3>2
    <3> QED BY <3>1, <3>3, ResultsDiffer DEF FoundWhatIsThere
  <2>6. CASE DecodeValue(d, s, r)
    <3> PICK n, told : n = Len(ArraysOf(r.value)) /\ told = Expected(d)
      OBVIOUS
    <3>1. ~r.threw /\ Deserialized(d, s, r, n, n, d, told) /\ out'.result = 1
      BY <2>6 DEF DecodeValue, Returns, Returned
    <3>2. n \in Nat /\ Speaks(r.value, told)
      BY <2>3, <3>1, ArraysInOrder
    <3>3. Intact'
      BY <1>1, <2>3, <3>1, <3>2, DeserializedIntact
    <3>4. told # NoObject
      BY <3>2, SpeaksObject
    <3> QED BY <3>1, <3>3, <3>4, ResultsDiffer DEF FoundWhatIsThere
  <2>7. ASSUME NEW n \in Nat, NEW m, Deserialized(d, s, r, n, m, NULL, NoObject) PROVE Intact'
    <3> PICK owner, told : owner = NULL /\ told = NoObject
      OBVIOUS
    <3>1. Deserialized(d, s, r, n, m, owner, told)
      BY <2>7
    <3> QED BY <1>1, <2>3, <3>1, DeserializedIntact
  <2>8. CASE DecodeArrayFails(d, s, r)
    <3>1. PICK n \in 1..Len(ArraysOf(r.value)) : Deserialized(d, s, r, n - 1, n - 1, NULL, NoObject)
      BY <2>8 DEF DecodeArrayFails
    <3>2. n - 1 \in Nat
      OBVIOUS
    <3>3. Intact'
      BY <2>7, <3>1, <3>2
    <3>4. "array" \in Failures /\ out'.result = -1
      BY <2>8 DEF DecodeArrayFails, Returns, Returned
    <3> QED BY <3>3, <3>4, ResultsDiffer DEF FoundWhatIsThere
  <2>9. CASE DecodeRecordFails(d, s, r)
    <3>1. PICK n \in 1..Len(ArraysOf(r.value)) : Deserialized(d, s, r, n, n - 1, NULL, NoObject)
      BY <2>9 DEF DecodeRecordFails
    <3>2. n \in Nat
      OBVIOUS
    <3>3. Intact'
      BY <2>7, <3>1, <3>2
    <3>4. "record" \in Failures /\ out'.result = -1
      BY <2>9 DEF DecodeRecordFails, Returns, Returned
    <3> QED BY <3>3, <3>4, ResultsDiffer DEF FoundWhatIsThere
  <2> QED BY <2>2, <2>4, <2>5, <2>6, <2>8, <2>9
<1> QED BY <1>1, <1>4, <1>5

-----------------------------------------------------------------------------
(* What holds of every step, and the theorems about the objects.           *)

\* Nothing is written, decoded or allocated at first.
LEMMA InitIntact == Init => Intact
<1> SUFFICES ASSUME Init PROVE Intact
  OBVIOUS
<1>1. /\ memory = [b \in Buffers |-> <<>>] /\ written = [b \in Buffers |-> <<>>]
      /\ encoder = [e \in Encoders |-> ClosedEncoder] /\ decoder = [d \in Decoders |-> ClosedDecoder]
      /\ slot = [s \in Slots |-> EmptySlot]
  BY DEF Init
<1>2. Owned
  BY InitOwned
<1>3. Buffered
  <2>1. ASSUME NEW b \in Buffers PROVE Chronicle(written[b], memory[b]) /\ Len(memory[b]) <= Capacity[b]
    <3>1. written[b] = <<>> /\ memory[b] = <<>>
      BY <1>1
    <3>2. Chronicle(written[b], memory[b])
      BY <3>1, EmptyChronicle
    <3>3. Capacity[b] \in Nat
      BY ApiAssumption
    <3>4. Len(memory[b]) = 0
      BY <3>1, EmptySeq
    <3> QED BY <3>2, <3>3, <3>4
  <2> QED BY <1>1, <2>1 DEF Buffered
<1>4. Sinks
  <2>1. Sink(ClosedEncoder) /\ ClosedEncoder.buffer = NULL
    BY DEF ClosedEncoder, Sink
  <2>2. \A e \in Encoders : encoder[e] = ClosedEncoder
    BY <1>1
  <2> HIDE DEF ClosedEncoder
  <2> QED BY <1>1, <2>1, <2>2 DEF Sinks, Unshared
<1>5. Sources
  <2>1. Source(ClosedDecoder)
    BY DEF Source, ClosedDecoder
  <2> QED BY <1>1, <2>1 DEF Sources
<1>6. Kept
  <2>1. EmptySlot.owner = NULL
    BY DEF EmptySlot
  <2> QED BY <1>1, <2>1, PointersApart DEF Kept, KeptBy
<1> QED BY <1>2, <1>3, <1>4, <1>5, <1>6 DEF Intact

\* The call that has returned.
Calls(call, on) == \E given, result, text : Returned(call, on, given, result, text)

\* It is in out.
LEMMA CallOf ==
    ASSUME NEW call, NEW on, Calls(call, on)
    PROVE  out'.call = call /\ out'.on = on
  BY DEF Calls, Returned

\* Or that an exception has left.
LEMMA EscapedFrom ==
    ASSUME NEW call, NEW on, Escapes(call, on)
    PROVE  out'.call = call /\ out'.on = on
<1> PICK yes, none, given : yes = TRUE /\ none = "" /\ given = NoObject
  OBVIOUS
<1>1. out' = [call |-> call, on |-> on, given |-> given, result |-> NoResult, text |-> none, escaped |-> yes]
  BY DEF Escapes
<1> QED BY ONLY <1>1

\* The step of a handle, and the outcomes of encoding and of decoding.
LEMMA IntactStep ==
    ASSUME Intact, [Next]_vars
    PROVE  /\ Intact'
           /\ \/ vars' = vars
              \/ out'.call \notin {"GSEncodeObject", "GSDecodeObject"}
              \/ /\ out'.call = "GSEncodeObject"
                 /\ \E e \in Encoders : out'.on = e /\ WholeOrNothing(e, out'.given, out'.result)
              \/ /\ out'.call = "GSDecodeObject"
                 /\ \E d \in Decoders : out'.on = d /\ FoundWhatIsThere(d, out'.result)
<1> DEFINE Other   == out'.call \notin {"GSEncodeObject", "GSDecodeObject"}
           Encodes == /\ out'.call = "GSEncodeObject"
                      /\ \E e \in Encoders : out'.on = e /\ WholeOrNothing(e, out'.given, out'.result)
           Decodes == /\ out'.call = "GSDecodeObject"
                      /\ \E d \in Decoders : out'.on = d /\ FoundWhatIsThere(d, out'.result)
           Good    == Intact' /\ (vars' = vars \/ Other \/ Encodes \/ Decodes)
<1>1. Owned'
  BY StepOwned DEF Intact
<1>2. ASSUME NEW e \in Encoders, EncoderStep(e) PROVE Good
  <2>1. ASSUME NEW o \in Encodable, GSEncodeObject(e, o) PROVE Good
    <3>1. Intact' /\ WholeOrNothing(e, o, out'.result) /\ out'.given = o
      BY <2>1, EncodeIntact
    <3>2. out'.call = "GSEncodeObject" /\ out'.on = e
      <4>1. \A result, text : EncodesNothing(e, o, result, text) => Calls("GSEncodeObject", e)
        BY DEF EncodesNothing, Calls
      <4>2. EncodeFull(e, o) => Calls("GSEncodeObject", e)
        BY <4>1 DEF EncodeFull
      <4>3. EncodeInvalid(e, o) => Calls("GSEncodeObject", e)
        BY <4>1 DEF EncodeInvalid
      <4>4. EncodeNoMemory(e, o) => Calls("GSEncodeObject", e)
        BY <4>1 DEF EncodeNoMemory
      <4>5. EncodeValue(e, o) => Calls("GSEncodeObject", e)
        BY DEF EncodeValue, Calls
      <4>6. Calls("GSEncodeObject", e)
        BY <2>1, <4>2, <4>3, <4>4, <4>5 DEF GSEncodeObject
      <4> QED BY <4>6, CallOf
    <3>3. Encodes
      BY <3>1, <3>2
    <3> QED BY <3>1, <3>3
  <2>2. ASSUME \/ \E g \in Given : GSEncoderInit(e, g[1], g[2]) \/ GSEncoderSetBuffer(e, g[1], g[2])
               \/ GSEncoderResetBuffer(e)
               \/ GSEncoderDataLength(e)
               \/ GetEncoderError(e)
               \/ GSEncoderDestroy(e)
        PROVE  Good
    <3>1. Intact'
      BY <2>2, QuietSteps
    <3>2. Other
      <4>1. \A call : (\E result, text : Returns(call, e, result, text)) => out'.call = call
        BY CallOf DEF Returns, Calls
      <4>2. (\E g \in Given : GSEncoderInit(e, g[1], g[2])) => out'.call = "GSEncoderInit"
        BY <4>1 DEF GSEncoderInit
      <4>3. (\E g \in Given : GSEncoderSetBuffer(e, g[1], g[2])) => out'.call = "GSEncoderSetBuffer"
        BY <4>1 DEF GSEncoderSetBuffer
      <4>4. GSEncoderResetBuffer(e) => out'.call = "GSEncoderResetBuffer"
        BY <4>1 DEF GSEncoderResetBuffer
      <4>5. GSEncoderDataLength(e) => out'.call = "GSEncoderDataLength"
        BY <4>1 DEF GSEncoderDataLength
      <4>6. GetEncoderError(e) => out'.call = "GetEncoderError"
        BY <4>1 DEF GetEncoderError
      <4>7. GSEncoderDestroy(e) => out'.call = "GSEncoderDestroy"
        BY <4>1 DEF GSEncoderDestroy
      <4> QED BY <2>2, <4>2, <4>3, <4>4, <4>5, <4>6, <4>7
    <3> QED BY <3>1, <3>2
  <2> HIDE DEF Good
  <2> QED BY <1>2, <2>1, <2>2 DEF EncoderStep
<1>3. ASSUME NEW d \in Decoders, DecoderStep(d) PROVE Good
  <2>1. ASSUME NEW s \in Slots, GSDecodeObject(d, s) PROVE Good
    <3>1. Intact' /\ FoundWhatIsThere(d, out'.result)
      BY <1>1, <2>1, DecodeIntact
    <3>2. out'.call = "GSDecodeObject" /\ out'.on = d
      <4> DEFINE This == out'.call = "GSDecodeObject" /\ out'.on = d
      <4>1. ASSUME NEW result, NEW text, Returns("GSDecodeObject", d, result, text) PROVE This
        BY <4>1, CallOf DEF Returns, Calls
      <4>2. Escapes("GSDecodeObject", d) => This
        BY EscapedFrom
      <4> HIDE DEF This
      <4>3. ASSUME NEW result, NEW n, NEW text, DecodesNothing(d, result, n, text) PROVE This
        BY <4>1, <4>3 DEF DecodesNothing
      <4>4. DecodeEnd(d) => This
        BY <4>3 DEF DecodeEnd
      <4>5. \A r : DecodeThrows(d, r) => This
        BY <4>2, <4>3 DEF DecodeThrows
      <4>6. \A r : DecodeNoMemory(d, r) => This
        BY <4>3 DEF DecodeNoMemory
      <4>7. \A r : DecodeValue(d, s, r) => This
        BY <4>1 DEF DecodeValue
      <4>8. \A r : DecodeArrayFails(d, s, r) => This
        BY <4>1 DEF DecodeArrayFails
      <4>9. \A r : DecodeRecordFails(d, s, r) => This
        BY <4>1 DEF DecodeRecordFails
      <4>10. DecodeNext(d, s) => This
        BY <4>5, <4>6, <4>7, <4>8, <4>9 DEF DecodeNext
      <4>11. This
        BY <2>1, <4>4, <4>10 DEF GSDecodeObject
      <4> QED BY <4>11 DEF This
    <3>3. Decodes
      BY <3>1, <3>2
    <3> QED BY <3>1, <3>3
  <2>2. ASSUME \/ \E b \in Buffers \cup {NULL} : \E n \in Lengths(b) :
                     GSDecoderInit(d, b, n) \/ GSDecoderSetBuffer(d, b, n)
               \/ \E n \in Lengths(decoder[d].buffer) : GSDecoderResetBuffer(d, n)
               \/ GetDecoderError(d)
        PROVE  Good
    <3>1. Intact'
      BY <1>1, <2>2, StillSteps
    <3>2. Other
      <4>1. \A call : (\E result, text : Returns(call, d, result, text)) => out'.call = call
        BY CallOf DEF Returns, Calls
      <4>2. \A b, n : GSDecoderInit(d, b, n) => out'.call = "GSDecoderInit"
        BY <4>1 DEF GSDecoderInit
      <4>3. \A b, n : GSDecoderSetBuffer(d, b, n) => out'.call = "GSDecoderSetBuffer"
        BY <4>1 DEF GSDecoderSetBuffer
      <4>4. \A n : GSDecoderResetBuffer(d, n) => out'.call = "GSDecoderResetBuffer"
        BY <4>1 DEF GSDecoderResetBuffer
      <4>5. GetDecoderError(d) => out'.call = "GetDecoderError"
        BY <4>1 DEF GetDecoderError
      <4> QED BY <2>2, <4>2, <4>3, <4>4, <4>5
    <3> QED BY <3>1, <3>2
  <2>3. ASSUME GSDecoderDestroy(d) PROVE Good
    <3>1. Intact'
      BY <1>1, <2>3, DestroyStep
    <3>2. Other
      BY <2>3 DEF GSDecoderDestroy, Returns, Returned
    <3> QED BY <3>1, <3>2
  <2> HIDE DEF Good
  <2> QED BY <1>3, <2>1, <2>2, <2>3 DEF DecoderStep
<1>4. ASSUME OnNull PROVE Good
  <2>1. Intact'
    BY <1>4, NothingMoves DEF OnNull
  <2>2. Other
    BY <1>4 DEF OnNull, Returns, Returned
  <2> QED BY <2>1, <2>2
<1>5. ASSUME vars' = vars PROVE Good
  <2>1. Intact'
    BY <1>5, NothingMoves DEF vars
  <2> QED BY <1>5, <2>1
<1> HIDE DEF Good
<1>6. Good
  BY <1>2, <1>3, <1>4, <1>5 DEF Next
<1> QED BY <1>6 DEF Good

\* A context writes and reads within the octets it has.
LEMMA IntactTyped == Intact => TypeOK
<1> SUFFICES ASSUME Intact PROVE TypeOK
  OBVIOUS
<1>1. ASSUME NEW b \in Buffers
      PROVE  /\ memory[b] \in Seq(Byte) /\ Len(memory[b]) <= Capacity[b] /\ Chronicle(written[b], memory[b])
             /\ Len(memory[b]) \in Nat /\ Capacity[b] \in Nat
  <2>1. Chronicle(written[b], memory[b]) /\ Len(memory[b]) <= Capacity[b]
    BY DEF Intact, Buffered
  <2>2. memory[b] \in Seq(Byte)
    BY <2>1 DEF Chronicle, IsData
  <2>3. Len(memory[b]) \in Nat
    BY <2>2, LenProperties
  <2> QED BY <2>1, <2>2, <2>3, ApiAssumption
<1>2. ASSUME NEW e \in Encoders, NEW c, c = encoder[e]
      PROVE  /\ c.open \in BOOLEAN /\ c.buffer \in Buffers \cup {NULL}
             /\ c.size = (IF c.buffer = NULL THEN 0 ELSE Capacity[c.buffer])
             /\ c.length \in 0..c.size
  <2>1. Sink(c)
    <3>1. Sink(encoder[e])
      BY DEF Intact, Sinks
    <3> QED BY <1>2, <3>1, Zenon
  <2>2. /\ c.open \in BOOLEAN /\ c.buffer \in Buffers \cup {NULL}
        /\ c.size = (IF c.buffer = NULL THEN 0 ELSE Capacity[c.buffer])
    BY <2>1 DEF Sink
  <2>3. CASE c.buffer = NULL
    <3>1. c.length = 0 /\ c.size = 0
      BY <2>1, <2>3 DEF Sink
    <3> QED BY <2>2, <3>1
  <2>4. CASE c.buffer # NULL
    <3> DEFINE b == c.buffer  w == written[b]  s == memory[b]
    <3>1. b \in Buffers /\ c.size = Capacity[b]
      BY <2>2, <2>4
    <3>2. PICK k \in 0..Len(w) : c.length = EndAt(w, k)
      BY <2>1, <2>4 DEF Sink
    <3>3. Chronicle(w, s) /\ Len(s) \in Nat /\ Len(s) <= c.size /\ c.size \in Nat
      BY <1>1, <3>1
    <3>4. /\ Len(w) \in Nat /\ EndAt(w, k) \in Nat /\ EndAt(w, Len(w)) \in Nat
          /\ (k < Len(w) => EndAt(w, k) < EndAt(w, Len(w))) /\ Len(s) = EndAt(w, Len(w))
      <4> HIDE DEF w, s
      <4>1. Len(w) \in Nat /\ k \in 0..Len(w) /\ Len(w) \in 0..Len(w)
        BY <3>3 DEF Chronicle
      <4> QED BY <3>3, <4>1 DEF Chronicle
    <3>5. k = Len(w) \/ k < Len(w)
      BY <3>4
    <3>6. c.length \in Nat /\ (c.length = Len(s) \/ c.length < Len(s))
      BY <3>2, <3>4, <3>5
    <3>7. c.length \in 0..c.size
      BY ONLY <3>3, <3>6
    <3> QED BY <2>2, <3>7
  <2> QED BY <2>3, <2>4
<1>3. ASSUME NEW d \in Decoders, NEW c, c = decoder[d]
      PROVE  /\ c.open \in BOOLEAN /\ c.buffer \in Buffers \cup {NULL}
             /\ c.length \in 0..(IF c.buffer = NULL THEN 0 ELSE Len(memory[c.buffer]))
             /\ c.read \in 0..c.length
             /\ c.allocations \subseteq Blocks
  <2>1. Context(decoder[d]) /\ Source(decoder[d])
    BY DEF Intact, Owned, Contexts, Sources
  <2>2. Context(c) /\ Source(c)
    BY <1>3, <2>1, Zenon
  <2> QED BY <2>2 DEF Context, Source
<1>4. \A s \in Slots : slot[s].owner \in Decoders \cup {NULL}
  BY DEF Intact, Kept, KeptBy
<1> QED BY <1>1, <1>2, <1>3, <1>4 DEF TypeOK

\* What the caller has is what was encoded, in arrays that are allocated.
LEMMA IntactObjects == Intact => ObjectsIntact
<1> SUFFICES ASSUME Intact, NEW s \in Slots, slot[s].owner \in Decoders
             PROVE  /\ \A p \in Pointers(slot[s].object) : p \in Blocks /\ heap[p].live
                    /\ Told(slot[s].object, Pointed) = slot[s].told
  BY DEF ObjectsIntact
<1> DEFINE d == slot[s].owner
<1>1. /\ Pointers(slot[s].object) \subseteq decoder[d].allocations
      /\ Told(slot[s].object, Pointed) = slot[s].told
  BY DEF Intact, Kept, KeptBy
<1>2. \A p \in decoder[d].allocations : p \in Blocks /\ heap[p].live
  BY DEF Intact, Owned, Contexts, Context, AllocationsOwned
<1> QED BY <1>1, <1>2

\* For all handles, raw buffers, objects, lengths and failures: the invariant.
LEMMA AlwaysIntact == Spec => []Intact
<1>1. Intact /\ [Next]_vars => Intact'
  BY IntactStep
<1> QED BY <1>1, InitIntact, PTL DEF Spec

\* For all handles, buffers, objects and failures: a context writes within its
\* raw buffer and reads within the octets that it was given.
THEOREM ContextsTyped == Spec => []TypeOK
  BY AlwaysIntact, IntactTyped, PTL

\* For all handles, buffers, objects and failures: what was decoded is what was
\* encoded, its arrays allocated, until its context is destroyed.
THEOREM DecodedStayIntact == Spec => []ObjectsIntact
  BY AlwaysIntact, IntactObjects, PTL

\* For all objects and capacities: GSEncodeObject appends the whole object or
\* leaves the length as it was, never changes the octets before, and returns 0
\* or -1 only for its reasons.
THEOREM EncodesWholeOrNothing == Spec => EncodesAllOrNothing
<1> DEFINE Step == \A e \in Encoders : out'.call = "GSEncodeObject" /\ out'.on = e =>
                      LET c    == encoder[e]
                          o    == out'.given
                          need == IF o.type = 0 THEN 0 ELSE Length(Written(GSSerialize(o, Pointed)))
                      IN  /\ encoder'[e].length = c.length + (IF out'.result = 1 THEN need ELSE 0)
                          /\ c.length > 0 => SubSeq(memory'[c.buffer], 1, c.length) = DataOf(c)
                          /\ out'.result = 0 => c.length + need > c.size \/ c.length = c.size
                          /\ out'.result = -1 => o.type = 0 \/ "copy" \in Failures
<1>1. Intact /\ [Next]_vars => [Step]_vars
  <2> SUFFICES ASSUME Intact, [Next]_vars, ~(vars' = vars), NEW e \in Encoders,
                      out'.call = "GSEncodeObject", out'.on = e
               PROVE  WholeOrNothing(e, out'.given, out'.result)
    BY DEF WholeOrNothing
  <2> QED BY IntactStep
<1> QED BY <1>1, AlwaysIntact, PTL DEF Spec, EncodesAllOrNothing

\* For all objects, lengths and failures: GSDecodeObject returns the next object
\* where there is a whole one, 0 at the end, and -1 only where what is left is
\* not whole, or there is no memory.
THEOREM DecodesEachObject == Spec => DecodesWhatIsThere
<1> DEFINE Step == \A d \in Decoders : out'.call = "GSDecodeObject" /\ out'.on = d =>
                      /\ out'.result = 1 => Expected(d) # NoObject
                      /\ out'.result = 0 => decoder[d].read = decoder[d].length
                      /\ out'.result = -1 => \/ Expected(d) = NoObject
                                             \/ Failures \cap {"decode", "array", "record"} # {}
<1>1. Intact /\ [Next]_vars => [Step]_vars
  <2> SUFFICES ASSUME Intact, [Next]_vars, ~(vars' = vars), NEW d \in Decoders,
                      out'.call = "GSDecodeObject", out'.on = d
               PROVE  FoundWhatIsThere(d, out'.result)
    BY DEF FoundWhatIsThere
  <2> QED BY IntactStep
<1> QED BY <1>1, AlwaysIntact, PTL DEF Spec, DecodesWhatIsThere
=============================================================================
