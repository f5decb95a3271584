-------------------------- MODULE DataBufferProofs --------------------------
(***************************************************************************)
(* Theorems about DataBuffer for any number of objects and blocks, any     *)
(* buffer size and any set of inputs.  First types, owners and pointers;   *)
(* on those rests what the bounds checks are worth: the three lengths stay *)
(* in order, no call reaches memory through a bad pointer, and a copy is   *)
(* equal to its source.  On both rests that DataBuffer implements          *)
(* OctetBuffers: whatever blocks its objects own, borrow and hand over,    *)
(* each of them is a value of its own.  That proof maps every member       *)
(* function to an operation on values; that no other value changes is      *)
(* where the ownership is needed, and that the function throws exactly     *)
(* when it should is where the lengths are.                                *)
(***************************************************************************)
EXTENDS DataBuffer, SequenceTheorems, TLAPS

-----------------------------------------------------------------------------
(* Lemmas about the helpers. *)

LEMMA PlusIsSum ==
    ASSUME NEW a \in Nat, NEW b \in Nat, a + b < SizeModulus
    PROVE  Plus(a, b) = a + b
BY DEF Plus

LEMMA ObjectType ==
    ASSUME NEW q \in Blocks \cup {NULL}, NEW owns \in BOOLEAN,
           NEW size \in Sizes, NEW data \in Sizes, NEW read \in Sizes
    PROVE  Object(q, owns, size, data, read) \in State
BY DEF Object, State

LEMMA ZeroSize == 0 \in Sizes
BY SizeAssumption DEF Sizes

LEMMA DefaultType == Default \in State
BY ObjectType, ZeroSize DEF Default

LEMMA DeadType == Dead \in State
BY ZeroSize DEF Dead, State

LEMMA BlankType == Blank \in [Offsets -> Cell]
BY DEF Blank, Cell

\* A block that is given typed cells leaves a typed heap.
LEMMA HeapType ==
    ASSUME TypeOK, NEW freed, NEW b, NEW n, NEW cells, Heap(freed, b, n, cells),
           b \in Blocks => n \in Sizes /\ cells \in [Offsets -> Cell]
    PROVE  capacity' \in [Blocks -> Sizes] /\ content' \in [Blocks -> [Offsets -> Cell]]
BY BlankType, SizeAssumption DEF Heap, TypeOK, Sizes

LEMMA StoredType ==
    ASSUME NEW cells \in [Offsets -> Cell], NEW offset \in Nat, NEW v \in Seq(Octet)
    PROVE  Stored(cells, offset, v) \in [Offsets -> Cell]
<1>1. ASSUME NEW i \in Offsets, i \in offset..(offset + Len(v) - 1)
      PROVE  v[i - offset + 1] \in Cell
  <2>1. i - offset + 1 \in 1..Len(v)
    BY <1>1, SizeAssumption DEF Offsets
  <2> QED BY <2>1 DEF Cell
<1> QED BY <1>1 DEF Stored

LEMMA ResultType ==
    ASSUME NEW op \in Operations, NEW o \in Objects \cup {NULL}, NEW n \in Nat,
           NEW status \in {"ok", "threw"}, NEW octets \in Seq(Cell)
    PROVE  Result(op, o, n, status, octets) \in Results
BY DEF Result, Results

LEMMA OutType ==
    ASSUME TypeOK, NEW op \in Operations, NEW o \in Objects \cup {NULL}, NEW n \in Nat
    PROVE  /\ Returns(op, o, n) => out' \in Results /\ fault' \in BOOLEAN
           /\ Throws(op, o, n) => out' \in Results /\ fault' \in BOOLEAN
<1>1. <<>> \in Seq(Cell)
  OBVIOUS
<1>2. Result(op, o, n, "ok", <<>>) \in Results /\ Result(op, o, n, "threw", <<>>) \in Results
  BY <1>1, ResultType
<1> QED BY <1>2 DEF Returns, Throws, Gives, TypeOK

LEMMA GivesType ==
    ASSUME TypeOK, NEW op \in Operations, NEW o \in Objects, NEW n \in Nat,
           NEW octets \in Seq(Cell), Gives(op, o, n, octets)
    PROVE  out' \in Results /\ fault' \in BOOLEAN
<1>1. Result(op, o, n, "ok", octets) \in Results
  BY ResultType
<1> QED BY <1>1 DEF Gives, TypeOK

LEMMA OctetsType ==
    ASSUME TypeOK, NEW p \in Blocks, NEW offset \in Nat, NEW n \in Nat,
           offset + n <= MaxSize
    PROVE  Octets(p, offset, n) \in Seq(Cell)
<1>1. ASSUME NEW i \in 1..n PROVE content[p][offset + i - 1] \in Cell
  BY <1>1, SizeAssumption DEF TypeOK, Offsets
<1> QED BY <1>1 DEF Octets

\* A call that throws at once, and a crash, keep every type.
LEMMA RefusedType ==
    ASSUME TypeOK, NEW op \in Operations, NEW o \in Objects \cup {NULL}, NEW n \in Nat,
           Refused(op, o, n)
    PROVE  TypeOK'
BY OutType DEF Refused, TypeOK

LEMMA CrashType == ASSUME TypeOK, Crash PROVE TypeOK'
BY DEF Crash, TypeOK

\* What AllocateBuffer leaves in an object: its size is kept, and so is its
\* owner flag unless it now owns a new block.
LEMMA AllocateBufferFields ==
    ASSUME NEW d \in State, NEW b \in Blocks \cup {NULL}
    PROVE  /\ AllocateBuffer(d, b) \in State
           /\ AllocateBuffer(d, b).buffer = b
           /\ AllocateBuffer(d, b).alive = d.alive
           /\ AllocateBuffer(d, b).buffer_size = d.buffer_size
           /\ b # NULL => AllocateBuffer(d, b).owns_buffer = TRUE
           /\ b = NULL => AllocateBuffer(d, b).owns_buffer = d.owns_buffer
           /\ d.buffer = NULL => /\ AllocateBuffer(d, b).data_length = d.data_length
                                 /\ AllocateBuffer(d, b).read_length = d.read_length
           /\ d.buffer # NULL => /\ AllocateBuffer(d, b).data_length = 0
                                 /\ AllocateBuffer(d, b).read_length = 0
<1> DEFINE f == IF d.buffer = NULL THEN d ELSE FreeBuffer(d)
<1>1. /\ f \in State /\ f.buffer = NULL
      /\ f.alive = d.alive /\ f.buffer_size = d.buffer_size
      /\ f.owns_buffer = d.owns_buffer
      /\ d.buffer = NULL => f.data_length = d.data_length /\ f.read_length = d.read_length
      /\ d.buffer # NULL => f.data_length = 0 /\ f.read_length = 0
  BY ZeroSize DEF FreeBuffer, State
<1>2. AllocateBuffer(d, b) =
          IF b = NULL THEN f ELSE [f EXCEPT !.buffer = b, !.owns_buffer = TRUE]
  BY DEF AllocateBuffer
<1> HIDE DEF f
<1> QED BY <1>1, <1>2 DEF State

LEMMA AllocationType ==
    ASSUME NEW d \in State, NEW b \in Allocation(d)
    PROVE  b \in Blocks \cup {NULL} /\ (b # NULL => d.buffer_size > 0)
BY DEF Allocation, Frees, State

LEMMA BuildType ==
    ASSUME TypeOK, NEW op \in Operations, NEW o \in Objects, NEW d \in State,
           NEW b \in Blocks \cup {NULL}, NEW cells,
           b \in Blocks => cells \in [Offsets -> Cell],
           Build(op, o, d, b, cells)
    PROVE  TypeOK'
<1>1. CASE Refused(op, o, 0)
  BY <1>1, RefusedType
<1>2. CASE /\ obj' = [obj EXCEPT ![o] = AllocateBuffer(d, b)]
           /\ Heap({}, b, d.buffer_size, cells)
           /\ Returns(op, o, 0)
           /\ UNCHANGED <<held, torn>>
  <2>1. obj' \in [Objects -> State]
    BY <1>2, AllocateBufferFields DEF TypeOK
  <2>2. capacity' \in [Blocks -> Sizes] /\ content' \in [Blocks -> [Offsets -> Cell]]
    <3>1. b \in Blocks => d.buffer_size \in Sizes /\ cells \in [Offsets -> Cell]
      BY DEF State
    <3> QED BY <1>2, <3>1, HeapType
  <2>3. out' \in Results /\ fault' \in BOOLEAN
    BY <1>2, OutType
  <2> QED BY <1>2, <2>1, <2>2, <2>3 DEF TypeOK
<1> QED BY <1>1, <1>2 DEF Build

\* The write helper, on a block it may touch.
LEMMA WriteType ==
    ASSUME TypeOK, NEW o \in Objects, NEW offset \in Nat, NEW v \in Seq(Octet),
           obj[o].buffer \in Blocks, Write(o, offset, v)
    PROVE  /\ capacity' \in [Blocks -> Sizes] /\ content' \in [Blocks -> [Offsets -> Cell]]
           /\ capacity' = capacity
<1> DEFINE p == obj[o].buffer
<1>1. Stored(content[p], offset, v) \in [Offsets -> Cell]
  BY StoredType DEF TypeOK
<1>2. Heap({}, p, capacity[p], Stored(content[p], offset, v))
  BY DEF Write
<1>3. capacity[p] \in Sizes
  BY DEF TypeOK
<1>4. capacity' \in [Blocks -> Sizes] /\ content' \in [Blocks -> [Offsets -> Cell]]
  BY <1>1, <1>2, <1>3, HeapType
<1> QED BY <1>2, <1>4 DEF Heap, TypeOK

\* The bounds checks stand for the sums they are written for: n octets fit.
LEMMA BeyondBufferMeans ==
    ASSUME NEW d \in State, NEW offset \in Nat, NEW n \in Nat,
           offset + n < SizeModulus, ~BeyondBuffer(d, offset, n)
    PROVE  d.buffer # NULL /\ offset + n <= d.buffer_size
<1>1. d.buffer_size \in Nat
  BY SizeAssumption DEF State, Sizes
<1> QED BY <1>1, PlusIsSum DEF BeyondBuffer

LEMMA AdvancedType ==
    ASSUME NEW d \in State, NEW n \in 0..(SizeModulus - 1), ~BeyondData(d, n)
    PROVE  Advanced(d, n) \in State
<1>1. Plus(d.read_length, n) \in 0..d.data_length
  BY SizeAssumption DEF BeyondData, Plus, State, Sizes
<1>2. Plus(d.read_length, n) \in Sizes
  BY <1>1, SizeAssumption DEF State, Sizes
<1> QED BY <1>2 DEF Advanced, State

\* One field of one object changed, nothing in the heap.
LEMMA ObjType ==
    ASSUME TypeOK, NEW o \in Objects, NEW d \in State, NEW op \in Operations, NEW n \in Nat,
           obj' = [obj EXCEPT ![o] = d], Returns(op, o, n),
           UNCHANGED <<capacity, content, held, torn>>
    PROVE  TypeOK'
<1>1. out' \in Results /\ fault' \in BOOLEAN
  BY OutType
<1> QED BY <1>1 DEF TypeOK

-----------------------------------------------------------------------------
(* Every action keeps the types. *)

LEMMA CallerType ==
    ASSUME TypeOK, NEW b \in Blocks,
           \/ \E n \in Sizes, x \in Octet : CallerAllocate(b, n, x)
           \/ CallerFree(b)
    PROVE  TypeOK'
<1>1. ASSUME NEW n \in Sizes, NEW x \in Octet, CallerAllocate(b, n, x)
      PROVE  TypeOK'
  <2> DEFINE cells == [i \in Offsets |-> IF i < n THEN x ELSE Indeterminate]
  <2>1. cells \in [Offsets -> Cell]
    BY DEF Cell
  <2>2. Heap({}, b, n, cells) /\ held' = held \cup {b} /\ UNCHANGED <<obj, torn>>
        /\ Returns("Caller", NULL, 0)
    BY <1>1 DEF CallerAllocate
  <2> HIDE DEF cells
  <2>3. capacity' \in [Blocks -> Sizes] /\ content' \in [Blocks -> [Offsets -> Cell]]
    BY <2>1, <2>2, HeapType
  <2>4. out' \in Results /\ fault' \in BOOLEAN
    BY <2>2, OutType DEF Operations
  <2> QED BY <2>2, <2>3, <2>4 DEF TypeOK
<1>2. ASSUME CallerFree(b) PROVE TypeOK'
  <2>1. capacity' \in [Blocks -> Sizes] /\ content' \in [Blocks -> [Offsets -> Cell]]
    BY <1>2, HeapType, HeapAssumption DEF CallerFree
  <2>2. out' \in Results /\ fault' \in BOOLEAN
    BY <1>2, OutType DEF Operations, CallerFree
  <2> QED BY <1>2, <2>1, <2>2 DEF TypeOK, CallerFree
<1> QED BY <1>1, <1>2

LEMMA ConstructType ==
    ASSUME TypeOK, NEW o \in Objects,
           \/ DefaultConstruct(o)
           \/ \E n \in Sizes : SizeConstruct(o, n)
           \/ \E q \in Blocks \cup {NULL}, n, length \in Sizes :
                PointerConstruct(o, q, n, length)
           \/ \E v \in Values, n \in Sizes : OctetStringConstruct(o, v, n)
    PROVE  TypeOK'
<1> USE DEF Operations
<1>1. CASE DefaultConstruct(o)
  BY <1>1, DefaultType, ObjType DEF DefaultConstruct
<1>2. ASSUME NEW n \in Sizes, SizeConstruct(o, n) PROVE TypeOK'
  <2> DEFINE d == Object(NULL, FALSE, n, 0, 0)
  <2>1. d \in State
    BY ObjectType, ZeroSize
  <2>2. PICK b \in Allocation(d) : Build("Construct", o, d, b, Blank)
    BY <1>2 DEF SizeConstruct
  <2> HIDE DEF d
  <2>3. b \in Blocks \cup {NULL}
    BY <2>1, AllocationType
  <2> QED BY <2>1, <2>2, <2>3, BlankType, BuildType
<1>3. ASSUME NEW q \in Blocks \cup {NULL}, NEW n \in Sizes, NEW length \in Sizes,
             PointerConstruct(o, q, n, length)
      PROVE  TypeOK'
  <2>1. Object(q, FALSE, n, length, 0) \in State
    BY ObjectType, ZeroSize
  <2>2. CASE Refused("Construct", o, 0)
    BY <2>2, RefusedType
  <2>3. CASE /\ obj' = [obj EXCEPT ![o] = Object(q, FALSE, n, length, 0)]
             /\ Returns("Construct", o, 0)
             /\ UNCHANGED <<capacity, content, held, torn>>
    BY <2>1, <2>3, ObjType
  <2> QED BY <1>3, <2>2, <2>3 DEF PointerConstruct
<1>4. ASSUME NEW v \in Values, NEW n \in Sizes, OctetStringConstruct(o, v, n)
      PROVE  TypeOK'
  <2> DEFINE size == IF n > 0 THEN n ELSE Len(v)
             d    == Object(NULL, FALSE, size, Len(v), 0)
  <2>1. v \in Seq(Octet) /\ Len(v) \in Nat
    BY InputAssumption
  <2>2. CASE Refused("FromOctets", o, 0)
    BY <2>2, RefusedType
  <2>3. ASSUME size <= MaxSize, Len(v) <= size,
               NEW b \in Allocation(d), Build("FromOctets", o, d, b, Stored(Blank, 0, v))
        PROVE  TypeOK'
    <3>1. size \in Sizes /\ Len(v) \in Sizes
      BY <2>1, <2>3, SizeAssumption DEF Sizes
    <3> HIDE DEF size
    <3>2. d \in State
      BY <3>1, ObjectType, ZeroSize
    <3> HIDE DEF d
    <3>3. b \in Blocks \cup {NULL}
      BY <2>3, <3>2, AllocationType
    <3>4. Stored(Blank, 0, v) \in [Offsets -> Cell]
      BY <2>1, BlankType, StoredType
    <3> QED BY <2>3, <3>2, <3>3, <3>4, BuildType
  <2>4. size \in Nat
    BY <2>1, SizeAssumption DEF Sizes
  <2>5. \/ Refused("FromOctets", o, 0)
        \/ /\ size <= MaxSize /\ ~(Len(v) > size)
           /\ \E b \in Allocation(d) : Build("FromOctets", o, d, b, Stored(Blank, 0, v))
    BY <1>4 DEF OctetStringConstruct
  <2>6. ~(Len(v) > size) => Len(v) <= size
    BY <2>1, <2>4
  <2> HIDE DEF size, d
  <2> QED BY <2>2, <2>3, <2>5, <2>6
<1> QED BY <1>1, <1>2, <1>3, <1>4

LEMMA CopyConstructType ==
    ASSUME TypeOK, NEW o \in Objects, NEW s \in Objects, CopyConstruct(o, s)
    PROVE  TypeOK'
<1> DEFINE other == obj[s]
           d     == Object(NULL, FALSE, other.buffer_size, other.data_length,
                           other.read_length)
           cells == IF other.data_length = 0 THEN Blank
                    ELSE Prefix(content[other.buffer], other.data_length)
<1>1. other \in State
  BY DEF TypeOK
<1>2. d \in State
  BY <1>1, ObjectType DEF State
<1>3. PICK b \in Allocation(d) :
         IF b # NULL /\ other.data_length > 0
                     /\ ~Accessible(other.buffer, other.data_length)
         THEN Crash ELSE Build("Copy", o, d, b, cells)
  BY DEF CopyConstruct
<1>4. b \in Blocks \cup {NULL}
  BY <1>2, AllocationType
<1>5. CASE Crash
  BY <1>5, CrashType
<1>6. ASSUME b # NULL /\ other.data_length > 0 =>
                 Accessible(other.buffer, other.data_length),
             Build("Copy", o, d, b, cells)
      PROVE  TypeOK'
  <2>1. ASSUME b \in Blocks PROVE cells \in [Offsets -> Cell]
    <3>1. CASE other.data_length = 0
      BY <3>1, BlankType
    <3>2. CASE other.data_length # 0
      <4>1. other.buffer \in Blocks
        BY <1>1, <1>6, <2>1, <3>2, HeapAssumption DEF Accessible, Live, State, Sizes
      <4>2. content[other.buffer] \in [Offsets -> Cell]
        BY <4>1 DEF TypeOK
      <4> QED BY <3>2, <4>2 DEF Prefix, Cell
    <3> QED BY <3>1, <3>2
  <2> HIDE DEF d, cells
  <2> QED BY <1>2, <1>4, <1>6, <2>1, BuildType DEF Operations
<1> QED BY <1>3, <1>5, <1>6

LEMMA MoveConstructType ==
    ASSUME TypeOK, NEW o \in Objects, NEW s \in Objects, MoveConstruct(o, s)
    PROVE  TypeOK'
<1>1. obj' \in [Objects -> State]
  BY DefaultType DEF MoveConstruct, MovedFrom, TypeOK
<1>2. out' \in Results /\ fault' \in BOOLEAN
  BY OutType DEF MoveConstruct, Operations
<1> QED BY <1>1, <1>2 DEF MoveConstruct, TypeOK

LEMMA DestroyType ==
    ASSUME TypeOK, NEW o \in Objects, Destroy(o)
    PROVE  TypeOK'
<1>1. CASE Crash
  BY <1>1, CrashType
<1>2. CASE /\ obj' = [obj EXCEPT ![o] = Dead]
           /\ Heap(Frees(obj[o]), NULL, 0, Blank)
           /\ torn' = torn \ {o}
           /\ Returns("Destroy", o, 0)
           /\ UNCHANGED held
  <2>1. capacity' \in [Blocks -> Sizes] /\ content' \in [Blocks -> [Offsets -> Cell]]
    BY <1>2, HeapType, HeapAssumption
  <2>2. out' \in Results /\ fault' \in BOOLEAN
    BY <1>2, OutType DEF Operations
  <2> QED BY <1>2, <2>1, <2>2, DeadType DEF TypeOK
<1> QED BY <1>1, <1>2 DEF Destroy

LEMMA TargetType ==
    ASSUME NEW d \in State, NEW n \in Sizes
    PROVE  Target(d) \in State /\ Resized(Target(d), n) \in State
<1>1. Target(d) \in State
  BY ZeroSize DEF Target, State
<1> QED BY <1>1 DEF Resized, State

LEMMA CopyDataType ==
    ASSUME TypeOK, NEW o \in Objects, NEW s \in Objects, NEW d \in State,
           NEW freed, NEW size \in Sizes, NEW cells \in [Offsets -> Cell],
           CopyData(o, s, d, freed, size, cells)
    PROVE  TypeOK'
<1> DEFINE n   == obj[s].data_length
           new == [i \in Offsets |-> IF i < n THEN content[obj[s].buffer][i] ELSE cells[i]]
<1>1. CASE Crash
  BY <1>1, CrashType
<1>2. ASSUME ~(n > 0) \/ Accessible(obj[s].buffer, n),
             obj' = [obj EXCEPT ![o] = [d EXCEPT !.data_length = n,
                                          !.read_length = obj[s].read_length]],
             Heap(freed, d.buffer, size, new),
             torn' = IF s \in torn THEN torn \cup {o} ELSE torn,
             Returns("Assign", o, 0), UNCHANGED held
      PROVE  TypeOK'
  <2>1. obj' \in [Objects -> State]
    BY <1>2 DEF TypeOK, State
  <2>2. n \in Nat
    BY SizeAssumption DEF TypeOK, State, Sizes
  <2>3. new \in [Offsets -> Cell]
    <3>1. CASE n = 0
      <4>1. ASSUME NEW i \in Offsets PROVE ~(i < n)
        BY <3>1, <4>1 DEF Offsets
      <4> QED BY <4>1
    <3>2. CASE n > 0
      <4>1. obj[s].buffer \in Blocks
        BY <1>2, <3>2 DEF Accessible, Live
      <4>2. content[obj[s].buffer] \in [Offsets -> Cell]
        BY <4>1 DEF TypeOK
      <4> QED BY <4>2
    <3> QED BY <2>2, <3>1, <3>2
  <2>4. capacity' \in [Blocks -> Sizes] /\ content' \in [Blocks -> [Offsets -> Cell]]
    <3> HIDE DEF new
    <3> QED BY <1>2, <2>3, HeapType
  <2>5. out' \in Results /\ fault' \in BOOLEAN
    BY <1>2, OutType DEF Operations
  <2> QED BY <1>2, <2>1, <2>4, <2>5 DEF TypeOK
<1> QED BY <1>1, <1>2 DEF CopyData

LEMMA AssignType ==
    ASSUME TypeOK, NEW o \in Objects, NEW s \in Objects, Assign(o, s)
    PROVE  TypeOK'
<1> DEFINE t == Target(obj[o])
           d == Resized(t, obj[s].buffer_size)
<1>1. t \in State /\ d \in State
  BY TargetType DEF TypeOK, State
<1>2. CASE AssignSelf(o)
  <2>1. out' \in Results /\ fault' \in BOOLEAN
    BY <1>2, OutType DEF AssignSelf, Operations
  <2> QED BY <1>2, <2>1 DEF AssignSelf, TypeOK
<1>3. CASE AssignInPlace(o, s)
  <2>1. CASE t.buffer = NULL
    <3>1. CopyData(o, s, t, {}, 0, Blank)
      BY <1>3, <2>1 DEF AssignInPlace
    <3> HIDE DEF t
    <3> QED BY <1>1, <3>1, ZeroSize, BlankType, CopyDataType
  <2>2. CASE t.buffer # NULL
    <3>1. CopyData(o, s, t, {}, capacity[t.buffer], content[t.buffer])
      BY <1>3, <2>2 DEF AssignInPlace
    <3>2. capacity[t.buffer] \in Sizes /\ content[t.buffer] \in [Offsets -> Cell]
      BY <1>1, <2>2 DEF TypeOK, State
    <3> HIDE DEF t
    <3> QED BY <1>1, <3>1, <3>2, CopyDataType
  <2> QED BY <2>1, <2>2
<1>4. CASE AssignReallocated(o, s)
  <2>1. PICK b \in Allocation(d) :
           CopyData(o, s, AllocateBuffer(d, b), Frees(d), d.buffer_size, Blank)
    BY <1>4 DEF AssignReallocated
  <2> HIDE DEF d
  <2>2. b \in Blocks \cup {NULL}
    BY <1>1, AllocationType
  <2>3. AllocateBuffer(d, b) \in State /\ d.buffer_size \in Sizes
    BY <1>1, <2>2, AllocateBufferFields DEF State
  <2> QED BY <2>1, <2>3, BlankType, CopyDataType
<1>5. CASE AssignFails(o, s)
  <2>1. /\ obj' = [obj EXCEPT ![o] = AllocateBuffer(d, NULL)]
        /\ Heap(Frees(d), NULL, 0, Blank)
        /\ torn' = torn \cup {o}
        /\ Throws("Assign", o, 0)
        /\ UNCHANGED held
    BY <1>5 DEF AssignFails
  <2> HIDE DEF d
  <2>2. AllocateBuffer(d, NULL) \in State
    BY <1>1, AllocateBufferFields
  <2>3. capacity' \in [Blocks -> Sizes] /\ content' \in [Blocks -> [Offsets -> Cell]]
    BY <2>1, HeapType, HeapAssumption
  <2>4. out' \in Results /\ fault' \in BOOLEAN
    BY <2>1, OutType DEF Operations
  <2> QED BY <2>1, <2>2, <2>3, <2>4 DEF TypeOK
<1> QED BY <1>2, <1>3, <1>4, <1>5 DEF Assign

LEMMA HandOverType ==
    ASSUME TypeOK, NEW o \in Objects,
           \/ TakeBufferOwnership(o)
           \/ \E q \in Blocks \cup {NULL}, n, length \in Sizes, take \in BOOLEAN :
                SetBuffer(o, q, n, length, take)
    PROVE  TypeOK'
<1>1. CASE TakeBufferOwnership(o)
  <2>1. out' \in Results /\ fault' \in BOOLEAN
    BY <1>1, OutType DEF TakeBufferOwnership, Operations
  <2>2. held' \in SUBSET Blocks
    BY <1>1 DEF TakeBufferOwnership, TypeOK, State
  <2> QED BY <1>1, <2>1, <2>2, DefaultType DEF TakeBufferOwnership, TypeOK
<1>2. ASSUME NEW q \in Blocks \cup {NULL}, NEW n \in Sizes, NEW length \in Sizes,
             NEW take \in BOOLEAN, SetBuffer(o, q, n, length, take)
      PROVE  TypeOK'
  <2>1. CASE Refused("SetBuffer", o, 0)
    BY <2>1, RefusedType DEF Operations
  <2>2. CASE Crash
    BY <2>2, CrashType
  <2>3. CASE /\ obj' = [obj EXCEPT ![o] = Object(q, take, n, length, 0)]
             /\ Heap(Frees(obj[o]), NULL, 0, Blank)
             /\ held' = IF take THEN held \ {q} ELSE held
             /\ torn' = torn \ {o}
             /\ Returns("SetBuffer", o, 0)
    <3>1. Object(q, take, n, length, 0) \in State
      BY ObjectType, ZeroSize
    <3>2. capacity' \in [Blocks -> Sizes] /\ content' \in [Blocks -> [Offsets -> Cell]]
      BY <2>3, HeapType, HeapAssumption
    <3>3. out' \in Results /\ fault' \in BOOLEAN
      BY <2>3, OutType DEF Operations
    <3> QED BY <2>3, <3>1, <3>2, <3>3 DEF TypeOK
  <2> QED BY <1>2, <2>1, <2>2, <2>3 DEF SetBuffer
<1> QED BY <1>1, <1>2

LEMMA LengthType ==
    ASSUME TypeOK, NEW o \in Objects,
           \/ \E n \in Sizes : SetDataLength(o, n)
           \/ ResetReadLength(o)
           \/ \E n \in Counts : AdvanceReadLength(o, n)
    PROVE  TypeOK'
<1> USE DEF Operations
<1>0. obj[o] \in State
  BY DEF TypeOK
<1>1. ASSUME NEW n \in Sizes, SetDataLength(o, n) PROVE TypeOK'
  <2>1. WithDataLength(obj[o], n) \in State
    BY <1>0 DEF WithDataLength, Minimum, State
  <2>2. n \in Nat
    BY SizeAssumption DEF Sizes
  <2>3. CASE Refused("SetDataLength", o, n)
    BY <2>2, <2>3, RefusedType
  <2>4. CASE /\ obj' = [obj EXCEPT ![o] = WithDataLength(obj[o], n)]
             /\ Returns("SetDataLength", o, n)
             /\ UNCHANGED <<capacity, content, held, torn>>
    BY <2>1, <2>2, <2>4, ObjType
  <2> QED BY <1>1, <2>3, <2>4 DEF SetDataLength
<1>2. CASE ResetReadLength(o)
  <2>1. [obj[o] EXCEPT !.read_length = 0] \in State
    BY <1>0, ZeroSize DEF State
  <2>2. obj' = [obj EXCEPT ![o] = [obj[o] EXCEPT !.read_length = 0]]
    BY <1>2 DEF ResetReadLength
  <2> QED BY <1>2, <2>1, <2>2, ObjType DEF ResetReadLength
<1>3. ASSUME NEW n \in Counts, AdvanceReadLength(o, n) PROVE TypeOK'
  <2>1. n \in 0..(SizeModulus - 1) /\ n \in Nat
    BY InputAssumption, SizeAssumption
  <2>2. CASE BeyondData(obj[o], n)
    <3>1. Refused("Advance", o, n)
      BY <1>3, <2>2 DEF AdvanceReadLength
    <3> QED BY <2>1, <3>1, RefusedType
  <2>3. CASE ~BeyondData(obj[o], n)
    <3>1. Advanced(obj[o], n) \in State
      BY <1>0, <2>1, <2>3, AdvancedType
    <3>2. /\ obj' = [obj EXCEPT ![o] = Advanced(obj[o], n)]
          /\ Returns("Advance", o, n)
          /\ UNCHANGED <<capacity, content, held, torn>>
      BY <1>3, <2>3 DEF AdvanceReadLength
    <3> QED BY <2>1, <3>1, <3>2, ObjType
  <2> QED BY <2>2, <2>3
<1> QED BY <1>1, <1>2, <1>3

LEMMA AccessibleMeans ==
    ASSUME TypeOK, NEW q, NEW n \in Nat, Accessible(q, n)
    PROVE  q \in Blocks /\ n <= MaxSize
BY SizeAssumption DEF Accessible, Live, TypeOK, Sizes

\* A store into the buffer of o, with no other change.
LEMMA StoreType ==
    ASSUME TypeOK, NEW o \in Objects, NEW i \in Nat, NEW v \in Seq(Octet), NEW n \in Nat,
           obj[o].buffer \in Blocks, Write(o, i, v), UNCHANGED <<obj, held, torn>>,
           Returns("Store", o, n) \/ Throws("Store", o, n)
    PROVE  TypeOK'
<1>1. capacity' \in [Blocks -> Sizes] /\ content' \in [Blocks -> [Offsets -> Cell]]
  BY WriteType
<1>2. out' \in Results /\ fault' \in BOOLEAN
  BY OutType DEF Operations
<1> QED BY <1>1, <1>2 DEF TypeOK

LEMMA StillType ==
    ASSUME TypeOK, NEW o \in Objects, NEW op \in Operations, NEW n \in Nat,
           UNCHANGED <<obj, capacity, content, held, torn>>,
           Returns(op, o, n) \/ Throws(op, o, n)
    PROVE  TypeOK'
<1>1. out' \in Results /\ fault' \in BOOLEAN
  BY OutType
<1> QED BY <1>1 DEF TypeOK

LEMMA WriteActionsType ==
    ASSUME TypeOK, NEW o \in Objects,
           \/ \E i \in Counts, x \in Octet : WriteOctet(o, i, x)
           \/ \E i \in Counts, v \in Values : SetValue(o, i, v)
           \/ \E i \in Counts, high, low \in Values : SetValue64(o, i, high, low)
           \/ \E v \in Values : AppendValue(o, v)
    PROVE  TypeOK'
<1> USE DEF Operations
<1>0. Counts \subseteq Nat /\ \A v \in Values : v \in Seq(Octet) /\ Len(v) \in Nat
  BY SizeAssumption, InputAssumption
<1>1. ASSUME NEW i \in Counts, NEW x \in Octet, WriteOctet(o, i, x) PROVE TypeOK'
  <2>0. i \in Nat /\ i + 1 \in Nat /\ <<x>> \in Seq(Octet)
    BY <1>0
  <2>1. CASE Refused("Store", o, i + 1)
    BY <2>0, <2>1, RefusedType
  <2>2. CASE Crash
    BY <2>2, CrashType
  <2>3. CASE /\ Accessible(obj[o].buffer, i + 1)
             /\ Write(o, i, <<x>>)
             /\ Returns("Store", o, i + 1)
             /\ UNCHANGED <<obj, held, torn>>
    BY <2>0, <2>3, AccessibleMeans, StoreType
  <2> QED BY <1>1, <2>1, <2>2, <2>3 DEF WriteOctet
<1>2. ASSUME NEW i \in Counts, NEW v \in Values, SetValue(o, i, v) PROVE TypeOK'
  <2>0. i \in Nat /\ v \in Seq(Octet) /\ Len(v) \in Nat /\ i + Len(v) \in Nat
    BY <1>0
  <2>1. CASE Refused("Store", o, i + Len(v))
    BY <2>0, <2>1, RefusedType
  <2>2. CASE Crash
    BY <2>2, CrashType
  <2>3. CASE /\ ~(Len(v) > 0 /\ ~Accessible(obj[o].buffer, i + Len(v)))
             /\ IF Len(v) = 0 THEN UNCHANGED <<capacity, content>> ELSE Write(o, i, v)
             /\ Returns("Store", o, i + Len(v))
             /\ UNCHANGED <<obj, held, torn>>
    <3>1. CASE Len(v) = 0
      BY <2>0, <2>3, <3>1, StillType
    <3>2. CASE Len(v) # 0
      BY <2>0, <2>3, <3>2, AccessibleMeans, StoreType
    <3> QED BY <3>1, <3>2
  <2> QED BY <1>2, <2>1, <2>2, <2>3 DEF SetValue
<1>3. ASSUME NEW i \in Counts, NEW high \in Values, NEW low \in Values,
             SetValue64(o, i, high, low)
      PROVE  TypeOK'
  <2> DEFINE n == i + 2 * Half
  <2>0. /\ i \in Nat /\ Half \in Nat /\ n \in Nat /\ i + Half \in Nat
        /\ high \in Seq(Octet) /\ low \in Seq(Octet) /\ high \o low \in Seq(Octet)
    BY <1>0, SizeAssumption
  <2>1. CASE Throws("Store", o, n) /\ UNCHANGED <<obj, capacity, content, held, torn>>
    <3> HIDE DEF n
    <3> QED BY <2>0, <2>1, StillType
  <2>2. CASE fault' = TRUE /\ UNCHANGED <<obj, capacity, content, held, torn, out>>
    BY <2>2, CrashType DEF Crash
  <2>3. CASE /\ Accessible(obj[o].buffer, i + Half)
             /\ \/ Write(o, i, high) /\ Throws("Store", o, n)
                \/ Write(o, i, high \o low) /\ Returns("Store", o, n)
             /\ UNCHANGED <<obj, held, torn>>
    <3> HIDE DEF n
    <3>1. obj[o].buffer \in Blocks
      BY <2>0, <2>3, AccessibleMeans
    <3> QED BY <2>0, <2>3, <3>1, StoreType
  <2> QED BY <1>3, <2>1, <2>2, <2>3 DEF SetValue64
<1>4. ASSUME NEW v \in Values, AppendValue(o, v) PROVE TypeOK'
  <2> DEFINE at == obj[o].data_length
             d  == [obj[o] EXCEPT !.data_length = @ + Len(v)]
  <2>0. /\ v \in Seq(Octet) /\ Len(v) \in Nat /\ at \in Nat /\ at <= MaxSize
        /\ obj[o] \in State /\ at + Len(v) < SizeModulus
    BY <1>0, SizeAssumption, InputAssumption DEF TypeOK, State, Sizes
  <2>1. CASE Refused("Append", o, Len(v))
    BY <2>0, <2>1, RefusedType
  <2>2. CASE Crash
    BY <2>2, CrashType
  <2>3. ASSUME ~(Len(v) > 0 /\ BeyondBuffer(obj[o], at, Len(v))),
               ~(Len(v) > 0 /\ ~Accessible(obj[o].buffer, at + Len(v))),
               IF Len(v) = 0 THEN UNCHANGED <<capacity, content>> ELSE Write(o, at, v),
               obj' = [obj EXCEPT ![o] = d],
               Returns("Append", o, Len(v)), UNCHANGED <<held, torn>>
        PROVE  TypeOK'
    <3>1. at + Len(v) \in Sizes
      <4>1. CASE Len(v) = 0
        BY <2>0, <4>1, SizeAssumption DEF Sizes
      <4>2. CASE Len(v) > 0
        <5>1. at + Len(v) <= obj[o].buffer_size
          BY <2>0, <2>3, <4>2, BeyondBufferMeans
        <5> QED BY <2>0, <5>1, SizeAssumption DEF State, Sizes
      <4> QED BY <2>0, <4>1, <4>2
    <3>2. d \in State
      BY <2>0, <3>1 DEF State
    <3>3. capacity' \in [Blocks -> Sizes] /\ content' \in [Blocks -> [Offsets -> Cell]]
      <4>1. CASE Len(v) = 0
        BY <2>3, <4>1 DEF TypeOK
      <4>2. CASE Len(v) > 0
        BY <2>0, <2>3, <4>2, AccessibleMeans, WriteType
      <4> QED BY <2>0, <4>1, <4>2
    <3>4. out' \in Results /\ fault' \in BOOLEAN
      BY <2>0, <2>3, OutType
    <3> QED BY <2>3, <3>2, <3>3, <3>4 DEF TypeOK
  <2> QED BY <1>4, <2>1, <2>2, <2>3 DEF AppendValue
<1> QED BY <1>1, <1>2, <1>3, <1>4

LEMMA ReadValueType ==
    ASSUME TypeOK, NEW o \in Objects, NEW n \in 0..(SizeModulus - 1), ReadValue(o, n)
    PROVE  TypeOK'
<1> DEFINE d == obj[o]
           octets == IF n = 0 THEN <<>> ELSE Octets(d.buffer, d.read_length, n)
<1>0. d \in State /\ n \in Nat /\ d.read_length \in Nat /\ d.read_length <= MaxSize
  BY SizeAssumption DEF TypeOK, State, Sizes
<1>1. CASE Refused("Read", o, n)
  BY <1>0, <1>1, RefusedType DEF Operations
<1>2. CASE Crash
  BY <1>2, CrashType
<1>3. ASSUME ~(n > 0 /\ BeyondData(d, n)),
             ~(n > 0 /\ ~Accessible(d.buffer, d.read_length + n)),
             Gives("Read", o, n, octets), obj' = [obj EXCEPT ![o] = Advanced(d, n)],
             UNCHANGED <<capacity, content, held, torn>>
      PROVE  TypeOK'
  <2>1. octets \in Seq(Cell)
    <3>1. CASE n = 0
      BY <3>1
    <3>2. CASE n > 0
      BY <1>0, <1>3, <3>2, AccessibleMeans, OctetsType
    <3> QED BY <1>0, <3>1, <3>2
  <2>2. Advanced(d, n) \in State
    <3>1. CASE n = 0
      <4>1. Plus(d.read_length, n) = d.read_length
        BY <1>0, <3>1, SizeAssumption DEF Plus
      <4> QED BY <1>0, <4>1 DEF Advanced, State
    <3>2. CASE n > 0
      BY <1>0, <1>3, <3>2, AdvancedType
    <3> QED BY <1>0, <3>1, <3>2
  <2>3. out' \in Results /\ fault' \in BOOLEAN
    <3> HIDE DEF octets
    <3> QED BY <1>0, <1>3, <2>1, GivesType DEF Operations
  <2> QED BY <1>3, <2>2, <2>3 DEF TypeOK
<1> QED BY <1>1, <1>2, <1>3 DEF ReadValue

LEMMA ReadActionsType ==
    ASSUME TypeOK, NEW o \in Objects,
           \/ \E i, n \in Counts : GetValue(o, i, n)
           \/ \E n \in Counts : ReadValue(o, n)
           \/ \E n \in Counts : ReadString(o, n)
    PROVE  TypeOK'
<1>0. Counts \subseteq 0..(SizeModulus - 1)
  BY InputAssumption
<1>1. ASSUME NEW i \in Counts, NEW n \in Counts, GetValue(o, i, n) PROVE TypeOK'
  <2> DEFINE octets == IF n = 0 THEN <<>> ELSE Octets(obj[o].buffer, i, n)
  <2>0. i \in Nat /\ n \in Nat /\ i + n \in Nat
    BY <1>0, SizeAssumption
  <2>1. CASE Refused("Get", o, i + n)
    BY <2>0, <2>1, RefusedType DEF Operations
  <2>2. CASE Crash
    BY <2>2, CrashType
  <2>3. ASSUME ~(n > 0 /\ ~Accessible(obj[o].buffer, i + n)),
               Gives("Get", o, i + n, octets),
               UNCHANGED <<obj, capacity, content, held, torn>>
        PROVE  TypeOK'
    <3>1. octets \in Seq(Cell)
      <4>1. CASE n = 0
        BY <4>1
      <4>2. CASE n > 0
        BY <2>0, <2>3, <4>2, AccessibleMeans, OctetsType
      <4> QED BY <2>0, <4>1, <4>2
    <3> HIDE DEF octets
    <3>2. out' \in Results /\ fault' \in BOOLEAN
      BY <2>0, <2>3, <3>1, GivesType DEF Operations
    <3> QED BY <2>3, <3>2 DEF TypeOK
  <2> QED BY <1>1, <2>1, <2>2, <2>3 DEF GetValue
<1>2. ASSUME NEW n \in Counts, ReadValue(o, n) PROVE TypeOK'
  BY <1>0, <1>2, ReadValueType
<1>3. ASSUME NEW n \in Counts, ReadString(o, n) PROVE TypeOK'
  <2>1. n \in 0..(SizeModulus - 1) /\ n \in Nat
    BY InputAssumption
  <2>2. CASE Refused("Read", o, n)
    BY <2>1, <2>2, RefusedType DEF Operations
  <2> QED BY <1>3, <2>1, <2>2, ReadValueType DEF ReadString
<1> QED BY <1>1, <1>2, <1>3

LEMMA TypeInit == Init => TypeOK
<1>1. ASSUME Init PROVE out \in Results
  <2>1. <<>> \in Seq(Cell) /\ "Caller" \in Operations /\ 0 \in Nat
    BY DEF Operations
  <2> QED BY <1>1, <2>1, ResultType DEF Init
<1> QED BY <1>1, DeadType, BlankType, ZeroSize DEF Init, TypeOK

LEMMA TypeStep == TypeOK /\ [Next]_vars => TypeOK'
<1> SUFFICES ASSUME TypeOK, [Next]_vars PROVE TypeOK'
  OBVIOUS
<1>1. CASE UNCHANGED vars
  BY <1>1 DEF vars, TypeOK
<1>2. CASE Next
  BY <1>2, CallerType, ConstructType, CopyConstructType, MoveConstructType, DestroyType,
     AssignType, HandOverType, LengthType, WriteActionsType, ReadActionsType DEF Next
<1> QED BY <1>1, <1>2

\* Every field of every object keeps its type, whatever the caller does: the
\* lengths an object records never leave 0..MaxSize, and what a call returns is
\* a sequence of cells.
THEOREM TypeCorrect == Spec => []TypeOK
BY TypeInit, TypeStep, PTL DEF Spec

-----------------------------------------------------------------------------
(***************************************************************************)
(* Ownership.  OneOwner and NoDangling are not inductive as they stand:    *)
(* that a block freed or allocated by one object is not in use by another  *)
(* needs the parts below together, for live and dead objects alike.        *)
(***************************************************************************)

PointersLive ==
    \A o \in Objects : obj[o].buffer # NULL =>
        obj[o].buffer \in Live /\ obj[o].buffer_size <= capacity[obj[o].buffer]

DeadHoldNothing == \A o \in Objects : obj[o].alive = FALSE => obj[o] = Dead

Unshared ==
    \A o, s \in Objects :
        o # s /\ obj[o].buffer # NULL => obj[o].buffer # obj[s].buffer

OwnedNotHeld ==
    \A o \in Objects : Frees(obj[o]) \cap held = {}

NoLeak ==
    \A b \in Live : b \in held \/ \E o \in Objects : b \in Frees(obj[o])

HeldLive == held \subseteq Live

\* The inductive invariant of ownership.
OwnInv ==
    /\ PointersLive
    /\ DeadHoldNothing
    /\ Unshared
    /\ OwnedNotHeld
    /\ NoLeak
    /\ HeldLive

\* A step that changes no pointer, no owner, no capacity and no loan.
LEMMA QuietStep ==
    ASSUME TypeOK, TypeOK', OwnInv, UNCHANGED <<capacity, held>>,
           \A o \in Objects : /\ obj'[o].buffer = obj[o].buffer
                              /\ obj'[o].owns_buffer = obj[o].owns_buffer
                              /\ obj'[o].buffer_size = obj[o].buffer_size
                              /\ obj'[o] = obj[o] \/ obj'[o].alive = TRUE
    PROVE  OwnInv'
<1>1. \A o \in Objects : Frees(obj'[o]) = Frees(obj[o])
  BY DEF Frees
<1>2. Live' = Live
  BY DEF Live
<1>3. PointersLive'
  BY <1>2 DEF OwnInv, PointersLive
<1>4. DeadHoldNothing'
  <2> SUFFICES ASSUME NEW o \in Objects, obj'[o].alive = FALSE PROVE obj'[o] = Dead
    BY DEF DeadHoldNothing
  <2>1. obj'[o] = obj[o]
    OBVIOUS
  <2> QED BY <2>1 DEF OwnInv, DeadHoldNothing
<1>5. Unshared'
  BY DEF OwnInv, Unshared
<1>6. OwnedNotHeld'
  BY <1>1 DEF OwnInv, OwnedNotHeld
<1>7. NoLeak'
  BY <1>1, <1>2 DEF OwnInv, NoLeak
<1>8. HeldLive'
  BY <1>2 DEF OwnInv, HeldLive
<1> QED BY <1>3, <1>4, <1>5, <1>6, <1>7, <1>8 DEF OwnInv

\* One object o becomes d: what it owned and does not keep is freed, and the
\* block it ends up with is its own, or was free, or is one the caller holds
\* and has lent to nobody else.
LEMMA OneObjectStep ==
    ASSUME TypeOK, TypeOK', OwnInv, NEW o \in Objects, NEW d \in State, NEW n \in Nat,
           obj' = [obj EXCEPT ![o] = d],
           d.alive = FALSE => d = Dead,
           capacity' = [x \in Blocks |-> IF x = d.buffer THEN n
                                         ELSE IF x \in Frees(obj[o]) THEN 0
                                         ELSE capacity[x]],
           d.buffer # NULL => n > 0 /\ d.buffer_size <= n,
           \/ d.buffer = NULL /\ held' = held
           \/ d.buffer \in Frees(obj[o]) /\ d.owns_buffer = TRUE /\ held' = held
           \/ d.buffer \in Blocks \ Live /\ d.owns_buffer = TRUE /\ held' = held
           \/ /\ d.buffer \in held
              /\ \A s \in Objects : obj[s].buffer = d.buffer => s = o
              /\ held' = IF d.owns_buffer THEN held \ {d.buffer} ELSE held
    PROVE  OwnInv'
<1> USE HeapAssumption
<1>1. /\ \A s \in Objects : s # o => obj'[s] = obj[s]
      /\ obj'[o] = d
      /\ \A s \in Objects : obj[s] \in State /\ obj[s].owns_buffer \in BOOLEAN
      /\ d.buffer \in Blocks \cup {NULL} /\ d.owns_buffer \in BOOLEAN
  BY DEF TypeOK, State
<1>2. /\ \A x \in Blocks : capacity[x] \in Nat
      /\ \A x \in Blocks : x \in Live <=> capacity[x] > 0
      /\ \A x \in Blocks : x \in Live' <=> capacity'[x] > 0
      /\ Live \subseteq Blocks /\ Live' \subseteq Blocks
  BY SizeAssumption DEF TypeOK, Sizes, Live
\* no other object uses the block o ends up with, or the one it gave up
<1>3. ASSUME NEW s \in Objects, s # o, obj[s].buffer # NULL
      PROVE  obj[s].buffer # d.buffer /\ obj[s].buffer \notin Frees(obj[o])
  <2>1. obj[s].buffer # obj[o].buffer /\ obj[s].buffer \in Live
    BY <1>3 DEF OwnInv, Unshared, PointersLive
  <2>2. Frees(obj[o]) \subseteq {obj[o].buffer}
    BY DEF Frees
  <2> QED BY <1>3, <2>1, <2>2
<1>4. PointersLive'
  <2> SUFFICES ASSUME NEW s \in Objects, obj'[s].buffer # NULL
               PROVE  /\ obj'[s].buffer \in Live'
                      /\ obj'[s].buffer_size <= capacity'[obj'[s].buffer]
    BY DEF PointersLive
  <2>1. CASE s = o
    BY <1>1, <1>2, <2>1
  <2>2. CASE s # o
    <3>1. obj'[s] = obj[s]
      BY <1>1, <2>2
    <3>2. obj[s].buffer \in Live /\ obj[s].buffer_size <= capacity[obj[s].buffer]
      BY <3>1 DEF OwnInv, PointersLive
    <3>3. capacity'[obj[s].buffer] = capacity[obj[s].buffer]
      BY <1>2, <1>3, <2>2, <3>1, <3>2
    <3> QED BY <1>2, <3>1, <3>2, <3>3
  <2> QED BY <2>1, <2>2
<1>5. DeadHoldNothing'
  BY <1>1 DEF OwnInv, DeadHoldNothing
<1>6. Unshared'
  <2> SUFFICES ASSUME NEW r \in Objects, NEW s \in Objects, r # s, obj'[r].buffer # NULL
               PROVE  obj'[r].buffer # obj'[s].buffer
    BY DEF Unshared
  <2> QED BY <1>1, <1>3 DEF OwnInv, Unshared
<1>7. OwnedNotHeld'
  <2> SUFFICES ASSUME NEW s \in Objects, NEW b \in Frees(obj'[s]), b \in held'
               PROVE  FALSE
    BY DEF OwnedNotHeld
  <2>1. b = obj'[s].buffer /\ b # NULL /\ obj'[s].owns_buffer = TRUE
    <3>1. obj'[s].owns_buffer \in BOOLEAN
      BY DEF TypeOK, State
    <3> QED BY <3>1 DEF Frees
  <2>2. b \in held
    BY DEF TypeOK
  <2>3. CASE s # o
    BY <1>1, <2>2, <2>3 DEF OwnInv, OwnedNotHeld
  <2>4. CASE s = o
    <3>1. b = d.buffer /\ d.owns_buffer = TRUE
      BY <1>1, <2>1, <2>4
    <3>2. b \in Live
      BY <2>2 DEF OwnInv, HeldLive
    <3>3. b \notin Frees(obj[o])
      BY <2>2 DEF OwnInv, OwnedNotHeld
    <3> QED BY <2>1, <3>1, <3>2, <3>3
  <2> QED BY <2>3, <2>4
<1>8. NoLeak'
  <2> SUFFICES ASSUME NEW b \in Live'
               PROVE  b \in held' \/ \E s \in Objects : b \in Frees(obj'[s])
    BY DEF NoLeak
  <2>1. b \in Blocks /\ b # NULL /\ capacity'[b] > 0
    BY <1>2
  <2>2. CASE b = d.buffer
    <3>1. CASE d.owns_buffer
      <4>1. b \in Frees(obj'[o])
        BY <1>1, <2>1, <2>2, <3>1 DEF Frees
      <4> QED BY <4>1
    <3>2. CASE ~d.owns_buffer
      BY <2>1, <2>2, <3>2
    <3> QED BY <3>1, <3>2
  <2>3. CASE b # d.buffer
    <3>1. b \in Live /\ b \notin Frees(obj[o])
      BY <1>2, <2>1, <2>3
    <3>2. CASE b \in held
      BY <2>3, <3>2
    <3>3. CASE b \notin held
      <4>1. PICK s \in Objects : b \in Frees(obj[s])
        BY <3>1, <3>3 DEF OwnInv, NoLeak
      <4>2. obj'[s] = obj[s]
        BY <1>1, <3>1, <4>1
      <4> QED BY <4>1, <4>2
    <3> QED BY <3>2, <3>3
  <2> QED BY <2>2, <2>3
<1>9. HeldLive'
  <2> SUFFICES ASSUME NEW b \in held' PROVE b \in Live'
    BY DEF HeldLive
  <2>1. b \in held /\ b \in Blocks
    BY DEF TypeOK
  <2>2. b \in Live /\ b \notin Frees(obj[o])
    BY <2>1 DEF OwnInv, HeldLive, OwnedNotHeld
  <2> QED BY <1>2, <2>1, <2>2
<1> QED BY <1>4, <1>5, <1>6, <1>7, <1>8, <1>9 DEF OwnInv

LEMMA SameStep ==
    ASSUME TypeOK, TypeOK', OwnInv, UNCHANGED <<obj, capacity, held>>
    PROVE  OwnInv'
BY QuietStep

LEMMA RefusedOwn ==
    ASSUME TypeOK, TypeOK', OwnInv, NEW op, NEW o, NEW n, Refused(op, o, n)
    PROVE  OwnInv'
BY SameStep DEF Refused

LEMMA CrashOwn == ASSUME TypeOK, TypeOK', OwnInv, Crash PROVE OwnInv'
BY SameStep DEF Crash

LEMMA DeadFields ==
    /\ Dead.buffer = NULL /\ Dead.owns_buffer = FALSE /\ Dead.alive = FALSE
    /\ Dead.buffer_size = 0 /\ Dead.data_length = 0 /\ Dead.read_length = 0
    /\ Frees(Dead) = {}
BY DEF Dead, Frees

\* The same step for an object that ends up without a block.
LEMMA NoBlockStep ==
    ASSUME TypeOK, TypeOK', OwnInv, NEW o \in Objects, NEW d \in State,
           obj' = [obj EXCEPT ![o] = d],
           d.alive = FALSE => d = Dead, d.buffer = NULL,
           capacity' = [x \in Blocks |-> IF x \in Frees(obj[o]) THEN 0 ELSE capacity[x]],
           held' = held
    PROVE  OwnInv'
<1>1. 0 \in Nat
  OBVIOUS
<1>2. capacity' = [x \in Blocks |-> IF x = d.buffer THEN 0
                                    ELSE IF x \in Frees(obj[o]) THEN 0 ELSE capacity[x]]
  BY HeapAssumption
<1> QED BY <1>1, <1>2, OneObjectStep

LEMMA VacantIsDead ==
    ASSUME TypeOK, OwnInv, NEW o \in Objects, Vacant(o)
    PROVE  obj[o] = Dead /\ Frees(obj[o]) = {}
<1>1. obj[o].alive \in BOOLEAN
  BY DEF TypeOK, State
<1> QED BY <1>1, DeadFields DEF Vacant, OwnInv, DeadHoldNothing

LEMMA ExistsIsAlive ==
    ASSUME TypeOK, NEW o \in Objects, Exists(o)
    PROVE  obj[o].alive = TRUE
<1>1. obj[o].alive \in BOOLEAN
  BY DEF TypeOK, State
<1> QED BY <1>1 DEF Exists

LEMMA BuildOwn ==
    ASSUME TypeOK, TypeOK', OwnInv, NEW op, NEW o \in Objects, Vacant(o), NEW d \in State,
           d.alive = TRUE, d.buffer = NULL, d.owns_buffer = FALSE,
           NEW b \in Allocation(d), NEW cells, Build(op, o, d, b, cells)
    PROVE  OwnInv'
<1>1. CASE Refused(op, o, 0)
  BY <1>1, RefusedOwn
<1>2. CASE /\ obj' = [obj EXCEPT ![o] = AllocateBuffer(d, b)]
           /\ Heap({}, b, d.buffer_size, cells)
           /\ UNCHANGED held
  <2> DEFINE e == AllocateBuffer(d, b)
  <2>1. b \in Blocks \cup {NULL} /\ (b # NULL => d.buffer_size > 0 /\ b \in Blocks \ Live)
    BY AllocationType DEF Allocation, Frees
  <2>2. /\ e \in State /\ e.alive = TRUE /\ e.buffer = b
        /\ e.buffer_size = d.buffer_size
        /\ b # NULL => e.owns_buffer = TRUE
    BY <2>1, AllocateBufferFields
  <2> HIDE DEF e
  <2>3. Frees(obj[o]) = {}
    BY VacantIsDead
  <2>4. capacity' = [x \in Blocks |-> IF x = e.buffer THEN d.buffer_size
                                      ELSE IF x \in Frees(obj[o]) THEN 0
                                      ELSE capacity[x]]
    BY <1>2, <2>2, <2>3 DEF Heap
  <2>5. d.buffer_size \in Nat
    BY SizeAssumption DEF State, Sizes
  <2>6. obj' = [obj EXCEPT ![o] = e]
    BY <1>2 DEF e
  <2>7. e.alive = FALSE => e = Dead
    BY <2>2
  <2>8. e.buffer # NULL => d.buffer_size > 0 /\ e.buffer_size <= d.buffer_size
    BY <2>1, <2>2, <2>5
  <2>9. \/ e.buffer = NULL /\ held' = held
        \/ e.buffer \in Blocks \ Live /\ e.owns_buffer = TRUE /\ held' = held
    BY <1>2, <2>1, <2>2
  <2> QED BY <2>2, <2>4, <2>5, <2>6, <2>7, <2>8, <2>9, OneObjectStep
<1> QED BY <1>1, <1>2 DEF Build

LEMMA ConstructOwn ==
    ASSUME TypeOK, TypeOK', OwnInv, NEW o \in Objects,
           \/ DefaultConstruct(o)
           \/ \E n \in Sizes : SizeConstruct(o, n)
           \/ \E q \in Blocks \cup {NULL}, n, length \in Sizes :
                PointerConstruct(o, q, n, length)
           \/ \E v \in Values, n \in Sizes : OctetStringConstruct(o, v, n)
           \/ \E s \in Objects : CopyConstruct(o, s)
    PROVE  OwnInv'
<1>1. CASE DefaultConstruct(o)
  <2>1. Vacant(o) /\ obj' = [obj EXCEPT ![o] = Default] /\ UNCHANGED <<capacity, held>>
    BY <1>1 DEF DefaultConstruct
  <2>2. Default.buffer = NULL /\ Default.alive = TRUE /\ Default \in State
    BY DefaultType DEF Default, Object
  <2>3. Frees(obj[o]) = {}
    BY <2>1, VacantIsDead
  <2>4. capacity' = [x \in Blocks |-> IF x \in Frees(obj[o]) THEN 0 ELSE capacity[x]]
    BY <2>1, <2>3 DEF TypeOK
  <2> QED BY <2>1, <2>2, <2>4, NoBlockStep
<1>2. ASSUME NEW n \in Sizes, SizeConstruct(o, n) PROVE OwnInv'
  <2> DEFINE d == Object(NULL, FALSE, n, 0, 0)
  <2>1. d \in State /\ d.alive = TRUE /\ d.buffer = NULL /\ d.owns_buffer = FALSE
    BY ObjectType, ZeroSize DEF Object
  <2>2. PICK b \in Allocation(d) : Build("Construct", o, d, b, Blank)
    BY <1>2 DEF SizeConstruct
  <2>3. Vacant(o)
    BY <1>2 DEF SizeConstruct
  <2> HIDE DEF d
  <2> QED BY <2>1, <2>2, <2>3, BuildOwn
<1>3. ASSUME NEW q \in Blocks \cup {NULL}, NEW n \in Sizes, NEW length \in Sizes,
             PointerConstruct(o, q, n, length)
      PROVE  OwnInv'
  <2> DEFINE d == Object(q, FALSE, n, length, 0)
  <2>0. Vacant(o) /\ Lendable(o, q, n)
    BY <1>3 DEF PointerConstruct
  <2>1. /\ d \in State /\ d.alive = TRUE /\ d.buffer = q /\ d.owns_buffer = FALSE
        /\ d.buffer_size = n
    BY ObjectType, ZeroSize DEF Object
  <2>2. CASE Refused("Construct", o, 0)
    BY <2>2, RefusedOwn
  <2>3. CASE obj' = [obj EXCEPT ![o] = d] /\ UNCHANGED <<capacity, held>>
    <3> HIDE DEF d
    <3>1. Frees(obj[o]) = {} /\ obj[o].buffer = NULL
      BY <2>0, VacantIsDead, DeadFields
    <3>2. CASE q = NULL
      <4>1. capacity' = [x \in Blocks |-> IF x \in Frees(obj[o]) THEN 0 ELSE capacity[x]]
        BY <2>3, <3>1 DEF TypeOK
      <4> QED BY <2>1, <2>3, <3>2, <4>1, NoBlockStep
    <3>3. CASE q # NULL
      <4>1. q \in held /\ LentTo(q) \subseteq {o} /\ n <= capacity[q] /\ q \in Blocks
        BY <2>0, <3>3 DEF Lendable
      <4>2. capacity[q] \in Nat /\ capacity[q] > 0
        BY <4>1, SizeAssumption DEF OwnInv, HeldLive, Live, TypeOK, Sizes
      <4>3. capacity' = [x \in Blocks |-> IF x = d.buffer THEN capacity[q]
                                          ELSE IF x \in Frees(obj[o]) THEN 0
                                          ELSE capacity[x]]
        BY <2>1, <2>3, <3>1 DEF TypeOK
      <4>4. \A s \in Objects : obj[s].buffer = q => s = o
        <5> SUFFICES ASSUME NEW s \in Objects, obj[s].buffer = q PROVE s = o
          OBVIOUS
        <5>1. obj[s].alive \in BOOLEAN
          BY DEF TypeOK, State
        <5>2. obj[s].alive = TRUE
          BY <3>3, <5>1, DeadFields DEF OwnInv, DeadHoldNothing
        <5> QED BY <4>1, <5>2 DEF LentTo
      <4> QED BY <2>1, <2>3, <4>1, <4>2, <4>3, <4>4, OneObjectStep
    <3> QED BY <3>2, <3>3
  <2> QED BY <1>3, <2>2, <2>3 DEF PointerConstruct
<1>4. ASSUME NEW v \in Values, NEW n \in Sizes, OctetStringConstruct(o, v, n)
      PROVE  OwnInv'
  <2> DEFINE size == IF n > 0 THEN n ELSE Len(v)
             d    == Object(NULL, FALSE, size, Len(v), 0)
  <2>1. Len(v) \in Nat /\ size \in Nat /\ Vacant(o)
    BY <1>4, InputAssumption, SizeAssumption DEF OctetStringConstruct, Sizes
  <2>2. \/ Refused("FromOctets", o, 0)
        \/ /\ size <= MaxSize /\ ~(Len(v) > size)
           /\ \E b \in Allocation(d) : Build("FromOctets", o, d, b, Stored(Blank, 0, v))
    BY <1>4 DEF OctetStringConstruct
  <2>3. CASE Refused("FromOctets", o, 0)
    BY <2>3, RefusedOwn
  <2>4. ASSUME size <= MaxSize, ~(Len(v) > size),
               NEW b \in Allocation(d), Build("FromOctets", o, d, b, Stored(Blank, 0, v))
        PROVE  OwnInv'
    <3>1. size \in Sizes /\ Len(v) \in Sizes
      BY <2>1, <2>4, SizeAssumption DEF Sizes
    <3> HIDE DEF size
    <3>2. d \in State /\ d.alive = TRUE /\ d.buffer = NULL /\ d.owns_buffer = FALSE
      BY <3>1, ObjectType, ZeroSize DEF Object
    <3> HIDE DEF d
    <3> QED BY <2>1, <2>4, <3>2, BuildOwn
  <2> HIDE DEF size, d
  <2> QED BY <2>2, <2>3, <2>4
<1>5. ASSUME NEW s \in Objects, CopyConstruct(o, s) PROVE OwnInv'
  <2> DEFINE other == obj[s]
             d     == Object(NULL, FALSE, other.buffer_size, other.data_length,
                             other.read_length)
             cells == IF other.data_length = 0 THEN Blank
                      ELSE Prefix(content[other.buffer], other.data_length)
  <2>1. d \in State /\ d.alive = TRUE /\ d.buffer = NULL /\ d.owns_buffer = FALSE
    <3>1. other \in State
      BY DEF TypeOK
    <3> QED BY <3>1, ObjectType DEF State, Object
  <2>2. PICK b \in Allocation(d) : Crash \/ Build("Copy", o, d, b, cells)
    BY <1>5 DEF CopyConstruct
  <2>3. Vacant(o)
    BY <1>5 DEF CopyConstruct
  <2> HIDE DEF d, cells
  <2> QED BY <2>1, <2>2, <2>3, CrashOwn, BuildOwn
<1> QED BY <1>1, <1>2, <1>3, <1>4, <1>5

LEMMA DestroyOwn ==
    ASSUME TypeOK, TypeOK', OwnInv, NEW o \in Objects, Destroy(o)
    PROVE  OwnInv'
<1>1. CASE Crash
  BY <1>1, CrashOwn
<1>2. CASE /\ obj' = [obj EXCEPT ![o] = Dead]
           /\ Heap(Frees(obj[o]), NULL, 0, Blank)
           /\ UNCHANGED held
  <2>1. capacity' = [x \in Blocks |-> IF x \in Frees(obj[o]) THEN 0 ELSE capacity[x]]
    BY <1>2, HeapAssumption DEF Heap
  <2> QED BY <1>2, <2>1, DeadFields, DeadType, NoBlockStep
<1> QED BY <1>1, <1>2 DEF Destroy

LEMMA MoveOwn ==
    ASSUME TypeOK, TypeOK', OwnInv, NEW o \in Objects, NEW s \in Objects, MoveConstruct(o, s)
    PROVE  OwnInv'
<1>1. o # s /\ obj[o] = Dead /\ obj[s].alive = TRUE
  BY VacantIsDead, ExistsIsAlive, DeadFields DEF MoveConstruct, Usable
<1>2. /\ obj'[o] = obj[s] /\ obj'[s] = Default
      /\ \A r \in Objects \ {o, s} : obj'[r] = obj[r]
      /\ UNCHANGED <<capacity, held>>
  BY <1>1 DEF MoveConstruct, MovedFrom, TypeOK
<1>3. Default.buffer = NULL /\ Default.alive = TRUE /\ Frees(Default) = {}
  BY DEF Default, Object, Frees
<1>4. Live' = Live
  BY <1>2 DEF Live
<1>5. PointersLive'
  BY <1>1, <1>2, <1>3, <1>4 DEF OwnInv, PointersLive
<1>6. DeadHoldNothing'
  BY <1>1, <1>2, <1>3 DEF OwnInv, DeadHoldNothing
<1>7. Unshared'
  BY <1>1, <1>2, <1>3 DEF OwnInv, Unshared
<1>8. OwnedNotHeld'
  BY <1>1, <1>2, <1>3 DEF OwnInv, OwnedNotHeld
<1>9. NoLeak'
  <2> SUFFICES ASSUME NEW b \in Live, b \notin held
               PROVE  \E r \in Objects : b \in Frees(obj'[r])
    BY <1>2, <1>4 DEF NoLeak
  <2>1. PICK r \in Objects : b \in Frees(obj[r])
    BY DEF OwnInv, NoLeak
  <2>2. r # o
    BY <1>1, <2>1, DeadFields
  <2> QED BY <1>2, <2>1, <2>2
<1>10. HeldLive'
  BY <1>2, <1>4 DEF OwnInv, HeldLive
<1> QED BY <1>5, <1>6, <1>7, <1>8, <1>9, <1>10 DEF OwnInv

\* The target of an assignment owns what it is about to free or write over.
LEMMA TargetFields ==
    ASSUME NEW d \in State, d.alive = TRUE, NEW n \in Sizes
    PROVE  /\ Target(d) \in State /\ Target(d).alive = TRUE
           /\ Resized(Target(d), n) \in State /\ Resized(Target(d), n).alive = TRUE
           /\ Resized(Target(d), n).buffer_size = n
           /\ Resized(Target(d), n).buffer = Target(d).buffer
           /\ Frees(Target(d)) = Frees(d) /\ Frees(Resized(Target(d), n)) = Frees(d)
           /\ Target(d).buffer # NULL => /\ Target(d) = d /\ d.owns_buffer = TRUE
                                         /\ Target(d).buffer \in Frees(d)
<1>1. CASE d.owns_buffer
  BY <1>1, TargetType DEF Target, Resized, Frees, State
<1>2. CASE ~d.owns_buffer
  <2>1. Target(d) = [d EXCEPT !.buffer = NULL, !.buffer_size = 0]
    BY <1>2 DEF Target
  <2>2. d.owns_buffer = FALSE
    BY <1>2 DEF State
  <2> QED BY <2>1, <2>2, TargetType DEF Resized, Frees, State
<1> QED BY <1>1, <1>2

LEMMA CopyDataOwn ==
    ASSUME TypeOK, TypeOK', OwnInv, NEW o \in Objects, NEW s \in Objects,
           NEW d \in State, NEW freed \in SUBSET Frees(obj[o]), NEW size \in Nat, NEW cells,
           d.alive = TRUE, d.buffer # NULL => size > 0 /\ d.buffer_size <= size,
           \A x \in Frees(obj[o]) : x \in freed \/ x = d.buffer,
           \/ d.buffer = NULL
           \/ /\ d.buffer \in Frees(obj[o]) \cup (Blocks \ Live)
              /\ d.owns_buffer = TRUE,
           CopyData(o, s, d, freed, size, cells)
    PROVE  OwnInv'
<1> DEFINE e == [d EXCEPT !.data_length = obj[s].data_length,
                          !.read_length = obj[s].read_length]
<1>1. CASE Crash
  BY <1>1, CrashOwn
<1>2. ASSUME NEW new, obj' = [obj EXCEPT ![o] = e], Heap(freed, d.buffer, size, new),
             UNCHANGED held
      PROVE  OwnInv'
  <2>1. /\ e \in State /\ e.alive = TRUE /\ e.buffer = d.buffer
        /\ e.owns_buffer = d.owns_buffer /\ e.buffer_size = d.buffer_size
    BY DEF TypeOK, State
  <2>2. capacity' = [x \in Blocks |-> IF x = e.buffer THEN size
                                      ELSE IF x \in Frees(obj[o]) THEN 0 ELSE capacity[x]]
    BY <1>2, <2>1 DEF Heap
  <2> HIDE DEF e
  <2> QED BY <1>2, <2>1, <2>2, OneObjectStep
<1> QED BY <1>1, <1>2 DEF CopyData

LEMMA AssignOwn ==
    ASSUME TypeOK, TypeOK', OwnInv, NEW o \in Objects, NEW s \in Objects, Assign(o, s)
    PROVE  OwnInv'
<1> DEFINE t == Target(obj[o])
           d == Resized(t, obj[s].buffer_size)
<1>0. /\ obj[o] \in State /\ obj[s] \in State /\ obj[s].buffer_size \in Sizes
      /\ Exists(o)
  BY DEF TypeOK, State, Assign, AssignSelf, AssignInPlace, AssignReallocated, AssignFails,
         Usable
<1>1. obj[o].alive = TRUE
  BY <1>0, ExistsIsAlive
<1>2. /\ t \in State /\ t.alive = TRUE /\ d \in State /\ d.alive = TRUE
      /\ d.buffer_size = obj[s].buffer_size
      /\ Frees(t) = Frees(obj[o]) /\ Frees(d) = Frees(obj[o])
      /\ t.buffer # NULL => t = obj[o] /\ t.owns_buffer = TRUE /\ t.buffer \in Frees(obj[o])
  BY <1>0, <1>1, TargetFields
<1>3. CASE AssignSelf(o)
  BY <1>3, SameStep DEF AssignSelf
<1>4. CASE AssignInPlace(o, s)
  <2>1. CASE t.buffer = NULL
    <3>1. CopyData(o, s, t, {}, 0, Blank)
      BY <1>4, <2>1 DEF AssignInPlace
    <3>2. Frees(obj[o]) = {}
      BY <1>2, <2>1 DEF Frees
    <3> HIDE DEF t
    <3> QED BY <1>2, <2>1, <3>1, <3>2, CopyDataOwn
  <2>2. CASE t.buffer # NULL
    <3>1. CopyData(o, s, t, {}, capacity[t.buffer], content[t.buffer])
      BY <1>4, <2>2 DEF AssignInPlace
    <3>2. t.buffer \in Live /\ t.buffer_size <= capacity[t.buffer] /\ t.buffer \in Blocks
      BY <1>2, <2>2 DEF OwnInv, PointersLive, Live
    <3>3. capacity[t.buffer] \in Nat /\ capacity[t.buffer] > 0
      BY <3>2, SizeAssumption DEF TypeOK, Live, Sizes
    <3>4. \A x \in Frees(obj[o]) : x = t.buffer
      BY <1>2, <2>2 DEF Frees
    <3> HIDE DEF t
    <3> QED BY <1>2, <2>2, <3>1, <3>2, <3>3, <3>4, CopyDataOwn
  <2> QED BY <2>1, <2>2
<1>5. CASE AssignReallocated(o, s)
  <2>1. PICK b \in Allocation(d) :
           CopyData(o, s, AllocateBuffer(d, b), Frees(d), d.buffer_size, Blank)
    BY <1>5 DEF AssignReallocated
  <2> HIDE DEF d
  <2>2. b \in Blocks \cup {NULL} /\ (b # NULL => d.buffer_size > 0)
    BY <1>2, AllocationType
  <2> DEFINE e == AllocateBuffer(d, b)
  <2>3. /\ e \in State /\ e.alive = TRUE /\ e.buffer = b
        /\ e.buffer_size = d.buffer_size /\ (b # NULL => e.owns_buffer = TRUE)
    BY <1>2, <2>2, AllocateBufferFields
  <2>4. d.buffer_size \in Nat
    BY <1>2, SizeAssumption DEF State, Sizes
  <2>5. b \in {NULL} \cup Frees(obj[o]) \cup (Blocks \ Live)
    BY <1>2, <2>1 DEF Allocation
  <2> HIDE DEF e
  <2>6. CopyData(o, s, e, Frees(obj[o]), d.buffer_size, Blank)
    BY <1>2, <2>1 DEF e
  <2>7. e.buffer # NULL => d.buffer_size > 0 /\ e.buffer_size <= d.buffer_size
    BY <2>2, <2>3, <2>4
  <2>8. \/ e.buffer = NULL
        \/ /\ e.buffer \in Frees(obj[o]) \cup (Blocks \ Live)
           /\ e.owns_buffer = TRUE
    BY <2>3, <2>5
  <2>9. /\ Frees(obj[o]) \in SUBSET Frees(obj[o])
        /\ \A x \in Frees(obj[o]) : x \in Frees(obj[o]) \/ x = e.buffer
    OBVIOUS
  <2> QED BY <2>3, <2>4, <2>6, <2>7, <2>8, <2>9, CopyDataOwn
<1>6. CASE AssignFails(o, s)
  <2>1. /\ obj' = [obj EXCEPT ![o] = AllocateBuffer(d, NULL)]
        /\ Heap(Frees(d), NULL, 0, Blank)
        /\ UNCHANGED held
    BY <1>6 DEF AssignFails
  <2> HIDE DEF d
  <2>2. /\ AllocateBuffer(d, NULL) \in State /\ AllocateBuffer(d, NULL).alive = TRUE
        /\ AllocateBuffer(d, NULL).buffer = NULL
    BY <1>2, AllocateBufferFields
  <2>3. capacity' = [x \in Blocks |-> IF x \in Frees(obj[o]) THEN 0 ELSE capacity[x]]
    BY <1>2, <2>1, HeapAssumption DEF Heap
  <2> QED BY <2>1, <2>2, <2>3, NoBlockStep
<1> QED BY <1>3, <1>4, <1>5, <1>6 DEF Assign

LEMMA TakeOwn ==
    ASSUME TypeOK, TypeOK', OwnInv, NEW o \in Objects, TakeBufferOwnership(o)
    PROVE  OwnInv'
<1> DEFINE taken == {obj[o].buffer} \ {NULL}
<1>1. /\ obj'[o] = Default /\ \A s \in Objects \ {o} : obj'[s] = obj[s]
      /\ held' = held \cup taken /\ capacity' = capacity
  BY DEF TakeBufferOwnership, TypeOK
<1>2. Default.buffer = NULL /\ Default.alive = TRUE /\ Frees(Default) = {}
  BY DEF Default, Object, Frees
<1>3. Live' = Live
  BY <1>1 DEF Live
<1>4. Frees(obj[o]) \subseteq taken /\ taken \subseteq Live
  BY DEF Frees, OwnInv, PointersLive
<1>5. PointersLive'
  BY <1>1, <1>2, <1>3 DEF OwnInv, PointersLive
<1>6. DeadHoldNothing'
  BY <1>1, <1>2 DEF OwnInv, DeadHoldNothing
<1>7. Unshared'
  BY <1>1, <1>2 DEF OwnInv, Unshared
<1>8. OwnedNotHeld'
  <2> SUFFICES ASSUME NEW s \in Objects, NEW b \in Frees(obj'[s]), b \in held' PROVE FALSE
    BY DEF OwnedNotHeld
  <2>1. s # o /\ b \in Frees(obj[s])
    BY <1>1, <1>2
  <2>2. b = obj[s].buffer /\ b # NULL
    BY <2>1 DEF Frees
  <2>3. b \notin taken
    BY <2>1, <2>2 DEF OwnInv, Unshared
  <2> QED BY <1>1, <2>1, <2>3 DEF OwnInv, OwnedNotHeld
<1>9. NoLeak'
  <2> SUFFICES ASSUME NEW b \in Live, b \notin held'
               PROVE  \E s \in Objects : b \in Frees(obj'[s])
    BY <1>3 DEF NoLeak
  <2>1. PICK s \in Objects : b \in Frees(obj[s])
    BY <1>1 DEF OwnInv, NoLeak
  <2>2. s # o
    BY <1>1, <1>4, <2>1
  <2> QED BY <1>1, <2>1, <2>2
<1>10. HeldLive'
  BY <1>1, <1>3, <1>4 DEF OwnInv, HeldLive
<1> QED BY <1>5, <1>6, <1>7, <1>8, <1>9, <1>10 DEF OwnInv

LEMMA SetBufferOwn ==
    ASSUME TypeOK, TypeOK', OwnInv, NEW o \in Objects, NEW q \in Blocks \cup {NULL},
           NEW n \in Sizes, NEW length \in Sizes, NEW take \in BOOLEAN,
           SetBuffer(o, q, n, length, take)
    PROVE  OwnInv'
<1> DEFINE d == Object(q, take, n, length, 0)
<1>0. Exists(o) /\ Lendable(o, q, n)
  BY DEF SetBuffer
<1>1. /\ d \in State /\ d.alive = TRUE /\ d.buffer = q /\ d.buffer_size = n
      /\ d.owns_buffer = take
  <2>1. d \in State
    BY ObjectType, ZeroSize
  <2> QED BY <2>1 DEF Object
<1>2. CASE Refused("SetBuffer", o, 0)
  BY <1>2, RefusedOwn
<1>3. CASE Crash
  BY <1>3, CrashOwn
<1>4. CASE /\ obj' = [obj EXCEPT ![o] = d]
           /\ Heap(Frees(obj[o]), NULL, 0, Blank)
           /\ held' = IF take THEN held \ {q} ELSE held
  <2> HIDE DEF d
  <2>1. capacity' = [x \in Blocks |-> IF x \in Frees(obj[o]) THEN 0 ELSE capacity[x]]
    BY <1>4, HeapAssumption DEF Heap
  <2>2. CASE q = NULL
    <3>1. held' = held
      BY <1>4, <2>2, HeapAssumption DEF TypeOK
    <3> QED BY <1>1, <1>4, <2>1, <2>2, <3>1, NoBlockStep
  <2>3. CASE q # NULL
    <3>1. q \in held /\ LentTo(q) \subseteq {o} /\ n <= capacity[q] /\ q \in Blocks
      BY <1>0, <2>3 DEF Lendable
    <3>2. capacity[q] \in Nat /\ capacity[q] > 0
      BY <3>1, SizeAssumption DEF OwnInv, HeldLive, Live, TypeOK, Sizes
    <3>3. q \notin Frees(obj[o])
      BY <3>1 DEF OwnInv, OwnedNotHeld
    <3>4. capacity' = [x \in Blocks |-> IF x = d.buffer THEN capacity[q]
                                        ELSE IF x \in Frees(obj[o]) THEN 0
                                        ELSE capacity[x]]
      BY <1>1, <2>1, <3>3
    <3>5. \A s \in Objects : obj[s].buffer = d.buffer => s = o
      <4> SUFFICES ASSUME NEW s \in Objects, obj[s].buffer = q PROVE s = o
        BY <1>1
      <4>1. obj[s].alive \in BOOLEAN
        BY DEF TypeOK, State
      <4>2. obj[s].alive = TRUE
        BY <2>3, <4>1, DeadFields DEF OwnInv, DeadHoldNothing
      <4> QED BY <3>1, <4>2 DEF LentTo
    <3>6. /\ d.buffer \in held
          /\ held' = IF d.owns_buffer THEN held \ {d.buffer} ELSE held
      BY <1>1, <1>4, <3>1
    <3>7. d.buffer # NULL => capacity[q] > 0 /\ d.buffer_size <= capacity[q]
      BY <1>1, <3>1, <3>2
    <3>8. d.alive = FALSE => d = Dead
      BY <1>1
    <3> QED BY <1>1, <1>4, <3>2, <3>4, <3>5, <3>6, <3>7, <3>8, OneObjectStep
  <2> QED BY <2>2, <2>3
<1> QED BY <1>2, <1>3, <1>4 DEF SetBuffer

LEMMA CallerOwn ==
    ASSUME TypeOK, TypeOK', OwnInv, NEW b \in Blocks,
           \/ \E n \in Sizes, x \in Octet : CallerAllocate(b, n, x)
           \/ CallerFree(b)
    PROVE  OwnInv'
<1>0. /\ \A x \in Blocks : capacity[x] \in Nat
      /\ b # NULL /\ Live \subseteq Blocks
      /\ \A x \in Blocks : x \in Live <=> capacity[x] > 0
      /\ \A x \in Blocks : x \in Live' <=> capacity'[x] > 0
      /\ Live' \subseteq Blocks
  BY SizeAssumption, HeapAssumption DEF TypeOK, Sizes, Live
\* no object points to b
<1>1. \A o \in Objects : obj[o].buffer # b
  <2>1. CASE b \notin Live
    BY <1>0, <2>1 DEF OwnInv, PointersLive
  <2>2. ASSUME CallerFree(b), NEW o \in Objects, obj[o].buffer = b PROVE FALSE
    <3>1. obj[o].alive \in BOOLEAN
      BY DEF TypeOK, State
    <3>2. obj[o].alive = TRUE
      BY <1>0, <2>2, <3>1, DeadFields DEF OwnInv, DeadHoldNothing
    <3> QED BY <2>2, <3>2 DEF CallerFree, LentTo
  <2> QED BY <2>1, <2>2 DEF CallerAllocate
<1>2. /\ obj' = obj /\ held' \subseteq held \cup {b} /\ held \subseteq held' \cup {b}
      /\ \A x \in Blocks \ {b} : capacity'[x] = capacity[x]
      /\ b \in held' <=> capacity'[b] > 0
  <2>1. ASSUME NEW n \in Sizes, NEW x \in Octet, CallerAllocate(b, n, x)
        PROVE  /\ held' = held \cup {b} /\ obj' = obj /\ capacity'[b] > 0
               /\ \A y \in Blocks \ {b} : capacity'[y] = capacity[y]
    BY <2>1 DEF CallerAllocate, Heap
  <2>2. ASSUME CallerFree(b)
        PROVE  /\ held' = held \ {b} /\ obj' = obj /\ capacity'[b] = 0
               /\ \A y \in Blocks \ {b} : capacity'[y] = capacity[y]
    BY HeapAssumption, <2>2 DEF CallerFree, Heap
  <2> QED BY <2>1, <2>2
<1>3. \A o \in Objects : b \notin Frees(obj[o])
  BY <1>1 DEF Frees
<1>4. PointersLive'
  BY <1>0, <1>1, <1>2 DEF OwnInv, PointersLive
<1>5. DeadHoldNothing' /\ Unshared'
  BY <1>2 DEF OwnInv, DeadHoldNothing, Unshared
<1>6. OwnedNotHeld'
  BY <1>2, <1>3 DEF OwnInv, OwnedNotHeld
<1>7. NoLeak'
  BY <1>0, <1>2 DEF OwnInv, NoLeak
<1>8. HeldLive'
  <2>1. held' \subseteq Blocks
    BY DEF TypeOK
  <2> QED BY <1>0, <1>2, <2>1 DEF OwnInv, HeldLive
<1> QED BY <1>4, <1>5, <1>6, <1>7, <1>8 DEF OwnInv

\* The calls that move octets or lengths only.
LEMMA LengthOwn ==
    ASSUME TypeOK, TypeOK', OwnInv, NEW o \in Objects,
           \/ \E n \in Sizes : SetDataLength(o, n)
           \/ ResetReadLength(o)
           \/ \E n \in Counts : AdvanceReadLength(o, n)
           \/ \E n \in Counts : ReadValue(o, n)
           \/ \E n \in Counts : ReadString(o, n)
           \/ \E i, n \in Counts : GetValue(o, i, n)
    PROVE  OwnInv'
<1>1. CASE UNCHANGED <<obj, capacity, held>>
  BY <1>1, SameStep
<1>2. ASSUME NEW d \in State, obj' = [obj EXCEPT ![o] = d], Exists(o),
             d.alive = obj[o].alive, d.buffer = obj[o].buffer,
             d.owns_buffer = obj[o].owns_buffer, d.buffer_size = obj[o].buffer_size,
             UNCHANGED <<capacity, held>>
      PROVE  OwnInv'
  <2>1. obj[o].alive = TRUE
    BY <1>2, ExistsIsAlive
  <2> QED BY <1>2, <2>1, QuietStep DEF TypeOK
<1>3. obj[o] \in State /\ (obj' = [obj EXCEPT ![o] = obj'[o]] => obj'[o] \in State)
  BY DEF TypeOK
<1>4. ASSUME NEW n \in Sizes, SetDataLength(o, n) PROVE OwnInv'
  <2>1. \/ UNCHANGED <<obj, capacity, held>>
        \/ /\ obj' = [obj EXCEPT ![o] = WithDataLength(obj[o], n)]
           /\ UNCHANGED <<capacity, held>>
    BY <1>4 DEF SetDataLength, Refused
  <2>2. WithDataLength(obj[o], n) \in State
    BY <1>3, <1>4 DEF WithDataLength, Minimum, State
  <2>3. Exists(o)
    BY <1>4 DEF SetDataLength, Usable
  <2>4. LET d == WithDataLength(obj[o], n)
        IN  /\ d.alive = obj[o].alive /\ d.buffer = obj[o].buffer
            /\ d.owns_buffer = obj[o].owns_buffer /\ d.buffer_size = obj[o].buffer_size
    BY <1>3 DEF WithDataLength, State
  <2> QED BY <1>1, <1>2, <2>1, <2>2, <2>3, <2>4
<1>5. CASE ResetReadLength(o)
  <2> DEFINE d == [obj[o] EXCEPT !.read_length = 0]
  <2>1. /\ d \in State /\ d.alive = obj[o].alive /\ d.buffer = obj[o].buffer
        /\ d.owns_buffer = obj[o].owns_buffer /\ d.buffer_size = obj[o].buffer_size
    BY <1>3, ZeroSize DEF State
  <2>2. obj' = [obj EXCEPT ![o] = d] /\ UNCHANGED <<capacity, held>> /\ Exists(o)
    BY <1>5 DEF ResetReadLength, Usable
  <2> HIDE DEF d
  <2> QED BY <1>2, <2>1, <2>2
\* the position alone moves
<1>6. ASSUME NEW n, obj' = [obj EXCEPT ![o] = Advanced(obj[o], n)], Exists(o),
             UNCHANGED <<capacity, held>>
      PROVE  OwnInv'
  <2> DEFINE d == Advanced(obj[o], n)
  <2>1. /\ d.alive = obj[o].alive /\ d.buffer = obj[o].buffer
        /\ d.owns_buffer = obj[o].owns_buffer /\ d.buffer_size = obj[o].buffer_size
    BY <1>3 DEF Advanced, State
  <2>2. d \in State
    BY <1>6 DEF TypeOK
  <2> HIDE DEF d
  <2>3. obj' = [obj EXCEPT ![o] = d]
    BY <1>6 DEF d
  <2> QED BY <1>2, <1>6, <2>1, <2>2, <2>3
<1>7. ASSUME NEW n \in Counts, AdvanceReadLength(o, n) PROVE OwnInv'
  <2>1. \/ UNCHANGED <<obj, capacity, held>>
        \/ /\ obj' = [obj EXCEPT ![o] = Advanced(obj[o], n)]
           /\ UNCHANGED <<capacity, held>>
    BY <1>7 DEF AdvanceReadLength, Refused
  <2> QED BY <1>1, <1>6, <1>7, <2>1 DEF AdvanceReadLength, Usable
<1>8. ASSUME NEW n, ReadValue(o, n) PROVE OwnInv'
  <2>1. \/ UNCHANGED <<obj, capacity, held>>
        \/ /\ obj' = [obj EXCEPT ![o] = Advanced(obj[o], n)]
           /\ UNCHANGED <<capacity, held>>
    BY <1>8 DEF ReadValue, Refused, Crash
  <2> QED BY <1>1, <1>6, <1>8, <2>1 DEF ReadValue, Usable
<1>9. ASSUME NEW n \in Counts, ReadString(o, n) PROVE OwnInv'
  <2>1. UNCHANGED <<obj, capacity, held>> \/ ReadValue(o, n)
    BY <1>9 DEF ReadString, Refused
  <2> QED BY <1>1, <1>8, <2>1
<1>10. ASSUME NEW i \in Counts, NEW n \in Counts, GetValue(o, i, n) PROVE OwnInv'
  <2>1. UNCHANGED <<obj, capacity, held>>
    BY <1>10 DEF GetValue, Refused, Crash
  <2> QED BY <1>1, <2>1
<1> QED BY <1>4, <1>5, <1>7, <1>8, <1>9, <1>10

LEMMA WriteOwn ==
    ASSUME TypeOK, TypeOK', OwnInv, NEW o \in Objects,
           \/ \E i \in Counts, x \in Octet : WriteOctet(o, i, x)
           \/ \E i \in Counts, v \in Values : SetValue(o, i, v)
           \/ \E i \in Counts, high, low \in Values : SetValue64(o, i, high, low)
           \/ \E v \in Values : AppendValue(o, v)
    PROVE  OwnInv'
<1>0. obj[o] \in State
  BY DEF TypeOK
<1>1. ASSUME NEW i, NEW v, Write(o, i, v) PROVE capacity' = capacity
  <2>1. capacity' = [x \in Blocks |-> IF x = obj[o].buffer THEN capacity[obj[o].buffer]
                                      ELSE capacity[x]]
    BY <1>1 DEF Write, Heap
  <2> QED BY <2>1 DEF TypeOK
<1>2. ASSUME NEW i \in Counts, NEW x \in Octet, WriteOctet(o, i, x) PROVE OwnInv'
  <2>1. UNCHANGED <<obj, capacity, held>>
    BY <1>1, <1>2 DEF WriteOctet, Refused, Crash
  <2> QED BY <2>1, SameStep
<1>3. ASSUME NEW i \in Counts, NEW v \in Values, SetValue(o, i, v) PROVE OwnInv'
  <2>1. UNCHANGED <<obj, capacity, held>>
    BY <1>1, <1>3 DEF SetValue, Refused, Crash
  <2> QED BY <2>1, SameStep
<1>4. ASSUME NEW i \in Counts, NEW high \in Values, NEW low \in Values,
             SetValue64(o, i, high, low)
      PROVE  OwnInv'
  <2>1. UNCHANGED <<obj, capacity, held>>
    BY <1>1, <1>4 DEF SetValue64
  <2> QED BY <2>1, SameStep
<1>5. ASSUME NEW v \in Values, AppendValue(o, v) PROVE OwnInv'
  <2> DEFINE d == [obj[o] EXCEPT !.data_length = @ + Len(v)]
  <2>1. \/ UNCHANGED <<obj, capacity, held>>
        \/ obj' = [obj EXCEPT ![o] = d] /\ UNCHANGED <<capacity, held>>
    BY <1>1, <1>5 DEF AppendValue, Refused, Crash
  <2>2. /\ d.alive = obj[o].alive /\ d.buffer = obj[o].buffer
        /\ d.owns_buffer = obj[o].owns_buffer /\ d.buffer_size = obj[o].buffer_size
    BY <1>0 DEF State
  <2>3. obj[o].alive = TRUE
    BY <1>5, ExistsIsAlive DEF AppendValue, Usable
  <2> HIDE DEF d
  <2>4. CASE obj' = [obj EXCEPT ![o] = d] /\ UNCHANGED <<capacity, held>>
    BY <2>2, <2>3, <2>4, QuietStep DEF TypeOK
  <2> QED BY <2>1, <2>4, SameStep
<1> QED BY <1>2, <1>3, <1>4, <1>5

LEMMA OwnInit == Init => OwnInv
BY DeadFields DEF Init, OwnInv, PointersLive, DeadHoldNothing, Unshared, OwnedNotHeld,
                  NoLeak, HeldLive, Live

LEMMA OwnStep == TypeOK /\ OwnInv /\ [Next]_vars => OwnInv'
<1> SUFFICES ASSUME TypeOK, OwnInv, [Next]_vars PROVE OwnInv'
  OBVIOUS
<1>1. TypeOK'
  BY TypeStep
<1>2. CASE UNCHANGED vars
  BY <1>1, <1>2, SameStep DEF vars
<1>3. CASE Next
  BY <1>1, <1>3, CallerOwn, ConstructOwn, MoveOwn, DestroyOwn, AssignOwn, TakeOwn,
     SetBufferOwn, LengthOwn, WriteOwn DEF Next
<1> QED BY <1>2, <1>3

LEMMA OwnersOf ==
    ASSUME TypeOK, OwnInv, NEW b
    PROVE  Owners(b) = {o \in Objects : b \in Frees(obj[o])}
<1>1. ASSUME NEW o \in Objects, b \in Frees(obj[o]) PROVE obj[o].alive
  BY <1>1, DeadFields DEF OwnInv, DeadHoldNothing, TypeOK, State
<1> QED BY <1>1 DEF Owners

LEMMA OwnImplies == TypeOK /\ OwnInv => OneOwner /\ NoDangling
<1> SUFFICES ASSUME TypeOK, OwnInv PROVE OneOwner /\ NoDangling
  OBVIOUS
<1>0. \A o \in Objects : \A b : b \in Frees(obj[o]) => b = obj[o].buffer /\ b # NULL
  BY DEF Frees
<1>1. ASSUME NEW b \in Blocks
      PROVE  /\ b \in held => b \in Live /\ Owners(b) = {}
             /\ b \in Live \ held => \E o \in Objects : Owners(b) = {o}
             /\ Owners(b) # {} => b \in Live
  <2>1. b \in held => b \in Live /\ Owners(b) = {}
    BY OwnersOf DEF OwnInv, HeldLive, OwnedNotHeld
  <2>2. ASSUME b \in Live \ held PROVE \E o \in Objects : Owners(b) = {o}
    <3>1. PICK o \in Objects : b \in Frees(obj[o])
      BY <2>2 DEF OwnInv, NoLeak
    <3>2. \A s \in Objects : b \in Frees(obj[s]) => s = o
      BY <1>0, <3>1 DEF OwnInv, Unshared
    <3>3. Owners(b) = {o}
      BY <3>1, <3>2, OwnersOf
    <3> QED BY <3>3
  <2>3. Owners(b) # {} => b \in Live
    BY <1>0, OwnersOf DEF OwnInv, PointersLive
  <2> QED BY <2>1, <2>2, <2>3
<1>2. ASSUME NEW o \in Objects, obj[o].alive, obj[o].buffer # NULL
      PROVE  /\ obj[o].buffer \in Live
             /\ obj[o].buffer_size <= capacity[obj[o].buffer]
             /\ LentTo(obj[o].buffer) = {o}
  <2>1. \A s \in Objects : obj[s].buffer = obj[o].buffer => s = o
    BY <1>2 DEF OwnInv, Unshared
  <2> QED BY <1>2, <2>1 DEF OwnInv, PointersLive, LentTo
<1> QED BY <1>1, <1>2 DEF OneOwner, NoDangling

\* Whatever sequence of constructions, copies, moves, loans and failed
\* allocations a program goes through, every block has one owner to free it,
\* even when objects are used again after an assignment that threw.
THEOREM OwnershipCorrect == Spec => []OneOwner
<1>1. Spec => [](TypeOK /\ OwnInv)
  BY TypeInit, TypeStep, OwnInit, OwnStep, PTL DEF Spec
<1> QED BY <1>1, OwnImplies, PTL

\* No pointer outlives its block, and no two objects reach the same octets.
THEOREM PointersCorrect == Spec => []NoDangling
<1>1. Spec => [](TypeOK /\ OwnInv)
  BY TypeInit, TypeStep, OwnInit, OwnStep, PTL DEF Spec
<1> QED BY <1>1, OwnImplies, PTL

-----------------------------------------------------------------------------
(***************************************************************************)
(* The lengths.  LengthsOrdered says nothing of an object that a failed    *)
(* assignment left behind, but such an object may be copied, moved and     *)
(* assigned: Fits is what is known of every object.                        *)
(***************************************************************************)

Fits(d) ==
    /\ d.read_length <= d.data_length
    /\ d.buffer # NULL \/ d.buffer_size = 0 => d.data_length <= d.buffer_size

Backed(d) == d.buffer = NULL => d.buffer_size = 0

\* The inductive invariant of the lengths.
LengthInv ==
    \A o \in Objects :
        /\ Fits(obj[o])
        /\ NullClaims = FALSE /\ o \notin torn => Backed(obj[o])

\* The fields of an object, as numbers.
LEMMA Lengths ==
    ASSUME TypeOK, NEW o \in Objects
    PROVE  /\ obj[o] \in State
           /\ obj[o].buffer_size \in Nat /\ obj[o].data_length \in Nat
           /\ obj[o].read_length \in Nat
BY SizeAssumption DEF TypeOK, State, Sizes

\* One object becomes d.
LEMMA LengthStep ==
    ASSUME TypeOK, LengthInv, NEW o \in Objects, NEW d,
           obj' = [obj EXCEPT ![o] = d], Fits(d),
           NullClaims = FALSE /\ o \notin torn' => Backed(d),
           torn \subseteq torn' \cup {o}
    PROVE  LengthInv'
<1> SUFFICES ASSUME NEW s \in Objects
             PROVE  /\ Fits(obj'[s])
                    /\ NullClaims = FALSE /\ s \notin torn' => Backed(obj'[s])
  BY DEF LengthInv, Fits, Backed
<1>1. CASE s = o
  BY <1>1 DEF TypeOK
<1>2. CASE s # o
  BY <1>2 DEF TypeOK, LengthInv
<1> QED BY <1>1, <1>2

LEMMA LengthSame ==
    ASSUME LengthInv, UNCHANGED <<obj, torn>>
    PROVE  LengthInv'
BY DEF LengthInv, Fits, Backed

LEMMA BuildLength ==
    ASSUME TypeOK, LengthInv, NEW op, NEW o \in Objects, NEW d \in State,
           d.buffer = NULL, d.read_length <= d.data_length, NEW b \in Allocation(d),
           b # NULL \/ d.buffer_size = 0 => d.data_length <= d.buffer_size,
           NEW cells, Build(op, o, d, b, cells)
    PROVE  LengthInv'
<1>1. CASE Refused(op, o, 0)
  BY <1>1, LengthSame DEF Refused
<1>2. CASE /\ ~AllocationFails(d, b)
           /\ obj' = [obj EXCEPT ![o] = AllocateBuffer(d, b)]
           /\ UNCHANGED torn
  <2> DEFINE e == AllocateBuffer(d, b)
  <2>1. /\ e.buffer = b /\ e.buffer_size = d.buffer_size
        /\ e.data_length = d.data_length /\ e.read_length = d.read_length
    BY AllocationType, AllocateBufferFields
  <2>2. d.buffer_size \in Nat
    BY SizeAssumption DEF State, Sizes
  <2>3. b = NULL => d.buffer_size = 0
    BY <1>2, <2>2 DEF AllocationFails
  <2>4. Fits(e) /\ Backed(e)
    BY <2>1, <2>3 DEF Fits, Backed
  <2>5. obj' = [obj EXCEPT ![o] = e] /\ torn \subseteq torn' \cup {o}
    BY <1>2
  <2> HIDE DEF e
  <2> QED BY <2>4, <2>5, LengthStep
<1> QED BY <1>1, <1>2 DEF Build

LEMMA ConstructLength ==
    ASSUME TypeOK, LengthInv, NEW o \in Objects,
           \/ DefaultConstruct(o)
           \/ \E n \in Sizes : SizeConstruct(o, n)
           \/ \E q \in Blocks \cup {NULL}, n, length \in Sizes :
                PointerConstruct(o, q, n, length)
           \/ \E v \in Values, n \in Sizes : OctetStringConstruct(o, v, n)
           \/ \E s \in Objects : CopyConstruct(o, s)
    PROVE  LengthInv'
<1>0. Sizes \subseteq Nat /\ 0 \in Sizes
  BY SizeAssumption DEF Sizes
<1>1. CASE DefaultConstruct(o)
  <2>1. Fits(Default) /\ Backed(Default)
    BY DEF Fits, Backed, Default, Object
  <2> QED BY <1>1, <2>1, LengthStep DEF DefaultConstruct
<1>2. ASSUME NEW n \in Sizes, SizeConstruct(o, n) PROVE LengthInv'
  <2> DEFINE d == Object(NULL, FALSE, n, 0, 0)
  <2>1. d \in State
    BY ObjectType, ZeroSize
  <2>2. /\ d.buffer = NULL /\ d.buffer_size = n
        /\ d.data_length = 0 /\ d.read_length = 0
    BY DEF Object
  <2>3. PICK b \in Allocation(d) : Build("Construct", o, d, b, Blank)
    BY <1>2 DEF SizeConstruct
  <2> HIDE DEF d
  <2>4. 0 <= n
    BY SizeAssumption DEF Sizes
  <2>5. d.read_length <= d.data_length
    BY <2>2
  <2> QED BY <2>1, <2>2, <2>3, <2>4, <2>5, BuildLength
<1>3. ASSUME NEW q \in Blocks \cup {NULL}, NEW n \in Sizes, NEW length \in Sizes,
             PointerConstruct(o, q, n, length)
      PROVE  LengthInv'
  <2> DEFINE d == Object(q, FALSE, n, length, 0)
  <2>1. CASE Refused("Construct", o, 0)
    BY <2>1, LengthSame DEF Refused
  <2>2. CASE ~(length > n) /\ obj' = [obj EXCEPT ![o] = d] /\ UNCHANGED torn
    <3>1. Lendable(o, q, n)
      BY <1>3 DEF PointerConstruct
    <3>2. /\ d.buffer = q /\ d.buffer_size = n
          /\ d.data_length = length /\ d.read_length = 0
      BY DEF Object
    <3> HIDE DEF d
    <3>3. n \in Nat /\ length \in Nat /\ length <= n
      BY <2>2, SizeAssumption DEF Sizes
    <3>4. Fits(d)
      BY <3>2, <3>3 DEF Fits
    <3>5. NullClaims = FALSE => Backed(d)
      BY <3>1, <3>2, HeapAssumption DEF Lendable, Backed, TypeOK
    <3> QED BY <2>2, <3>4, <3>5, LengthStep
  <2> QED BY <1>3, <2>1, <2>2 DEF PointerConstruct
<1>4. ASSUME NEW v \in Values, NEW n \in Sizes, OctetStringConstruct(o, v, n)
      PROVE  LengthInv'
  <2> DEFINE size == IF n > 0 THEN n ELSE Len(v)
             d    == Object(NULL, FALSE, size, Len(v), 0)
  <2>1. Len(v) \in Nat /\ size \in Nat
    BY <1>0, InputAssumption
  <2>2. \/ Refused("FromOctets", o, 0)
        \/ /\ size <= MaxSize /\ ~(Len(v) > size)
           /\ \E b \in Allocation(d) : Build("FromOctets", o, d, b, Stored(Blank, 0, v))
    BY <1>4 DEF OctetStringConstruct
  <2>3. CASE Refused("FromOctets", o, 0)
    BY <2>3, LengthSame DEF Refused
  <2>4. ASSUME size <= MaxSize, ~(Len(v) > size),
               NEW b \in Allocation(d), Build("FromOctets", o, d, b, Stored(Blank, 0, v))
        PROVE  LengthInv'
    <3>1. size \in Sizes /\ Len(v) \in Sizes /\ Len(v) <= size /\ 0 <= Len(v)
      BY <2>1, <2>4, SizeAssumption DEF Sizes
    <3> HIDE DEF size
    <3>2. /\ d \in State /\ d.buffer = NULL /\ d.buffer_size = size
          /\ d.data_length = Len(v) /\ d.read_length = 0
      BY <3>1, ObjectType, ZeroSize DEF Object
    <3> HIDE DEF d
    <3> QED BY <2>4, <3>1, <3>2, BuildLength
  <2> HIDE DEF size, d
  <2> QED BY <2>2, <2>3, <2>4
<1>5. ASSUME NEW s \in Objects, CopyConstruct(o, s) PROVE LengthInv'
  <2> DEFINE other == obj[s]
             d     == Object(NULL, FALSE, other.buffer_size, other.data_length,
                             other.read_length)
             cells == IF other.data_length = 0 THEN Blank
                      ELSE Prefix(content[other.buffer], other.data_length)
  <2>1. other \in State /\ Fits(other)
    BY DEF TypeOK, LengthInv
  <2>2. /\ d \in State /\ d.buffer = NULL /\ d.buffer_size = other.buffer_size
        /\ d.data_length = other.data_length /\ d.read_length = other.read_length
    BY <2>1, ObjectType DEF State, Object
  <2>3. PICK b \in Allocation(d) :
           IF b # NULL /\ other.data_length > 0
                       /\ ~Accessible(other.buffer, other.data_length)
           THEN Crash ELSE Build("Copy", o, d, b, cells)
    BY <1>5 DEF CopyConstruct
  <2>4. CASE Crash
    BY <2>4, LengthSame DEF Crash
  <2>5. ASSUME b # NULL /\ other.data_length > 0 =>
                   Accessible(other.buffer, other.data_length),
               Build("Copy", o, d, b, cells)
        PROVE  LengthInv'
    <3> HIDE DEF d, cells
    <3>1. b # NULL \/ d.buffer_size = 0 => d.data_length <= d.buffer_size
      <4>0. other.buffer_size \in Nat /\ other.data_length \in Nat
        BY Lengths
      <4>1. CASE other.buffer_size = 0
        BY <2>1, <2>2, <4>1 DEF Fits
      <4>2. CASE b # NULL /\ other.data_length > 0
        BY <2>1, <2>2, <2>5, <4>2, HeapAssumption DEF Fits, Accessible, Live
      <4>3. CASE b # NULL /\ other.data_length = 0
        BY <2>2, <4>0, <4>3
      <4> QED BY <2>2, <4>0, <4>1, <4>2, <4>3
    <3>2. d.read_length <= d.data_length
      BY <2>1, <2>2 DEF Fits
    <3> QED BY <2>2, <2>5, <3>1, <3>2, BuildLength
  <2> QED BY <2>3, <2>4, <2>5
<1> QED BY <1>1, <1>2, <1>3, <1>4, <1>5

LEMMA MoveLength ==
    ASSUME TypeOK, OwnInv, LengthInv, NEW o \in Objects, NEW s \in Objects,
           MoveConstruct(o, s)
    PROVE  LengthInv'
<1>1. o # s
  BY VacantIsDead, ExistsIsAlive, DeadFields DEF MoveConstruct, Usable
<1>2. /\ obj'[o] = obj[s] /\ obj'[s] = Default
      /\ \A r \in Objects \ {o, s} : obj'[r] = obj[r]
      /\ torn' = IF s \in torn THEN (torn \ {s}) \cup {o} ELSE torn
  BY <1>1 DEF MoveConstruct, MovedFrom, TypeOK
<1>3. Fits(Default) /\ Backed(Default)
  BY DEF Fits, Backed, Default, Object
<1> SUFFICES ASSUME NEW r \in Objects
             PROVE  /\ Fits(obj'[r])
                    /\ NullClaims = FALSE /\ r \notin torn' => Backed(obj'[r])
  BY DEF LengthInv, Fits, Backed
<1>4. CASE r = o
  <2>1. o \notin torn' => s \notin torn
    BY <1>2
  <2> QED BY <1>2, <1>4, <2>1 DEF LengthInv
<1>5. CASE r = s
  BY <1>2, <1>3, <1>5
<1>6. CASE r # o /\ r # s
  <2>1. r \in torn => r \in torn'
    BY <1>2, <1>6
  <2> QED BY <1>2, <1>6, <2>1 DEF LengthInv
<1> QED BY <1>4, <1>5, <1>6

LEMMA CopyDataLength ==
    ASSUME TypeOK, LengthInv, NEW o \in Objects, NEW s \in Objects, NEW d \in State,
           NEW freed, NEW size, NEW cells, CopyData(o, s, d, freed, size, cells),
           d.buffer_size = obj[s].buffer_size,
           NullClaims = FALSE /\ s \notin torn /\ o \notin torn => Backed(d)
    PROVE  LengthInv'
<1> DEFINE n == obj[s].data_length
           e == [d EXCEPT !.data_length = n, !.read_length = obj[s].read_length]
<1>1. /\ e.buffer = d.buffer /\ e.buffer_size = obj[s].buffer_size
      /\ e.data_length = n /\ e.read_length = obj[s].read_length
  BY DEF State
<1>2. Fits(obj[s]) /\ n \in Nat /\ obj[s].buffer_size \in Nat
  BY Lengths DEF LengthInv
<1> HIDE DEF e
<1>3. ASSUME ~(n > 0 /\ ~(Accessible(obj[s].buffer, n) /\ d.buffer # NULL /\ n <= size)),
             obj' = [obj EXCEPT ![o] = e],
             torn' = IF s \in torn THEN torn \cup {o} ELSE torn
      PROVE  LengthInv'
  <2>1. n > 0 => obj[s].buffer # NULL
    BY <1>3, HeapAssumption DEF Accessible, Live
  <2>2. n <= obj[s].buffer_size
    BY <1>2, <2>1 DEF Fits
  <2>3. Fits(e)
    BY <1>1, <1>2, <2>2 DEF Fits
  <2>4. CASE s \in torn
    BY <1>3, <2>3, <2>4, LengthStep
  <2>5. CASE s \notin torn
    BY <1>1, <1>3, <2>3, <2>5, LengthStep DEF Backed
  <2> QED BY <2>4, <2>5
<1>4. CASE Crash
  BY <1>4, LengthSame DEF Crash
<1> QED BY <1>3, <1>4 DEF CopyData, e

LEMMA AssignLength ==
    ASSUME TypeOK, LengthInv, NEW o \in Objects, NEW s \in Objects, Assign(o, s)
    PROVE  LengthInv'
<1> DEFINE t == Target(obj[o])
           d == Resized(t, obj[s].buffer_size)
<1>1. /\ obj[o] \in State /\ obj[s] \in State /\ t \in State /\ d \in State
      /\ t.buffer_size \in Nat /\ d.buffer_size = obj[s].buffer_size
      /\ d.data_length = obj[o].data_length /\ d.read_length = obj[o].read_length
  <2>1. obj[o] \in State /\ obj[s] \in State /\ obj[s].buffer_size \in Sizes
    BY DEF TypeOK, State
  <2>2. t \in State /\ d \in State
    BY <2>1, TargetType
  <2>3. t.data_length = obj[o].data_length /\ t.read_length = obj[o].read_length
    BY <2>1 DEF Target, State
  <2> HIDE DEF t
  <2>4. /\ d.buffer_size = obj[s].buffer_size
        /\ d.data_length = t.data_length /\ d.read_length = t.read_length
    BY <2>2 DEF Resized, State
  <2>5. t.buffer_size \in Nat
    BY <2>2, SizeAssumption DEF State, Sizes
  <2> QED BY <2>1, <2>2, <2>3, <2>4, <2>5
<1>2. CASE AssignSelf(o)
  BY <1>2, LengthSame DEF AssignSelf
<1>3. CASE AssignInPlace(o, s)
  <2>1. t.buffer_size = obj[s].buffer_size
    BY <1>3 DEF AssignInPlace
  <2>2. NullClaims = FALSE /\ o \notin torn => Backed(t)
    <3>1. CASE obj[o].owns_buffer
      BY <3>1 DEF LengthInv, Target
    <3>2. CASE ~obj[o].owns_buffer
      BY <1>1, <3>2 DEF Target, Backed, State
    <3> QED BY <3>1, <3>2
  <2>3. PICK size, cells : CopyData(o, s, t, {}, size, cells)
    BY <1>3 DEF AssignInPlace
  <2> HIDE DEF t
  <2> QED BY <1>1, <2>1, <2>2, <2>3, CopyDataLength
<1>4. CASE AssignReallocated(o, s)
  <2>1. PICK b \in Allocation(d) :
           /\ ~AllocationFails(d, b)
           /\ CopyData(o, s, AllocateBuffer(d, b), Frees(d), d.buffer_size, Blank)
    BY <1>4 DEF AssignReallocated
  <2> HIDE DEF t, d
  <2> DEFINE e == AllocateBuffer(d, b)
  <2>2. e \in State /\ e.buffer = b /\ e.buffer_size = d.buffer_size
    BY <1>1, AllocationType, AllocateBufferFields
  <2>3. d.buffer_size \in Nat
    BY <1>1, Lengths
  <2>4. Backed(e)
    BY <2>1, <2>2, <2>3 DEF AllocationFails, Backed
  <2>5. CopyData(o, s, e, Frees(d), d.buffer_size, Blank)
    BY <2>1
  <2> HIDE DEF e
  <2> QED BY <1>1, <2>2, <2>4, <2>5, CopyDataLength
<1>5. CASE AssignFails(o, s)
  <2>1. /\ obj' = [obj EXCEPT ![o] = AllocateBuffer(d, NULL)]
        /\ torn' = torn \cup {o} /\ AllocationFails(d, NULL)
    BY <1>5 DEF AssignFails
  <2> HIDE DEF t, d
  <2> DEFINE e == AllocateBuffer(d, NULL)
  <2>2. /\ e.buffer = NULL /\ e.buffer_size = d.buffer_size
        /\ \/ e.data_length = obj[o].data_length /\ e.read_length = obj[o].read_length
           \/ e.data_length = 0 /\ e.read_length = 0
    BY <1>1, AllocateBufferFields
  <2> HIDE DEF e
  <2>3. e.buffer_size > 0
    BY <2>1, <2>2 DEF AllocationFails
  <2>4. obj[o].read_length <= obj[o].data_length
    BY DEF LengthInv, Fits
  <2>5. Fits(e)
    BY <2>2, <2>3, <2>4 DEF Fits
  <2>6. obj' = [obj EXCEPT ![o] = e] /\ o \in torn' /\ torn \subseteq torn' \cup {o}
    BY <2>1 DEF e
  <2> QED BY <2>5, <2>6, LengthStep
<1> QED BY <1>2, <1>3, <1>4, <1>5 DEF Assign

LEMMA HandOverLength ==
    ASSUME TypeOK, LengthInv, NEW o \in Objects,
           \/ Destroy(o)
           \/ TakeBufferOwnership(o)
           \/ \E q \in Blocks \cup {NULL}, n, length \in Sizes, take \in BOOLEAN :
                SetBuffer(o, q, n, length, take)
    PROVE  LengthInv'
<1>1. CASE Destroy(o)
  <2>1. Fits(Dead) /\ Backed(Dead)
    BY DEF Fits, Backed, Dead
  <2>2. \/ UNCHANGED <<obj, torn>>
        \/ obj' = [obj EXCEPT ![o] = Dead] /\ torn' = torn \ {o}
    BY <1>1 DEF Destroy, Crash
  <2>3. torn' = torn \ {o} => torn \subseteq torn' \cup {o}
    OBVIOUS
  <2> QED BY <2>1, <2>2, <2>3, LengthSame, LengthStep
<1>2. CASE TakeBufferOwnership(o)
  <2>1. Fits(Default) /\ Backed(Default)
    BY DEF Fits, Backed, Default, Object
  <2>2. obj' = [obj EXCEPT ![o] = Default] /\ torn \subseteq torn' \cup {o}
    BY <1>2 DEF TakeBufferOwnership
  <2> QED BY <2>1, <2>2, LengthStep
<1>3. ASSUME NEW q \in Blocks \cup {NULL}, NEW n \in Sizes, NEW length \in Sizes,
             NEW take \in BOOLEAN, SetBuffer(o, q, n, length, take)
      PROVE  LengthInv'
  <2> DEFINE d == Object(q, take, n, length, 0)
  <2>1. \/ UNCHANGED <<obj, torn>>
        \/ ~(length > n) /\ obj' = [obj EXCEPT ![o] = d] /\ torn' = torn \ {o}
    BY <1>3 DEF SetBuffer, Refused, Crash
  <2>2. CASE ~(length > n) /\ obj' = [obj EXCEPT ![o] = d] /\ torn' = torn \ {o}
    <3>1. Lendable(o, q, n)
      BY <1>3 DEF SetBuffer
    <3>2. /\ d.buffer = q /\ d.buffer_size = n
          /\ d.data_length = length /\ d.read_length = 0
      BY DEF Object
    <3> HIDE DEF d
    <3>3. n \in Nat /\ length \in Nat /\ length <= n
      BY <2>2, SizeAssumption DEF Sizes
    <3>4. Fits(d)
      BY <3>2, <3>3 DEF Fits
    <3>5. NullClaims = FALSE => Backed(d)
      BY <3>1, <3>2, HeapAssumption DEF Lendable, Backed, TypeOK
    <3>6. torn \subseteq torn' \cup {o}
      BY <2>2
    <3> QED BY <2>2, <3>4, <3>5, <3>6, LengthStep
  <2> QED BY <2>1, <2>2, LengthSame
<1> QED BY <1>1, <1>2, <1>3

\* Only the two lengths of o change.
LEMMA LengthsOnly ==
    ASSUME TypeOK, LengthInv, NEW o \in Objects, NEW d, UNCHANGED torn,
           obj' = [obj EXCEPT ![o] = d],
           d.buffer = obj[o].buffer, d.buffer_size = obj[o].buffer_size,
           d.read_length <= d.data_length,
           \/ d.data_length <= obj[o].data_length
           \/ d.data_length <= obj[o].buffer_size,
           d.data_length \in Nat
    PROVE  LengthInv'
<1>1. obj[o].buffer_size \in Nat /\ obj[o].data_length \in Nat
  BY Lengths
<1>2. Fits(d)
  BY <1>1 DEF LengthInv, Fits
<1>3. NullClaims = FALSE /\ o \notin torn' => Backed(d)
  BY DEF LengthInv, Backed
<1> QED BY <1>2, <1>3, LengthStep

LEMMA AdvancedLength ==
    ASSUME TypeOK, LengthInv, NEW o \in Objects, NEW n \in 0..(SizeModulus - 1),
           n > 0 => ~BeyondData(obj[o], n),
           obj' = [obj EXCEPT ![o] = Advanced(obj[o], n)], UNCHANGED torn
    PROVE  LengthInv'
<1> DEFINE d == Advanced(obj[o], n)
<1>1. /\ d.buffer = obj[o].buffer /\ d.buffer_size = obj[o].buffer_size
      /\ d.data_length = obj[o].data_length
      /\ d.read_length = Plus(obj[o].read_length, n)
  BY Lengths DEF Advanced, State
<1>2. Plus(obj[o].read_length, n) <= obj[o].data_length
  <2>0. /\ obj[o].read_length \in Nat /\ obj[o].data_length \in Nat /\ n \in Nat
        /\ obj[o].read_length < SizeModulus /\ SizeModulus \in Nat
    BY SizeAssumption DEF TypeOK, State, Sizes
  <2>1. CASE n > 0
    BY <2>0, <2>1 DEF BeyondData, Plus
  <2>2. CASE n = 0
    BY <2>0, <2>2 DEF Plus, LengthInv, Fits
  <2> QED BY <2>0, <2>1, <2>2
<1> HIDE DEF d
<1>3. /\ d.read_length <= d.data_length /\ d.data_length <= obj[o].data_length
      /\ d.data_length \in Nat
  BY <1>1, <1>2, Lengths
<1>4. obj' = [obj EXCEPT ![o] = d]
  BY DEF d
<1> QED BY <1>1, <1>3, <1>4, LengthsOnly

LEMMA PositionLength ==
    ASSUME TypeOK, LengthInv, NEW o \in Objects,
           \/ \E n \in Sizes : SetDataLength(o, n)
           \/ ResetReadLength(o)
           \/ \E n \in Counts : AdvanceReadLength(o, n)
           \/ \E n \in Counts : ReadValue(o, n)
           \/ \E n \in Counts : ReadString(o, n)
           \/ \E i, n \in Counts : GetValue(o, i, n)
    PROVE  LengthInv'
<1>0. Sizes \subseteq 0..(SizeModulus - 1) /\ Sizes \subseteq Nat
  BY SizeAssumption DEF Sizes
<1>1. ASSUME NEW n \in Sizes, SetDataLength(o, n) PROVE LengthInv'
  <2> DEFINE d == WithDataLength(obj[o], n)
  <2>1. \/ UNCHANGED <<obj, torn>>
        \/ ~(n > obj[o].buffer_size) /\ obj' = [obj EXCEPT ![o] = d] /\ UNCHANGED torn
    BY <1>1 DEF SetDataLength, Refused
  <2>2. /\ d.buffer = obj[o].buffer /\ d.buffer_size = obj[o].buffer_size
        /\ d.data_length = n /\ d.read_length = Minimum(n, obj[o].read_length)
    BY Lengths DEF WithDataLength, State
  <2> HIDE DEF d
  <2>3. n \in Nat
    BY <1>0
  <2>4. d.read_length <= d.data_length
    BY <2>2, <2>3, Lengths DEF Minimum
  <2>5. CASE ~(n > obj[o].buffer_size) /\ obj' = [obj EXCEPT ![o] = d] /\ UNCHANGED torn
    <3>1. d.data_length <= obj[o].buffer_size
      BY <2>2, <2>3, <2>5, Lengths
    <3> QED BY <2>2, <2>3, <2>4, <2>5, <3>1, LengthsOnly
  <2> QED BY <2>1, <2>5, LengthSame
<1>2. CASE ResetReadLength(o)
  <2> DEFINE d == [obj[o] EXCEPT !.read_length = 0]
  <2>1. /\ d.buffer = obj[o].buffer /\ d.buffer_size = obj[o].buffer_size
        /\ d.data_length = obj[o].data_length /\ d.read_length = 0
    BY Lengths DEF State
  <2>2. obj' = [obj EXCEPT ![o] = d] /\ UNCHANGED torn
    BY <1>2 DEF ResetReadLength
  <2> HIDE DEF d
  <2>3. d.read_length <= d.data_length /\ d.data_length <= obj[o].data_length
    BY <2>1, Lengths
  <2> QED BY <2>1, <2>2, <2>3, Lengths, LengthsOnly
<1>3. ASSUME NEW n \in Counts, AdvanceReadLength(o, n) PROVE LengthInv'
  <2>1. \/ UNCHANGED <<obj, torn>>
        \/ /\ ~BeyondData(obj[o], n)
           /\ obj' = [obj EXCEPT ![o] = Advanced(obj[o], n)] /\ UNCHANGED torn
    BY <1>3 DEF AdvanceReadLength, Refused
  <2> QED BY <2>1, InputAssumption, LengthSame, AdvancedLength
<1>4. ASSUME NEW n \in Counts, ReadValue(o, n) PROVE LengthInv'
  <2>1. \/ UNCHANGED <<obj, torn>>
        \/ /\ ~(n > 0 /\ BeyondData(obj[o], n))
           /\ obj' = [obj EXCEPT ![o] = Advanced(obj[o], n)] /\ UNCHANGED torn
    BY <1>4 DEF ReadValue, Refused, Crash
  <2> QED BY <2>1, InputAssumption, LengthSame, AdvancedLength
<1>5. ASSUME NEW n \in Counts, ReadString(o, n) PROVE LengthInv'
  <2>1. UNCHANGED <<obj, torn>> \/ ReadValue(o, n)
    BY <1>5 DEF ReadString, Refused
  <2> QED BY <1>4, <2>1, InputAssumption, LengthSame
<1>6. ASSUME NEW i \in Counts, NEW n \in Counts, GetValue(o, i, n) PROVE LengthInv'
  <2>1. UNCHANGED <<obj, torn>>
    BY <1>6 DEF GetValue, Refused, Crash
  <2> QED BY <2>1, LengthSame
<1> QED BY <1>0, <1>1, <1>2, <1>3, <1>4, <1>5, <1>6

LEMMA WriteLength ==
    ASSUME TypeOK, LengthInv, NEW o \in Objects,
           \/ \E i \in Counts, x \in Octet : WriteOctet(o, i, x)
           \/ \E i \in Counts, v \in Values : SetValue(o, i, v)
           \/ \E i \in Counts, high, low \in Values : SetValue64(o, i, high, low)
           \/ \E v \in Values : AppendValue(o, v)
    PROVE  LengthInv'
<1>1. ASSUME \/ \E i \in Counts, x \in Octet : WriteOctet(o, i, x)
             \/ \E i \in Counts, v \in Values : SetValue(o, i, v)
             \/ \E i \in Counts, high, low \in Values : SetValue64(o, i, high, low)
      PROVE  LengthInv'
  <2>1. UNCHANGED <<obj, torn>>
    BY <1>1 DEF WriteOctet, SetValue, SetValue64, Refused, Crash
  <2> QED BY <2>1, LengthSame
<1>2. ASSUME NEW v \in Values, AppendValue(o, v) PROVE LengthInv'
  <2> DEFINE at == obj[o].data_length
             d  == [obj[o] EXCEPT !.data_length = at + Len(v)]
  <2>0. /\ Len(v) \in Nat /\ at \in Nat /\ at + Len(v) < SizeModulus
        /\ obj[o].read_length \in Nat /\ at + Len(v) \in Nat
    BY Lengths, SizeAssumption, InputAssumption DEF TypeOK, State, Sizes
  <2>1. \/ UNCHANGED <<obj, torn>>
        \/ /\ ~(Len(v) > 0 /\ BeyondBuffer(obj[o], at, Len(v)))
           /\ obj' = [obj EXCEPT ![o] = d] /\ UNCHANGED torn
    BY <1>2 DEF AppendValue, Refused, Crash
  <2>2. /\ d.buffer = obj[o].buffer /\ d.buffer_size = obj[o].buffer_size
        /\ d.data_length = at + Len(v) /\ d.read_length = obj[o].read_length
    BY Lengths DEF State
  <2> HIDE DEF d
  <2>3. d.read_length <= d.data_length
    BY <2>0, <2>2 DEF LengthInv, Fits
  <2>4. CASE /\ ~(Len(v) > 0 /\ BeyondBuffer(obj[o], at, Len(v)))
             /\ obj' = [obj EXCEPT ![o] = d] /\ UNCHANGED torn
    <3>1. \/ d.data_length <= obj[o].data_length
          \/ d.data_length <= obj[o].buffer_size
      <4>1. CASE Len(v) = 0
        BY <2>0, <2>2, <4>1
      <4>2. CASE Len(v) > 0
        BY <2>0, <2>2, <2>4, <4>2, BeyondBufferMeans, Lengths
      <4> QED BY <2>0, <4>1, <4>2
    <3> QED BY <2>0, <2>2, <2>3, <2>4, <3>1, LengthsOnly
  <2> QED BY <2>1, <2>4, LengthSame
<1> QED BY <1>1, <1>2

LEMMA LengthInit == Init => LengthInv
<1>1. Fits(Dead) /\ Backed(Dead)
  BY DEF Fits, Backed, Dead
<1> QED BY <1>1 DEF Init, LengthInv

LEMMA LengthInvStep == TypeOK /\ OwnInv /\ LengthInv /\ [Next]_vars => LengthInv'
<1> SUFFICES ASSUME TypeOK, OwnInv, LengthInv, [Next]_vars PROVE LengthInv'
  OBVIOUS
<1>1. CASE UNCHANGED vars
  BY <1>1, LengthSame DEF vars
<1>2. ASSUME NEW b \in Blocks,
             \/ \E n \in Sizes, x \in Octet : CallerAllocate(b, n, x)
             \/ CallerFree(b)
      PROVE  LengthInv'
  BY <1>2, LengthSame DEF CallerAllocate, CallerFree
<1>3. CASE Next
  BY <1>2, <1>3, ConstructLength, MoveLength, HandOverLength, AssignLength,
     PositionLength, WriteLength DEF Next
<1> QED BY <1>1, <1>3

\* The three invariants together.
LEMMA Invariant == Spec => [](TypeOK /\ OwnInv /\ LengthInv)
BY TypeInit, TypeStep, OwnInit, OwnStep, LengthInit, LengthInvStep, PTL DEF Spec

\* As long as the caller claims no size for null, the lengths of an object are
\* in order whatever it does, however its sums wrap, and even if it goes on
\* using what a failed assignment left behind.
THEOREM LengthsCorrect ==
    ASSUME NullClaims = FALSE
    PROVE  Spec => []LengthsOrdered
<1>1. LengthInv /\ TypeOK => LengthsOrdered
  <2> SUFFICES ASSUME LengthInv, TypeOK, NEW o \in Objects \ torn
               PROVE  /\ obj[o].buffer = NULL => obj[o].buffer_size = 0
                      /\ obj[o].read_length <= obj[o].data_length
                      /\ obj[o].data_length <= obj[o].buffer_size
    BY DEF LengthsOrdered
  <2> QED BY DEF LengthInv, Fits, Backed
<1> QED BY <1>1, Invariant, PTL

-----------------------------------------------------------------------------
(***************************************************************************)
(* No call reaches memory it should not, if the caller claims no size for  *)
(* null, does not use what a failed assignment left behind, and passes no  *)
(* offset or count that makes a sum wrap round: the checks compare that    *)
(* sum, and let the access through when it has wrapped (run wrapped_fault).*)
(***************************************************************************)

\* No offset or count a caller passes, or reads from a message and passes on,
\* makes a sum of std::size_t wrap round.
NoSumWraps ==
    /\ \A i, n \in Counts : i + n < SizeModulus
    /\ \A i \in Counts : \A v \in Values : i + Len(v) < SizeModulus
    /\ \A n \in Counts : n + MaxSize < SizeModulus

Careful == ReuseTorn = FALSE /\ NullClaims = FALSE /\ NoSumWraps

\* A usable object has the memory it says it has.
LEMMA Backing ==
    ASSUME Careful, TypeOK, OwnInv, LengthInv, NEW o \in Objects, Usable(o),
           NEW n \in Nat, n > 0, n <= obj[o].buffer_size
    PROVE  Accessible(obj[o].buffer, n) /\ obj[o].buffer # NULL
<1>1. o \notin torn
  BY DEF Careful, Usable
<1>2. obj[o].buffer # NULL
  BY <1>1, Lengths DEF Careful, LengthInv, Backed
<1>3. /\ obj[o].buffer \in Live /\ obj[o].buffer_size <= capacity[obj[o].buffer]
      /\ capacity[obj[o].buffer] \in Nat
  BY <1>2, SizeAssumption DEF OwnInv, PointersLive, Live, TypeOK, Sizes
<1> QED BY <1>2, <1>3, Lengths DEF Accessible

\* The octets in use are within the buffer, and what has been read within them.
LEMMA DataBacking ==
    ASSUME Careful, TypeOK, OwnInv, LengthInv, NEW o \in Objects, Usable(o),
           NEW n \in Nat, n > 0, n <= obj[o].data_length
    PROVE  Accessible(obj[o].buffer, n) /\ n <= obj[o].buffer_size
<1>1. o \notin torn
  BY DEF Careful, Usable
<1>2. obj[o].data_length <= obj[o].buffer_size
  BY <1>1 DEF Careful, LengthInv, Fits, Backed
<1> QED BY <1>2, Backing, Lengths

LEMMA HandOverNoFault ==
    ASSUME Careful, TypeOK, OwnInv, LengthInv, NEW o \in Objects,
           \/ Destroy(o)
           \/ \E q \in Blocks \cup {NULL}, n, length \in Sizes, take \in BOOLEAN :
                SetBuffer(o, q, n, length, take)
    PROVE  UNCHANGED fault
<1>1. Frees(obj[o]) \subseteq Live
  BY DEF Frees, OwnInv, PointersLive
<1> QED BY <1>1 DEF Destroy, SetBuffer, Refused, Throws, Returns, Gives

LEMMA CopyNoFault ==
    ASSUME Careful, TypeOK, OwnInv, LengthInv, NEW o \in Objects, NEW s \in Objects,
           CopyConstruct(o, s)
    PROVE  UNCHANGED fault
<1> DEFINE n == obj[s].data_length
           d == Object(NULL, FALSE, obj[s].buffer_size, n, obj[s].read_length)
           cells == IF n = 0 THEN Blank ELSE Prefix(content[obj[s].buffer], n)
<1>1. n > 0 => Accessible(obj[s].buffer, n)
  BY DataBacking, Lengths DEF CopyConstruct
<1>2. PICK b \in Allocation(d) : Build("Copy", o, d, b, cells)
  BY <1>1 DEF CopyConstruct
<1> QED BY <1>2 DEF Build, Refused, Throws, Returns, Gives

LEMMA CopyDataNoFault ==
    ASSUME NEW o, NEW s, NEW d, NEW freed, NEW size, NEW cells,
           CopyData(o, s, d, freed, size, cells),
           obj[s].data_length > 0 => /\ Accessible(obj[s].buffer, obj[s].data_length)
                                     /\ d.buffer # NULL /\ obj[s].data_length <= size
    PROVE  UNCHANGED fault
BY DEF CopyData, Returns, Gives

LEMMA AssignNoFault ==
    ASSUME Careful, TypeOK, OwnInv, LengthInv, NEW o \in Objects, NEW s \in Objects,
           Assign(o, s)
    PROVE  UNCHANGED fault
<1> DEFINE n == obj[s].data_length
           t == Target(obj[o])
           d == Resized(t, obj[s].buffer_size)
<1>1. CASE AssignSelf(o)
  BY <1>1 DEF AssignSelf, Returns, Gives
<1>2. CASE AssignInPlace(o, s)
  <2>0. Usable(o) /\ Usable(s) /\ t.buffer_size = obj[s].buffer_size
    BY <1>2 DEF AssignInPlace
  <2>1. n > 0 => Accessible(obj[s].buffer, n) /\ n <= obj[s].buffer_size
    BY <2>0, DataBacking, Lengths
  <2>2. n > 0 => t = obj[o] /\ obj[o].buffer # NULL
    <3> SUFFICES ASSUME n > 0 PROVE t = obj[o] /\ obj[o].buffer # NULL
      OBVIOUS
    <3>1. t.buffer_size > 0
      BY <2>0, <2>1, Lengths
    <3>2. t = obj[o]
      BY <3>1, Lengths DEF Target, State
    <3>3. o \notin torn
      BY <2>0 DEF Careful, Usable
    <3> QED BY <3>1, <3>2, <3>3 DEF Careful, LengthInv, Backed
  <2>3. CASE n > 0
    <3>1. CopyData(o, s, t, {}, capacity[t.buffer], content[t.buffer])
      BY <1>2, <2>2, <2>3 DEF AssignInPlace
    <3>2. n <= capacity[t.buffer]
      BY <2>0, <2>1, <2>2, <2>3, Backing, Lengths DEF Accessible
    <3> HIDE DEF t
    <3> QED BY <2>1, <2>2, <2>3, <3>1, <3>2, CopyDataNoFault
  <2>4. CASE ~(n > 0)
    <3>1. PICK size, cells : CopyData(o, s, t, {}, size, cells)
      BY <1>2 DEF AssignInPlace
    <3> HIDE DEF t
    <3> QED BY <2>4, <3>1, CopyDataNoFault
  <2> QED BY <2>3, <2>4
<1>3. CASE AssignReallocated(o, s)
  <2>0. Usable(s) /\ t \in State /\ d \in State /\ d.buffer_size = obj[s].buffer_size
    <3>1. obj[o] \in State /\ obj[s].buffer_size \in Sizes
      BY DEF TypeOK, State
    <3>2. t \in State /\ d \in State
      BY <3>1, TargetType
    <3> HIDE DEF t
    <3> QED BY <1>3, <3>2 DEF AssignReallocated, Resized, State
  <2>1. n > 0 => Accessible(obj[s].buffer, n) /\ n <= obj[s].buffer_size
    BY <2>0, DataBacking, Lengths
  <2>2. PICK b \in Allocation(d) :
           /\ ~AllocationFails(d, b)
           /\ CopyData(o, s, AllocateBuffer(d, b), Frees(d), d.buffer_size, Blank)
    BY <1>3 DEF AssignReallocated
  <2> HIDE DEF t, d
  <2>3. AllocateBuffer(d, b).buffer = b
    BY <2>0, AllocationType, AllocateBufferFields
  <2>4. n > 0 => b # NULL
    BY <2>0, <2>1, <2>2, Lengths DEF AllocationFails
  <2> QED BY <2>0, <2>1, <2>2, <2>3, <2>4, CopyDataNoFault
<1>4. CASE AssignFails(o, s)
  BY <1>4 DEF AssignFails, Throws
<1> QED BY <1>1, <1>2, <1>3, <1>4 DEF Assign

LEMMA WriteNoFault ==
    ASSUME Careful, TypeOK, OwnInv, LengthInv, NEW o \in Objects,
           \/ \E i \in Counts, x \in Octet : WriteOctet(o, i, x)
           \/ \E i \in Counts, v \in Values : SetValue(o, i, v)
           \/ \E i \in Counts, high, low \in Values : SetValue64(o, i, high, low)
           \/ \E v \in Values : AppendValue(o, v)
    PROVE  UNCHANGED fault
<1> USE DEF Refused, Throws, Returns, Gives
<1>0. /\ Counts \subseteq Nat /\ \A v \in Values : Len(v) \in Nat
      /\ \A i \in Counts : \A v \in Values : i + Len(v) < SizeModulus
      /\ Half \in Nat
  BY SizeAssumption, InputAssumption DEF Careful, NoSumWraps
<1>1. ASSUME NEW i \in Counts, NEW x \in Octet, WriteOctet(o, i, x) PROVE UNCHANGED fault
  <2>1. CASE i >= obj[o].buffer_size
    BY <1>1, <2>1 DEF WriteOctet
  <2>2. CASE ~(i >= obj[o].buffer_size)
    <3>1. i + 1 \in Nat /\ i + 1 > 0 /\ i + 1 <= obj[o].buffer_size
      BY <1>0, <2>2, Lengths
    <3>2. Accessible(obj[o].buffer, i + 1)
      BY <1>1, <3>1, Backing DEF WriteOctet
    <3> QED BY <1>1, <2>2, <3>2 DEF WriteOctet
  <2> QED BY <2>1, <2>2
<1>2. ASSUME Usable(o), NEW i \in Nat, NEW n \in Nat, n > 0, i + n < SizeModulus,
             ~BeyondBuffer(obj[o], i, n)
      PROVE  Accessible(obj[o].buffer, i + n)
  <2>1. i + n <= obj[o].buffer_size
    BY <1>2, BeyondBufferMeans, Lengths
  <2> QED BY <1>2, <2>1, Backing
<1>3. ASSUME NEW i \in Counts, NEW v \in Values, SetValue(o, i, v) PROVE UNCHANGED fault
  <2>1. Len(v) > 0 /\ ~BeyondBuffer(obj[o], i, Len(v)) =>
            Accessible(obj[o].buffer, i + Len(v))
    BY <1>0, <1>2, <1>3 DEF SetValue
  <2> QED BY <1>3, <2>1 DEF SetValue
<1>4. ASSUME NEW i \in Counts, NEW high \in Values, NEW low \in Values,
             SetValue64(o, i, high, low)
      PROVE  UNCHANGED fault
  <2>0. /\ i \in Nat /\ i + Half \in Nat /\ Half > 0 /\ Usable(o)
        /\ i + Half < SizeModulus /\ Plus(i, Half) = i + Half
    <3>1. i \in Nat /\ Half > 0 /\ Usable(o) /\ Len(high) = Half
      BY <1>0, <1>4 DEF SetValue64
    <3>2. i + Half < SizeModulus
      BY <1>0, <3>1
    <3> QED BY <1>0, <3>1, <3>2, PlusIsSum
  <2>1. ~BeyondBuffer(obj[o], i, Half) =>
            Accessible(obj[o].buffer, i + Half) /\ i + Half <= MaxSize
    <3>1. obj[o] \in State /\ obj[o].buffer_size \in Sizes
      BY DEF TypeOK, State
    <3>2. ~BeyondBuffer(obj[o], i, Half) => i + Half <= obj[o].buffer_size
      BY <1>0, <2>0, <3>1, BeyondBufferMeans
    <3> QED BY <1>0, <1>2, <2>0, <3>1, <3>2, SizeAssumption DEF Sizes
  <2>2. ~BeyondBuffer(obj[o], i, Half) /\ ~BeyondBuffer(obj[o], i + Half, Half)
            => Accessible(obj[o].buffer, i + 2 * Half)
    <3>1. i + 2 * Half = (i + Half) + Half
      BY <1>0, <2>0
    <3>2. i + Half <= MaxSize => (i + Half) + Half < SizeModulus
      BY <1>0, <2>0, SizeAssumption
    <3>3. ~BeyondBuffer(obj[o], i, Half) /\ ~BeyondBuffer(obj[o], i + Half, Half)
              => Accessible(obj[o].buffer, (i + Half) + Half)
      BY <1>0, <1>2, <2>0, <2>1, <3>2
    <3> QED BY <3>1, <3>3
  <2> QED BY <1>4, <2>0, <2>1, <2>2 DEF SetValue64
<1>5. ASSUME NEW v \in Values, AppendValue(o, v) PROVE UNCHANGED fault
  <2> DEFINE at == obj[o].data_length
  <2>0. at \in Sizes /\ at \in Nat /\ at + Len(v) < SizeModulus
    BY <1>0, Lengths, SizeAssumption, InputAssumption DEF State, Sizes
  <2>1. Len(v) > 0 /\ ~BeyondBuffer(obj[o], at, Len(v)) =>
            Accessible(obj[o].buffer, at + Len(v))
    BY <1>0, <1>2, <1>5, <2>0 DEF AppendValue
  <2> QED BY <1>5, <2>1 DEF AppendValue
<1> QED BY <1>1, <1>3, <1>4, <1>5

LEMMA ReadNoFault ==
    ASSUME Careful, TypeOK, OwnInv, LengthInv, NEW o \in Objects,
           \/ \E i, n \in Counts : GetValue(o, i, n)
           \/ \E n \in Counts : ReadValue(o, n)
           \/ \E n \in Counts : ReadString(o, n)
    PROVE  UNCHANGED fault
<1> USE DEF Refused, Throws, Returns, Gives
<1>0. /\ Counts \subseteq Nat /\ \A i, n \in Counts : i + n < SizeModulus
      /\ \A n \in Counts : n + MaxSize < SizeModulus
      /\ MaxSize \in Nat
  BY SizeAssumption, InputAssumption DEF Careful, NoSumWraps
<1>1. ASSUME NEW i \in Counts, NEW n \in Counts, GetValue(o, i, n) PROVE UNCHANGED fault
  <2>0. i \in Nat /\ n \in Nat /\ Plus(i, n) = i + n /\ Usable(o)
    BY <1>0, <1>1, PlusIsSum DEF GetValue
  <2>1. n > 0 /\ ~(Plus(i, n) > obj[o].data_length) => Accessible(obj[o].buffer, i + n)
    BY <2>0, DataBacking, Lengths
  <2> QED BY <1>1, <2>1 DEF GetValue
<1>2. ASSUME NEW n \in Counts, ReadValue(o, n) PROVE UNCHANGED fault
  <2> DEFINE at == obj[o].read_length
  <2>0. at \in Nat /\ n \in Nat /\ Plus(at, n) = at + n /\ Usable(o)
    <3>1. at \in Nat /\ at <= MaxSize
      BY <1>0, Lengths DEF State, Sizes
    <3>2. n \in Nat /\ at + n < SizeModulus
      BY <1>0, <3>1, SizeAssumption
    <3> QED BY <1>2, <3>1, <3>2, PlusIsSum DEF ReadValue
  <2>1. n > 0 /\ ~BeyondData(obj[o], n) => Accessible(obj[o].buffer, at + n)
    BY <2>0, DataBacking, Lengths DEF BeyondData
  <2> QED BY <1>2, <2>1 DEF ReadValue
<1>3. ASSUME NEW n \in Counts, ReadString(o, n) PROVE UNCHANGED fault
  <2>1. CASE Refused("Read", o, n)
    BY <2>1
  <2> QED BY <1>2, <1>3, <2>1 DEF ReadString
<1> QED BY <1>1, <1>2, <1>3

LEMMA FaultStep ==
    ASSUME Careful, TypeOK, OwnInv, LengthInv, NoFault, [Next]_vars
    PROVE  NoFault'
<1> USE DEF NoFault
<1>1. CASE UNCHANGED vars
  BY <1>1 DEF vars
<1>2. ASSUME NEW b \in Blocks,
             \/ \E n \in Sizes, x \in Octet : CallerAllocate(b, n, x)
             \/ CallerFree(b)
      PROVE  UNCHANGED fault
  BY <1>2 DEF CallerAllocate, CallerFree, Returns, Gives
<1>3. ASSUME NEW o \in Objects,
             \/ DefaultConstruct(o)
             \/ \E n \in Sizes : SizeConstruct(o, n)
             \/ \E q \in Blocks \cup {NULL}, n, length \in Sizes :
                  PointerConstruct(o, q, n, length)
             \/ \E v \in Values, n \in Sizes : OctetStringConstruct(o, v, n)
             \/ \E s \in Objects : MoveConstruct(o, s)
             \/ TakeBufferOwnership(o)
             \/ \E n \in Sizes : SetDataLength(o, n)
             \/ ResetReadLength(o)
             \/ \E n \in Counts : AdvanceReadLength(o, n)
      PROVE  UNCHANGED fault
  <2> USE DEF Build, Refused, Throws, Returns, Gives
  <2>1. CASE \/ DefaultConstruct(o) \/ \E n \in Sizes : SizeConstruct(o, n)
             \/ \E s \in Objects : MoveConstruct(o, s)
             \/ TakeBufferOwnership(o) \/ ResetReadLength(o)
    BY <2>1 DEF DefaultConstruct, SizeConstruct, MoveConstruct, TakeBufferOwnership,
                ResetReadLength
  <2>2. CASE \/ \E q \in Blocks \cup {NULL}, n, length \in Sizes :
                  PointerConstruct(o, q, n, length)
             \/ \E v \in Values, n \in Sizes : OctetStringConstruct(o, v, n)
             \/ \E n \in Sizes : SetDataLength(o, n)
             \/ \E n \in Counts : AdvanceReadLength(o, n)
    BY <2>2 DEF PointerConstruct, OctetStringConstruct, SetDataLength, AdvanceReadLength
  <2> QED BY <1>3, <2>1, <2>2
<1>4. CASE Next
  <2>1. UNCHANGED fault
    BY <1>2, <1>3, <1>4, CopyNoFault, AssignNoFault, HandOverNoFault, WriteNoFault,
       ReadNoFault DEF Next
  <2> QED BY <2>1
<1> QED BY <1>1, <1>4

\* A caller that claims no size for null, uses an object whose assignment threw
\* only to destroy it or to give it a buffer, and whose offsets and counts make
\* no sum wrap round, never makes the library reach memory it does not have.
THEOREM NeverFaults ==
    ASSUME Careful
    PROVE  Spec => []NoFault
<1>1. Init => NoFault
  BY DEF Init, NoFault
<1>2. TypeOK /\ OwnInv /\ LengthInv /\ NoFault /\ [Next]_vars => NoFault'
  BY FaultStep
<1> QED BY <1>1, <1>2, Invariant, PTL DEF Spec

-----------------------------------------------------------------------------
(***************************************************************************)
(* Copies.  Nothing is assumed of the caller: a copy that would need       *)
(* memory that is not there throws or ends the program.                    *)
(***************************************************************************)

\* The octets in use are the same in o as in s, cell by cell.
LEMMA EqualIf ==
    ASSUME NEW o \in Objects, NEW s \in Objects,
           obj'[o].data_length = obj'[s].data_length,
           \/ obj'[s].data_length = 0
           \/ /\ obj'[o].buffer # NULL /\ obj'[s].buffer # NULL
              /\ \A i \in 0..(obj'[s].data_length - 1) :
                    content'[obj'[o].buffer][i] = content'[obj'[s].buffer][i],
           obj'[s].data_length \in Nat
    PROVE  Equal(o, s)'
<1>1. CASE obj'[s].data_length = 0
  BY <1>1 DEF Equal
<1>2. CASE obj'[s].data_length # 0
  <2> DEFINE n == obj'[s].data_length
  <2>1. \A i \in 1..n : content'[obj'[o].buffer][0 + i - 1]
                           = content'[obj'[s].buffer][0 + i - 1]
    <3> SUFFICES ASSUME NEW i \in 1..n
                 PROVE  content'[obj'[o].buffer][0 + i - 1]
                           = content'[obj'[s].buffer][0 + i - 1]
      OBVIOUS
    <3>1. 0 + i - 1 \in 0..(n - 1)
      OBVIOUS
    <3> QED BY <1>2, <3>1
  <2>2. Octets(obj[o].buffer, 0, obj[o].data_length)'
            = Octets(obj[s].buffer, 0, obj[s].data_length)'
    BY <2>1 DEF Octets
  <2> QED BY <1>2, <2>2 DEF Equal
<1> QED BY <1>1, <1>2

LEMMA CopyConstructEqual ==
    ASSUME TypeOK, OwnInv, LengthInv, NEW o \in Objects, NEW s \in Objects,
           CopyConstruct(o, s), out'.status = "ok", ~fault'
    PROVE  CopyOf(o, s)'
<1> DEFINE n     == obj[s].data_length
           d     == Object(NULL, FALSE, obj[s].buffer_size, n, obj[s].read_length)
           cells == IF n = 0 THEN Blank ELSE Prefix(content[obj[s].buffer], n)
<1>0. /\ obj[s] \in State /\ Fits(obj[s]) /\ n \in Nat /\ n <= MaxSize
      /\ obj[s].buffer_size \in Nat
  BY Lengths, SizeAssumption DEF LengthInv, State, Sizes
<1>1. /\ d \in State /\ d.buffer = NULL /\ d.owns_buffer = FALSE
      /\ d.data_length = n /\ d.buffer_size = obj[s].buffer_size
      /\ d.read_length = obj[s].read_length
  BY <1>0, ObjectType DEF State, Object
<1>2. o # s
  BY VacantIsDead, ExistsIsAlive, DeadFields DEF CopyConstruct, Usable
<1>3. PICK b \in Allocation(d) :
         /\ ~(b # NULL /\ n > 0 /\ ~Accessible(obj[s].buffer, n))
         /\ Build("Copy", o, d, b, cells)
  BY DEF CopyConstruct, Crash
<1> HIDE DEF d, cells
<1>4. ~AllocationFails(d, b) /\ obj' = [obj EXCEPT ![o] = AllocateBuffer(d, b)]
      /\ Heap({}, b, d.buffer_size, cells)
  BY <1>3 DEF Build, Refused, Throws, Result
<1>5. /\ AllocateBuffer(d, b).buffer = b /\ AllocateBuffer(d, b).data_length = n
      /\ AllocateBuffer(d, b).buffer_size = obj[s].buffer_size
      /\ AllocateBuffer(d, b).read_length = obj[s].read_length
      /\ b = NULL \/ b \in Blocks \ Live
  BY <1>1, AllocationType, AllocateBufferFields DEF Allocation, Frees
<1>6. /\ obj'[o].buffer = b /\ obj'[o].data_length = n /\ obj'[s] = obj[s]
      /\ obj'[o].buffer_size = obj'[s].buffer_size
      /\ obj'[o].read_length = obj'[s].read_length
  BY <1>2, <1>4, <1>5 DEF TypeOK
<1>7. ASSUME n # 0
      PROVE  /\ b # NULL /\ obj[s].buffer # NULL
             /\ \A i \in 0..(n - 1) : content'[b][i] = content'[obj[s].buffer][i]
  <2>1. b # NULL
    BY <1>0, <1>1, <1>4, <1>7 DEF AllocationFails, Fits
  <2>2. obj[s].buffer \in Live /\ obj[s].buffer \in Blocks /\ b \in Blocks
        /\ b # obj[s].buffer
    BY <1>0, <1>3, <1>5, <1>7, <2>1 DEF Accessible, Live
  <2>3. content'[b] = cells /\ content'[obj[s].buffer] = content[obj[s].buffer]
    BY <1>4, <2>2 DEF Heap
  <2>4. \A i \in 0..(n - 1) : cells[i] = content[obj[s].buffer][i]
    BY <1>0, <1>7, SizeAssumption DEF cells, Prefix, Offsets
  <2> QED BY <2>1, <2>2, <2>3, <2>4, HeapAssumption
<1> QED BY <1>0, <1>6, <1>7, EqualIf DEF CopyOf

LEMMA CopyDataEqual ==
    ASSUME TypeOK, LengthInv, NEW o \in Objects, NEW s \in Objects, o # s,
           NEW d \in State, NEW freed, NEW size, NEW cells,
           d.buffer # NULL => d.buffer # obj[s].buffer,
           obj[s].buffer # NULL => obj[s].buffer \notin freed,
           d.buffer_size = obj[s].buffer_size,
           CopyData(o, s, d, freed, size, cells), ~fault'
    PROVE  CopyOf(o, s)'
<1> DEFINE n   == obj[s].data_length
           e   == [d EXCEPT !.data_length = n, !.read_length = obj[s].read_length]
           new == [i \in Offsets |-> IF i < n THEN content[obj[s].buffer][i] ELSE cells[i]]
<1>0. n \in Nat /\ n <= MaxSize
  BY Lengths, SizeAssumption DEF State, Sizes
<1>1. /\ e.buffer = d.buffer /\ e.data_length = n
      /\ e.buffer_size = obj[s].buffer_size /\ e.read_length = obj[s].read_length
  BY DEF State
<1> HIDE DEF e, new
<1>2. /\ ~(n > 0 /\ ~(Accessible(obj[s].buffer, n) /\ d.buffer # NULL /\ n <= size))
      /\ obj' = [obj EXCEPT ![o] = e]
      /\ Heap(freed, d.buffer, size, new)
  BY DEF CopyData, Crash, e, new
<1>3. /\ obj'[o].buffer = d.buffer /\ obj'[o].data_length = n /\ obj'[s] = obj[s]
      /\ obj'[o].buffer_size = obj'[s].buffer_size
      /\ obj'[o].read_length = obj'[s].read_length
  BY <1>1, <1>2 DEF TypeOK
<1>4. ASSUME n # 0
      PROVE  /\ d.buffer # NULL /\ obj[s].buffer # NULL
             /\ \A i \in 0..(n - 1) : content'[d.buffer][i] = content'[obj[s].buffer][i]
  <2>1. /\ d.buffer # NULL /\ obj[s].buffer \in Blocks /\ d.buffer \in Blocks
        /\ obj[s].buffer # NULL
    BY <1>0, <1>2, <1>4, HeapAssumption DEF Accessible, Live, State
  <2>2. content'[d.buffer] = new /\ content'[obj[s].buffer] = content[obj[s].buffer]
    BY <1>2, <2>1 DEF Heap
  <2>3. \A i \in 0..(n - 1) : new[i] = content[obj[s].buffer][i]
    BY <1>0, SizeAssumption DEF new, Offsets
  <2> QED BY <2>1, <2>2, <2>3
<1> QED BY <1>0, <1>3, <1>4, EqualIf DEF CopyOf

LEMMA AssignEqual ==
    ASSUME TypeOK, OwnInv, LengthInv, NEW o \in Objects, NEW s \in Objects,
           Assign(o, s), out'.status = "ok", ~fault'
    PROVE  CopyOf(o, s)'
<1> DEFINE t == Target(obj[o])
           d == Resized(t, obj[s].buffer_size)
<1>0. /\ obj[o] \in State /\ obj[s].buffer_size \in Sizes
      /\ o # s /\ obj[s].buffer # NULL =>
             /\ obj[s].buffer \notin Frees(obj[o]) /\ obj[s].buffer # obj[o].buffer
             /\ obj[s].buffer \in Live
  BY DEF TypeOK, State, OwnInv, Unshared, PointersLive, Frees
<1>1. /\ t \in State /\ d \in State /\ Frees(d) = Frees(obj[o])
      /\ t.buffer = obj[o].buffer \/ t.buffer = NULL
  <2>1. t \in State /\ d \in State
    BY <1>0, TargetType
  <2>2. /\ t.buffer = obj[o].buffer \/ t.buffer = NULL
        /\ Frees(t) = Frees(obj[o])
    BY <1>0 DEF Target, Frees, State
  <2> HIDE DEF t
  <2>3. Frees(d) = Frees(t)
    BY <2>1 DEF Resized, Frees, State
  <2> QED BY <2>1, <2>2, <2>3
<1>2. CASE o = s
  BY <1>2 DEF CopyOf, Equal
<1>3. CASE AssignInPlace(o, s)
  <2>1. PICK size, cells : CopyData(o, s, t, {}, size, cells)
    BY <1>3 DEF AssignInPlace
  <2>2. o # s /\ t.buffer_size = obj[s].buffer_size
    BY <1>3 DEF AssignInPlace
  <2> HIDE DEF t
  <2>3. t.buffer # NULL => t.buffer # obj[s].buffer
    BY <1>0, <1>1, <2>2
  <2> QED BY <1>1, <2>1, <2>2, <2>3, CopyDataEqual
<1>4. CASE AssignReallocated(o, s)
  <2>1. PICK b \in Allocation(d) :
           CopyData(o, s, AllocateBuffer(d, b), Frees(d), d.buffer_size, Blank)
    BY <1>4 DEF AssignReallocated
  <2>2. o # s
    BY <1>4 DEF AssignReallocated
  <2>6. d.buffer_size = obj[s].buffer_size
    BY <1>1 DEF Resized, State
  <2> HIDE DEF t, d
  <2> DEFINE e == AllocateBuffer(d, b)
  <2>3. e \in State /\ e.buffer = b /\ e.buffer_size = obj[s].buffer_size
    <3>1. d \in State /\ b \in Blocks \cup {NULL}
      BY <1>1, AllocationType
    <3>2. e \in State /\ e.buffer = b /\ e.buffer_size = d.buffer_size
      BY <3>1, AllocateBufferFields
    <3> QED BY <2>6, <3>2
  <2>4. b # NULL => b # obj[s].buffer
    BY <1>0, <1>1, <2>2 DEF Allocation
  <2>5. CopyData(o, s, e, Frees(d), d.buffer_size, Blank)
    BY <2>1
  <2> HIDE DEF e
  <2> QED BY <1>0, <1>1, <2>2, <2>3, <2>4, <2>5, CopyDataEqual
<1>5. CASE AssignFails(o, s)
  BY <1>5 DEF AssignFails, Throws, Result
<1> QED BY <1>2, <1>3, <1>4, <1>5 DEF Assign

\* A copy or an assignment that returns leaves the target equal to its source
\* (operator==), as large and read as far, whatever else the program has done.
THEOREM CopiesCorrect == Spec => CopiesEqual
<1> DEFINE Eq == \A o, s \in Objects :
              (CopyConstruct(o, s) \/ Assign(o, s)) /\ out'.status = "ok" /\ ~fault'
                  => CopyOf(o, s)'
<1>1. TypeOK /\ OwnInv /\ LengthInv /\ [Next]_vars => [Eq]_vars
  BY CopyConstructEqual, AssignEqual
<1> QED BY <1>1, Invariant, PTL DEF Spec, CopiesEqual

-----------------------------------------------------------------------------

\* What the mapping asks of the caller, beyond Careful: what is stored through
\* operator[] is among the octet strings a caller writes.
Bounded ==
    /\ Careful
    /\ \A x \in Octet : <<x>> \in Values

\* Only an object that exists can have been left behind by an assignment.
TornExist == \A o \in torn : obj[o].alive

SafetyInv == TypeOK /\ OwnInv /\ LengthInv /\ NoFault /\ TornExist

\* What the abstract specification sees of the objects.
value == [o \in Objects |-> ValueOf(o)]

-----------------------------------------------------------------------------
(* The invariant the mapping needs, beside those for safety. *)

\* No object ends, and only o, which exists, may be left behind.
LEMMA TornGrows ==
    ASSUME TypeOK, TornExist, NEW o \in Objects, NEW d, obj' = [obj EXCEPT ![o] = d],
           d.alive, torn' \subseteq torn \cup {o}
    PROVE  TornExist'
BY DEF TypeOK, TornExist

LEMMA TornSame ==
    ASSUME TornExist, UNCHANGED <<obj, torn>>
    PROVE  TornExist'
BY DEF TornExist

LEMMA TornConstruct ==
    ASSUME TypeOK, TornExist, NEW o \in Objects,
           \/ DefaultConstruct(o)
           \/ \E n \in Sizes : SizeConstruct(o, n)
           \/ \E q \in Blocks \cup {NULL}, n, length \in Sizes :
                PointerConstruct(o, q, n, length)
           \/ \E v \in Values, n \in Sizes : OctetStringConstruct(o, v, n)
           \/ \E s \in Objects : CopyConstruct(o, s)
           \/ TakeBufferOwnership(o)
           \/ \E q \in Blocks \cup {NULL}, n, length \in Sizes, take \in BOOLEAN :
                SetBuffer(o, q, n, length, take)
    PROVE  TornExist'
<1>1. \A q, owns, size, data, read : Object(q, owns, size, data, read).alive
  BY DEF Object
<1>2. ASSUME NEW op, NEW size \in Sizes, NEW data \in Sizes, NEW read \in Sizes,
             NEW b \in Allocation(Object(NULL, FALSE, size, data, read)), NEW cells,
             Build(op, o, Object(NULL, FALSE, size, data, read), b, cells)
      PROVE  TornExist'
  <2> DEFINE d == Object(NULL, FALSE, size, data, read)
  <2>1. d \in State /\ d.alive
    BY <1>1, ObjectType
  <2> HIDE DEF d
  <2>2. AllocateBuffer(d, b).alive
    BY <2>1, <1>2, AllocationType, AllocateBufferFields DEF d
  <2>3. \/ UNCHANGED <<obj, torn>>
        \/ obj' = [obj EXCEPT ![o] = AllocateBuffer(d, b)] /\ UNCHANGED torn
    BY <1>2 DEF Build, Refused, d
  <2> QED BY <2>2, <2>3, TornSame, TornGrows
<1>3. CASE DefaultConstruct(o) \/ TakeBufferOwnership(o)
  <2>1. obj' = [obj EXCEPT ![o] = Default] /\ torn' \subseteq torn \cup {o}
    BY <1>3 DEF DefaultConstruct, TakeBufferOwnership
  <2> QED BY <1>1, <2>1, TornGrows DEF Default
<1>4. ASSUME NEW n \in Sizes, SizeConstruct(o, n) PROVE TornExist'
  BY <1>2, <1>4, ZeroSize DEF SizeConstruct
<1>5. ASSUME NEW q, NEW n, NEW length, NEW take,
             \/ PointerConstruct(o, q, n, length)
             \/ SetBuffer(o, q, n, length, take)
      PROVE  TornExist'
  <2>1. \/ UNCHANGED <<obj, torn>>
        \/ \E owns : /\ obj' = [obj EXCEPT ![o] = Object(q, owns, n, length, 0)]
                     /\ torn' \subseteq torn \cup {o}
    BY <1>5 DEF PointerConstruct, SetBuffer, Refused, Crash
  <2> QED BY <1>1, <2>1, TornSame, TornGrows
<1>6. ASSUME NEW v \in Values, NEW n \in Sizes, OctetStringConstruct(o, v, n)
      PROVE  TornExist'
  <2> DEFINE size == IF n > 0 THEN n ELSE Len(v)
  <2>1. CASE Refused("FromOctets", o, 0)
    BY <2>1, TornSame DEF Refused
  <2>2. CASE ~Refused("FromOctets", o, 0)
    <3>1. size <= MaxSize /\ ~(Len(v) > size)
      BY <1>6, <2>2 DEF OctetStringConstruct
    <3>2. size \in Sizes /\ Len(v) \in Sizes
      BY <3>1, SizeAssumption, InputAssumption DEF Sizes
    <3>3. \E b \in Allocation(Object(NULL, FALSE, size, Len(v), 0)) :
             Build("FromOctets", o, Object(NULL, FALSE, size, Len(v), 0), b,
                   Stored(Blank, 0, v))
      BY <1>6, <2>2 DEF OctetStringConstruct
    <3> HIDE DEF size
    <3> QED BY <1>2, <3>2, <3>3, ZeroSize
  <2> QED BY <2>1, <2>2
<1>7. ASSUME NEW s \in Objects, CopyConstruct(o, s) PROVE TornExist'
  <2>1. CASE Crash
    BY <2>1, TornSame DEF Crash
  <2>2. CASE ~Crash
    <3>1. /\ obj[s].buffer_size \in Sizes /\ obj[s].data_length \in Sizes
          /\ obj[s].read_length \in Sizes
      BY DEF TypeOK, State
    <3> QED BY <1>2, <1>7, <2>2, <3>1 DEF CopyConstruct
  <2> QED BY <2>1, <2>2
<1> QED BY <1>3, <1>4, <1>5, <1>6, <1>7

LEMMA TornMove ==
    ASSUME TypeOK, TornExist, NEW o \in Objects, NEW s \in Objects, MoveConstruct(o, s)
    PROVE  TornExist'
<1>1. obj[s].alive /\ Default.alive
  BY DEF MoveConstruct, Usable, Exists, Default, Object
<1>2. /\ \A r \in Objects : obj[r].alive => obj'[r].alive
      /\ obj'[o].alive
  BY <1>1 DEF MoveConstruct, MovedFrom, TypeOK
<1>3. torn' \subseteq torn \cup {o}
  BY DEF MoveConstruct
<1> QED BY <1>2, <1>3 DEF TornExist, TypeOK

LEMMA TornAssign ==
    ASSUME TypeOK, TornExist, NEW o \in Objects, NEW s \in Objects, Assign(o, s)
    PROVE  TornExist'
<1> DEFINE t == Target(obj[o])
           d == Resized(t, obj[s].buffer_size)
<1>0. /\ obj[o] \in State /\ obj[s].buffer_size \in Sizes /\ Exists(o)
  BY DEF TypeOK, State, Assign, AssignSelf, AssignInPlace, AssignReallocated, AssignFails,
         Usable
<1>1. t \in State /\ t.alive /\ d \in State /\ d.alive
  BY <1>0, ExistsIsAlive, TargetFields
<1>2. ASSUME NEW e \in State, e.alive, NEW freed, NEW size, NEW cells,
             CopyData(o, s, e, freed, size, cells)
      PROVE  TornExist'
  <2> DEFINE f == [e EXCEPT !.data_length = obj[s].data_length,
                            !.read_length = obj[s].read_length]
  <2>1. f.alive
    BY <1>2 DEF State
  <2>2. \/ UNCHANGED <<obj, torn>>
        \/ obj' = [obj EXCEPT ![o] = f] /\ torn' \subseteq torn \cup {o}
    BY <1>2 DEF CopyData, Crash
  <2> HIDE DEF f
  <2> QED BY <2>1, <2>2, TornSame, TornGrows
<1>3. CASE AssignSelf(o)
  BY <1>3, TornSame DEF AssignSelf
<1>4. CASE AssignInPlace(o, s)
  BY <1>1, <1>2, <1>4 DEF AssignInPlace
<1>5. CASE AssignReallocated(o, s) \/ AssignFails(o, s)
  <2>1. \A b \in Allocation(d) : AllocateBuffer(d, b) \in State /\ AllocateBuffer(d, b).alive
    BY <1>1, AllocationType, AllocateBufferFields
  <2>2. CASE AssignReallocated(o, s)
    BY <1>2, <2>1, <2>2 DEF AssignReallocated
  <2>3. CASE AssignFails(o, s)
    <3>1. obj' = [obj EXCEPT ![o] = AllocateBuffer(d, NULL)] /\ torn' \subseteq torn \cup {o}
      BY <2>3 DEF AssignFails
    <3>2. NULL \in Allocation(d)
      BY DEF Allocation
    <3> HIDE DEF d
    <3> QED BY <2>1, <3>1, <3>2, TornGrows
  <2> QED BY <1>5, <2>2, <2>3
<1> QED BY <1>3, <1>4, <1>5 DEF Assign

LEMMA TornLengths ==
    ASSUME TypeOK, TornExist, NEW o \in Objects,
           \/ \E n \in Sizes : SetDataLength(o, n)
           \/ ResetReadLength(o)
           \/ \E n \in Counts : AdvanceReadLength(o, n)
           \/ \E n \in Counts : ReadValue(o, n)
           \/ \E n \in Counts : ReadString(o, n)
           \/ \E i, n \in Counts : GetValue(o, i, n)
           \/ \E i \in Counts, x \in Octet : WriteOctet(o, i, x)
           \/ \E i \in Counts, v \in Values : SetValue(o, i, v)
           \/ \E i \in Counts, high, low \in Values : SetValue64(o, i, high, low)
           \/ \E v \in Values : AppendValue(o, v)
    PROVE  TornExist'
<1>0. obj[o] \in State
  BY DEF TypeOK
<1>1. \/ UNCHANGED obj
      \/ \E d : obj' = [obj EXCEPT ![o] = d] /\ d.alive = obj[o].alive
  <2>1. \A n : /\ WithDataLength(obj[o], n).alive = obj[o].alive
               /\ Advanced(obj[o], n).alive = obj[o].alive
    BY <1>0 DEF WithDataLength, Advanced, State
  <2>2. \A n : /\ [obj[o] EXCEPT !.read_length = n].alive = obj[o].alive
               /\ [obj[o] EXCEPT !.data_length = n].alive = obj[o].alive
    BY <1>0 DEF State
  <2>3. CASE ResetReadLength(o)
    BY <2>2, <2>3 DEF ResetReadLength
  <2>4. ASSUME NEW v \in Values, AppendValue(o, v)
        PROVE  \/ UNCHANGED obj
               \/ \E d : obj' = [obj EXCEPT ![o] = d] /\ d.alive = obj[o].alive
    BY <2>2, <2>4 DEF AppendValue, Refused, Crash
  <2>5. ASSUME NEW n, SetDataLength(o, n) \/ AdvanceReadLength(o, n) \/ ReadValue(o, n)
                        \/ ReadString(o, n)
        PROVE  \/ UNCHANGED obj
               \/ \E d : obj' = [obj EXCEPT ![o] = d] /\ d.alive = obj[o].alive
    BY <2>1, <2>5 DEF SetDataLength, AdvanceReadLength, ReadValue, ReadString, Refused, Crash
  <2>6. CASE \/ \E i, n \in Counts : GetValue(o, i, n)
             \/ \E i \in Counts, x \in Octet : WriteOctet(o, i, x)
             \/ \E i \in Counts, v \in Values : SetValue(o, i, v)
             \/ \E i \in Counts, high, low \in Values : SetValue64(o, i, high, low)
    BY <2>6 DEF GetValue, WriteOctet, SetValue, SetValue64, Refused, Crash
  <2> QED BY <2>3, <2>4, <2>5, <2>6
<1>2. UNCHANGED torn
  BY DEF SetDataLength, ResetReadLength, AdvanceReadLength, ReadValue, ReadString, GetValue,
         WriteOctet, SetValue, SetValue64, AppendValue, Refused, Crash
<1> QED BY <1>1, <1>2 DEF TornExist, TypeOK

LEMMA TornStep == TypeOK /\ TornExist /\ [Next]_vars => TornExist'
<1> SUFFICES ASSUME TypeOK, TornExist, [Next]_vars PROVE TornExist'
  OBVIOUS
<1>1. CASE UNCHANGED vars
  BY <1>1, TornSame DEF vars
<1>2. ASSUME NEW b \in Blocks,
             \/ \E n \in Sizes, x \in Octet : CallerAllocate(b, n, x)
             \/ CallerFree(b)
      PROVE  TornExist'
  BY <1>2, TornSame DEF CallerAllocate, CallerFree
<1>3. ASSUME NEW o \in Objects, Destroy(o) PROVE TornExist'
  <2>1. \/ UNCHANGED <<obj, torn>>
        \/ obj' = [obj EXCEPT ![o] = Dead] /\ torn' = torn \ {o}
    BY <1>3 DEF Destroy, Crash
  <2> QED BY <2>1, TornSame DEF TornExist, TypeOK
<1>4. CASE Next
  BY <1>2, <1>3, <1>4, TornConstruct, TornMove, TornAssign, TornLengths DEF Next
<1> QED BY <1>1, <1>4

LEMMA SafetyInvariant == ASSUME Careful PROVE Spec => []SafetyInv
<1>1. Init => TornExist
  BY DEF Init, TornExist
<1> QED BY <1>1, TornStep, Invariant, NeverFaults, PTL DEF Spec, SafetyInv

-----------------------------------------------------------------------------
(* Values. *)

\* A value with cells c, of which n are in use and r have been read.
Holding(c, n, r) == [kind |-> "known", cells |-> c, data |-> n, read |-> r]

\* The value of an object with fields d whose block holds cells.
CellsIn(d, cells) == [i \in 0..(d.buffer_size - 1) |-> cells[i]]
Image(d, cells)   == Holding(CellsIn(d, cells), d.data_length, d.read_length)

LEMMA HoldingFields ==
    ASSUME NEW c, NEW n, NEW r
    PROVE  /\ Holding(c, n, r).kind = "known" /\ Holding(c, n, r).cells = c
           /\ Holding(c, n, r).data = n /\ Holding(c, n, r).read = r
BY DEF Holding

LEMMA KnownImage ==
    ASSUME NEW o \in Objects, obj[o].alive, o \notin torn
    PROVE  ValueOf(o) = Image(obj[o], content[obj[o].buffer])
BY DEF ValueOf, Image, Holding, CellsIn

LEMMA BecomesKnown ==
    ASSUME NEW o \in Objects, NEW d, obj'[o] = d, d.alive, o \notin torn'
    PROVE  ValueOf(o)' = Image(d, content'[d.buffer])
BY DEF ValueOf, Image, Holding, CellsIn

\* The cells of a value tell its size.
LEMMA SameInterval ==
    ASSUME NEW m \in Nat, NEW n \in Nat, 0..(m - 1) = 0..(n - 1)
    PROVE  m = n
<1>1. CASE m < n
  <2>1. m \in 0..(n - 1) /\ m \notin 0..(m - 1)
    BY <1>1
  <2> QED BY <2>1
<1>2. CASE n < m
  <2>1. n \in 0..(m - 1) /\ n \notin 0..(n - 1)
    BY <1>2
  <2> QED BY <2>1
<1> QED BY <1>1, <1>2

LEMMA ImageFields ==
    ASSUME NEW d, NEW cells
    PROVE  /\ Image(d, cells).kind = "known"
           /\ Image(d, cells).data = d.data_length
           /\ Image(d, cells).read = d.read_length
           /\ Image(d, cells).cells = CellsIn(d, cells)
BY HoldingFields DEF Image

LEMMA ImageSize ==
    ASSUME NEW d \in State, NEW cells
    PROVE  Abstract!Size(Image(d, cells)) = d.buffer_size
<1> DEFINE n == d.buffer_size
           v == Image(d, cells)
<1>1. n \in Abstract!Sizes /\ n \in Nat /\ Abstract!Sizes \subseteq Nat
  BY SizeAssumption DEF State, Sizes, Abstract!Sizes
<1>2. DOMAIN v.cells = 0..(n - 1)
  BY ImageFields DEF CellsIn
<1> HIDE DEF n, v
<1>3. /\ Abstract!Size(v) \in Abstract!Sizes
      /\ DOMAIN v.cells = 0..(Abstract!Size(v) - 1)
  BY <1>1, <1>2 DEF Abstract!Size
<1>4. Abstract!Size(v) = n
  BY <1>1, <1>2, <1>3, SameInterval
<1> QED BY <1>4 DEF n, v

LEMMA ImageValue ==
    ASSUME NEW d \in State, NEW cells,
           d.read_length <= d.data_length,
           d.buffer_size = 0 \/ cells \in [Offsets -> Cell]
    PROVE  Image(d, cells) \in Abstract!Value
<1> DEFINE n == d.buffer_size
           c == [i \in 0..(n - 1) |-> cells[i]]
<1>1. /\ n \in Sizes /\ n \in Nat /\ n <= MaxSize /\ d.data_length \in Sizes
      /\ d.read_length \in Sizes /\ d.data_length <= MaxSize
  BY SizeAssumption DEF State, Sizes
<1>2. ASSUME NEW i \in 0..(n - 1) PROVE cells[i] \in Cell
  <2>1. i \in Offsets /\ n # 0
    BY <1>1, SizeAssumption DEF Offsets
  <2> QED BY <2>1
<1>3. c \in [0..(n - 1) -> Cell]
  BY <1>2
<1> HIDE DEF c
<1>4. c \in Abstract!Cells
  BY <1>1, <1>3 DEF Sizes, Abstract!Cells, Abstract!Sizes
<1>5. Image(d, cells) = [kind |-> "known", cells |-> c, data |-> d.data_length,
                         read |-> d.read_length]
  BY DEF Image, Holding, CellsIn, c
<1> QED BY <1>1, <1>4, <1>5 DEF Sizes, Abstract!Value, Abstract!Sizes

-----------------------------------------------------------------------------
(* What a step leaves alone. *)

\* Every live block but that of o keeps its cells.
KeepsOthers(o) ==
    \A x \in Live : x # obj[o].buffer => content'[x] = content[x]

LEMMA SameContent ==
    ASSUME NEW o \in Objects, UNCHANGED content
    PROVE  KeepsOthers(o)
BY DEF KeepsOthers

LEMMA HeapKeeps ==
    ASSUME NEW o \in Objects, NEW freed, NEW b, NEW n, NEW cells,
           Heap(freed, b, n, cells),
           \A x \in freed : x = obj[o].buffer,
           b \in Live => b = obj[o].buffer
    PROVE  KeepsOthers(o)
BY DEF KeepsOthers, Heap, Live

LEMMA ValueKept ==
    ASSUME Careful, SafetyInv, NEW o \in Objects, obj'[o] = obj[o],
           o \in torn' <=> o \in torn,
           obj[o].buffer # NULL => content'[obj[o].buffer] = content[obj[o].buffer]
    PROVE  ValueOf(o)' = ValueOf(o)
<1>1. CASE obj[o].alive /\ o \notin torn
  <2> DEFINE d == obj[o]
  <2>1. ValueOf(o) = Image(d, content[d.buffer]) /\ ValueOf(o)' = Image(d, content'[d.buffer])
    BY <1>1, KnownImage, BecomesKnown
  <2>2. CASE d.buffer # NULL
    BY <2>1, <2>2
  <2>3. CASE d.buffer = NULL
    <3>1. d.buffer_size = 0
      BY <1>1, <2>3 DEF SafetyInv, LengthInv, Backed, Careful
    <3>2. \A i \in 0..(d.buffer_size - 1) : FALSE
      BY <3>1
    <3>3. CellsIn(d, content'[d.buffer]) = CellsIn(d, content[d.buffer])
      BY <3>2 DEF CellsIn
    <3> QED BY <2>1, <3>3 DEF Image
  <2> QED BY <2>2, <2>3
<1>2. CASE ~(obj[o].alive /\ o \notin torn)
  BY <1>2 DEF ValueOf
<1> QED BY <1>1, <1>2

\* No value but that of o changes.
LEMMA OthersKept ==
    ASSUME Careful, SafetyInv, NEW o \in Objects, KeepsOthers(o),
           \A s \in Objects \ {o} : obj'[s] = obj[s] /\ (s \in torn' <=> s \in torn)
    PROVE  \A s \in Objects \ {o} : ValueOf(s)' = ValueOf(s)
<1> SUFFICES ASSUME NEW s \in Objects \ {o} PROVE ValueOf(s)' = ValueOf(s)
  OBVIOUS
<1>1. obj[s].buffer # NULL => content'[obj[s].buffer] = content[obj[s].buffer]
  BY DEF KeepsOthers, SafetyInv, OwnInv, Unshared, PointersLive
<1> QED BY <1>1, ValueKept

LEMMA AllKept ==
    ASSUME Careful, SafetyInv, NEW o \in Objects, UNCHANGED <<obj, torn, content>>
    PROVE  \A s \in Objects : ValueOf(s)' = ValueOf(s)
BY DEF ValueOf

\* A step of the abstract specification.
LEMMA StepOfOne ==
    ASSUME NEW o \in Objects, out'.self = o,
           \A s \in Objects \ {o} : ValueOf(s)' = ValueOf(s),
           Abstract!OwnStep(o)
    PROVE  Abstract!Next
<1>1. Abstract!Only({o})
  BY DEF Abstract!Only
<1> QED BY <1>1 DEF Abstract!Next

LEMMA CallerRefines ==
    ASSUME Careful, SafetyInv, NEW b \in Blocks,
           \/ \E n \in Sizes, x \in Octet : CallerAllocate(b, n, x)
           \/ CallerFree(b)
    PROVE  Abstract!Next
<1>1. /\ UNCHANGED <<obj, torn>> /\ Returns("Caller", NULL, 0)
      /\ \A x \in Live : x # b => content'[x] = content[x]
  BY HeapAssumption DEF CallerAllocate, CallerFree, Heap, Live
<1>2. \A o \in Objects : obj[o].buffer # NULL =>
         obj[o].buffer \in Live /\ obj[o].buffer # b
  <2> SUFFICES ASSUME NEW o \in Objects, obj[o].buffer # NULL
               PROVE  obj[o].buffer \in Live /\ obj[o].buffer # b
    OBVIOUS
  <2>1. obj[o].buffer \in Live
    BY DEF SafetyInv, OwnInv, PointersLive
  <2>2. CASE b \notin Live
    BY <2>1, <2>2
  <2>3. CASE LentTo(b) = {}
    <3>1. obj[o].alive
      BY DeadFields DEF SafetyInv, OwnInv, DeadHoldNothing, TypeOK, State
    <3> QED BY <2>1, <2>3, <3>1 DEF LentTo
  <2> QED BY <2>2, <2>3 DEF CallerAllocate, CallerFree
<1>3. \A o \in Objects : ValueOf(o)' = ValueOf(o)
  BY <1>1, <1>2, ValueKept
<1>4. Abstract!Elsewhere
  BY <1>1, <1>3 DEF Returns, Gives, Result, Abstract!Elsewhere, Abstract!Ok, Abstract!Gives
<1> QED BY <1>4 DEF Abstract!Next

\* A call that throws before it has changed anything, when it may.
LEMMA RefusedRefines ==
    ASSUME Careful, SafetyInv, NEW op, NEW o \in Objects, NEW n, Refused(op, o, n),
           \/ op \in {"Construct", "FromOctets", "Copy", "SetBuffer"}
           \/ /\ obj[o].alive /\ o \notin torn
              /\ \/ op \in {"SetDataLength", "Store"} /\ n > obj[o].buffer_size
                 \/ /\ op \in {"Advance", "Read"}
                    /\ n > obj[o].data_length - obj[o].read_length
                 \/ op = "Append" /\ n > obj[o].buffer_size - obj[o].data_length
                 \/ op = "Get" /\ n > obj[o].data_length
    PROVE  Abstract!Next
<1> DEFINE v == Image(obj[o], content[obj[o].buffer])
<1>0. obj[o] \in State
  BY DEF SafetyInv, TypeOK
<1>1. /\ \A s \in Objects : ValueOf(s)' = ValueOf(s)
      /\ out'.self = o /\ out'.n = n
      /\ Abstract!Threw(op, o, n)
  BY AllKept DEF Refused, Throws, Result, Abstract!Threw
<1>2. CASE op \in {"Construct", "FromOctets", "Copy", "SetBuffer"}
  <2>1. Abstract!Refuse(o, n)
    BY <1>1, <1>2 DEF Abstract!Refuse
  <2> QED BY <1>1, <2>1, StepOfOne DEF Abstract!OwnStep
<1>3. CASE op \notin {"Construct", "FromOctets", "Copy", "SetBuffer"}
  <2>1. ValueOf(o) = v
    BY <1>3, KnownImage
  <2>2. Abstract!Size(v) = obj[o].buffer_size
    BY <1>0, ImageSize
  <2>3. v.kind = "known" /\ v.data = obj[o].data_length /\ v.read = obj[o].read_length
    BY DEF Image, Holding
  <2> HIDE DEF v
  <2>4. Abstract!Left(v) = obj[o].data_length - obj[o].read_length
    BY <2>3 DEF Abstract!Left
  <2>5. Abstract!Refuse(o, n)
    BY <1>1, <1>3, <2>1, <2>2, <2>3, <2>4 DEF Abstract!Refuse, Abstract!Known
  <2> QED BY <1>1, <2>5, StepOfOne DEF Abstract!OwnStep
<1> QED BY <1>2, <1>3

-----------------------------------------------------------------------------
(* The lengths and the position: the cells stay. *)

\* o keeps its block, its size and its cells, and gets the lengths of d.
LEMMA LengthsImage ==
    ASSUME Careful, SafetyInv, NEW o \in Objects, Usable(o), NEW d \in State,
           d.alive, d.buffer = obj[o].buffer, d.buffer_size = obj[o].buffer_size,
           obj' = [obj EXCEPT ![o] = d], UNCHANGED <<content, torn>>
    PROVE  /\ \A s \in Objects \ {o} : ValueOf(s)' = ValueOf(s)
           /\ value[o] = Image(obj[o], content[obj[o].buffer])
           /\ value'[o] = Image(d, content[obj[o].buffer])
           /\ CellsIn(d, content[obj[o].buffer]) = CellsIn(obj[o], content[obj[o].buffer])
<1>0. /\ o \notin torn /\ obj[o].alive /\ obj[o] \in State /\ obj'[o] = d
      /\ \A s \in Objects \ {o} : obj'[s] = obj[s]
  BY DEF Careful, Usable, Exists, SafetyInv, TypeOK
<1>1. \A s \in Objects \ {o} : ValueOf(s)' = ValueOf(s)
  BY <1>0, SameContent, OthersKept
<1>2. /\ ValueOf(o) = Image(obj[o], content[obj[o].buffer])
      /\ ValueOf(o)' = Image(d, content[obj[o].buffer])
  BY <1>0, KnownImage, BecomesKnown
<1>3. CellsIn(d, content[obj[o].buffer]) = CellsIn(obj[o], content[obj[o].buffer])
  BY DEF CellsIn
<1> QED BY <1>1, <1>2, <1>3 DEF value

LEMMA UsableFields ==
    ASSUME Careful, SafetyInv, NEW o \in Objects, Usable(o)
    PROVE  /\ obj[o] \in State /\ obj[o].alive /\ o \notin torn
           /\ obj[o].buffer_size \in Nat /\ obj[o].data_length \in Nat
           /\ obj[o].read_length \in Nat
           /\ obj[o].read_length <= obj[o].data_length
           /\ obj[o].data_length <= obj[o].buffer_size
           /\ obj[o].buffer_size <= MaxSize
           /\ obj[o].buffer = NULL => obj[o].buffer_size = 0
           /\ value[o] = Image(obj[o], content[obj[o].buffer])
           /\ Abstract!Known(o)
<1>1. obj[o].alive /\ o \notin torn /\ Fits(obj[o]) /\ Backed(obj[o])
  BY DEF Usable, Exists, Careful, SafetyInv, LengthInv
<1>2. /\ obj[o] \in State /\ obj[o].buffer_size \in Nat /\ obj[o].data_length \in Nat
      /\ obj[o].read_length \in Nat /\ obj[o].buffer_size <= MaxSize
  BY SizeAssumption DEF SafetyInv, TypeOK, State, Sizes
<1>3. value[o] = Image(obj[o], content[obj[o].buffer])
  BY <1>1, KnownImage DEF value
<1>4. Abstract!Known(o)
  BY <1>3, ImageFields DEF Abstract!Known, value
<1> QED BY <1>1, <1>2, <1>3, <1>4 DEF Fits, Backed

LEMMA SetDataLengthRefines ==
    ASSUME Careful, SafetyInv, NEW o \in Objects, NEW n \in Sizes, SetDataLength(o, n)
    PROVE  Abstract!Next
<1> DEFINE d == WithDataLength(obj[o], n)
           r == obj[o].read_length
           c == CellsIn(obj[o], content[obj[o].buffer])
<1>0. n \in Nat /\ Usable(o)
  BY SizeAssumption DEF SetDataLength, Sizes
<1>1. CASE Refused("SetDataLength", o, n)
  <2>1. n > obj[o].buffer_size
    BY <1>0, <1>1, UsableFields
       DEF SetDataLength, Refused, Throws, Returns, Gives, Result
  <2> QED BY <1>0, <1>1, <2>1, UsableFields, RefusedRefines
<1>2. CASE /\ ~(n > obj[o].buffer_size) /\ obj' = [obj EXCEPT ![o] = d]
           /\ Returns("SetDataLength", o, n) /\ UNCHANGED <<content, torn>>
  <2>1. /\ d.alive /\ d.buffer = obj[o].buffer /\ d.buffer_size = obj[o].buffer_size
        /\ d.data_length = n /\ d.read_length = Minimum(n, r)
    BY <1>0, UsableFields DEF WithDataLength, State
  <2>2. d \in State
    BY <1>0, <2>1, UsableFields, SizeAssumption DEF WithDataLength, Minimum, State, Sizes
  <2> HIDE DEF d
  <2>3. /\ \A s \in Objects \ {o} : ValueOf(s)' = ValueOf(s)
        /\ value[o] = Holding(c, obj[o].data_length, r)
        /\ value'[o] = Holding(c, n, Minimum(n, r))
    BY <1>0, <1>2, <2>1, <2>2, LengthsImage DEF Image
  <2>4. value'[o] = [value[o] EXCEPT !.data = n, !.read = IF n < @ THEN n ELSE @]
    <3> DEFINE w == [value[o] EXCEPT !.data = n]
    <3> HIDE DEF c, r
    <3>1. w = Holding(c, n, r)
      BY <2>3, SMTT(30) DEF Holding
    <3> HIDE DEF w
    <3>2. [w EXCEPT !.read = IF n < @ THEN n ELSE @] = Holding(c, n, Minimum(n, r))
      BY <3>1, SMTT(30) DEF Holding, Minimum
    <3> QED BY <2>3, <3>2 DEF w
  <2>5. n <= Abstract!Size(value[o])
    BY <1>0, <1>2, UsableFields, ImageSize
  <2>6. Abstract!Ok("SetDataLength", o, n) /\ out'.self = o /\ out'.n = n
    BY <1>2 DEF Abstract!Ok, Abstract!Gives, Returns, Gives, Result
  <2>7. Abstract!SetDataLength(o, n)
    BY <1>0, <2>4, <2>5, <2>6, UsableFields DEF Abstract!SetDataLength, value
  <2> QED BY <2>3, <2>6, <2>7, StepOfOne DEF Abstract!OwnStep
<1> QED BY <1>1, <1>2 DEF SetDataLength

\* Only the position of o changes, to r.
LEMMA PositionImage ==
    ASSUME Careful, SafetyInv, NEW o \in Objects, Usable(o), NEW r \in Sizes,
           obj' = [obj EXCEPT ![o] = [obj[o] EXCEPT !.read_length = r]],
           UNCHANGED <<content, torn>>
    PROVE  /\ \A s \in Objects \ {o} : ValueOf(s)' = ValueOf(s)
           /\ value[o].data = obj[o].data_length
           /\ value[o].read = obj[o].read_length
           /\ value'[o] = [value[o] EXCEPT !.read = r]
<1> DEFINE d == [obj[o] EXCEPT !.read_length = r]
           c == CellsIn(obj[o], content[obj[o].buffer])
<1>1. /\ d \in State /\ d.alive
      /\ d.buffer = obj[o].buffer /\ d.buffer_size = obj[o].buffer_size
      /\ d.data_length = obj[o].data_length /\ d.read_length = r
  BY UsableFields DEF State
<1>2. obj' = [obj EXCEPT ![o] = d]
  OBVIOUS
<1> HIDE DEF d
<1>3. /\ \A s \in Objects \ {o} : ValueOf(s)' = ValueOf(s)
      /\ value[o] = Image(obj[o], content[obj[o].buffer])
      /\ value'[o] = Image(d, content[obj[o].buffer])
      /\ CellsIn(d, content[obj[o].buffer]) = c
  BY <1>1, <1>2, LengthsImage
<1>4. /\ value[o] = Holding(c, obj[o].data_length, obj[o].read_length)
      /\ value'[o] = Holding(c, obj[o].data_length, r)
  BY <1>1, <1>3 DEF Image
<1> HIDE DEF c
<1>5. [value[o] EXCEPT !.read = r] = Holding(c, obj[o].data_length, r)
  BY <1>4, SMTT(30) DEF Holding
<1> QED BY <1>3, <1>4, <1>5, HoldingFields

LEMMA ResetRefines ==
    ASSUME Careful, SafetyInv, NEW o \in Objects, ResetReadLength(o)
    PROVE  Abstract!Next
<1>1. Usable(o) /\ 0 \in Sizes /\ UNCHANGED <<content, torn>>
  BY ZeroSize DEF ResetReadLength
<1>2. obj' = [obj EXCEPT ![o] = [obj[o] EXCEPT !.read_length = 0]]
  BY DEF ResetReadLength
<1>3. /\ \A s \in Objects \ {o} : ValueOf(s)' = ValueOf(s)
      /\ value'[o] = [value[o] EXCEPT !.read = 0]
  BY <1>1, <1>2, PositionImage
<1>4. Abstract!Ok("Reset", o, 0) /\ out'.self = o
  BY DEF ResetReadLength, Abstract!Ok, Abstract!Gives, Returns, Gives, Result
<1>5. Abstract!Rewind(o)
  BY <1>1, <1>3, <1>4, UsableFields DEF Abstract!Rewind, value
<1> QED BY <1>3, <1>4, <1>5, StepOfOne DEF Abstract!OwnStep

\* n more octets have been read, and there were that many.
LEMMA AdvancedImage ==
    ASSUME Careful, SafetyInv, NEW o \in Objects, Usable(o), NEW n \in Nat,
           n + MaxSize < SizeModulus, n > 0 => ~BeyondData(obj[o], n),
           obj' = [obj EXCEPT ![o] = Advanced(obj[o], n)],
           UNCHANGED <<content, torn>>
    PROVE  /\ \A s \in Objects \ {o} : ValueOf(s)' = ValueOf(s)
           /\ n <= Abstract!Left(value[o])
           /\ value[o].read = obj[o].read_length
           /\ value'[o] = [value[o] EXCEPT !.read = @ + n]
<1> DEFINE r == obj[o].read_length
<1>0. /\ r \in Nat /\ MaxSize \in Nat /\ r <= obj[o].data_length
      /\ obj[o].data_length \in Nat /\ obj[o].data_length <= MaxSize
  BY UsableFields, SizeAssumption
<1>1. Plus(r, n) = r + n
  BY <1>0, SizeAssumption, PlusIsSum
<1>2. r + n <= obj[o].data_length
  BY <1>0, <1>1 DEF BeyondData
<1>3. r + n \in Sizes
  BY <1>0, <1>2, SizeAssumption DEF Sizes
<1>4. obj' = [obj EXCEPT ![o] = [obj[o] EXCEPT !.read_length = r + n]]
  BY <1>1 DEF Advanced
<1>5. /\ \A s \in Objects \ {o} : ValueOf(s)' = ValueOf(s)
      /\ value[o].data = obj[o].data_length /\ value[o].read = r
      /\ value'[o] = [value[o] EXCEPT !.read = r + n]
  BY <1>3, <1>4, PositionImage
<1>6. n <= Abstract!Left(value[o])
  BY <1>0, <1>2, <1>5 DEF Abstract!Left
<1> QED BY <1>5, <1>6

LEMMA BeyondDataMeans ==
    ASSUME Careful, SafetyInv, NEW o \in Objects, Usable(o), NEW n \in Nat,
           n + MaxSize < SizeModulus, BeyondData(obj[o], n)
    PROVE  n > obj[o].data_length - obj[o].read_length
<1>1. Plus(obj[o].read_length, n) = obj[o].read_length + n
  BY UsableFields, SizeAssumption, PlusIsSum
<1> QED BY <1>1, UsableFields DEF BeyondData

LEMMA AdvanceRefines ==
    ASSUME Bounded, SafetyInv, NEW o \in Objects, NEW n \in Counts, AdvanceReadLength(o, n)
    PROVE  Abstract!Next
<1>0. Careful /\ Usable(o) /\ n \in Nat /\ n + MaxSize < SizeModulus
  BY InputAssumption, SizeAssumption DEF Bounded, Careful, NoSumWraps, AdvanceReadLength
<1>1. CASE BeyondData(obj[o], n)
  <2>1. Refused("Advance", o, n)
    BY <1>1 DEF AdvanceReadLength
  <2> QED BY <1>0, <1>1, <2>1, BeyondDataMeans, UsableFields, RefusedRefines
<1>2. CASE ~BeyondData(obj[o], n)
  <2>1. obj' = [obj EXCEPT ![o] = Advanced(obj[o], n)] /\ UNCHANGED <<content, torn>>
    BY <1>2 DEF AdvanceReadLength
  <2>2. /\ \A s \in Objects \ {o} : ValueOf(s)' = ValueOf(s)
        /\ n <= Abstract!Left(value[o])
        /\ value'[o] = [value[o] EXCEPT !.read = @ + n]
    BY <1>0, <1>2, <2>1, AdvancedImage
  <2>3. Abstract!Ok("Advance", o, n) /\ out'.self = o /\ out'.n = n
    BY <1>2 DEF AdvanceReadLength, Abstract!Ok, Abstract!Gives, Returns, Gives, Result
  <2>4. Abstract!Skip(o, n)
    BY <1>0, <2>2, <2>3, UsableFields DEF Abstract!Skip, value
  <2> QED BY <2>2, <2>3, <2>4, StepOfOne DEF Abstract!OwnStep
<1> QED BY <1>1, <1>2

-----------------------------------------------------------------------------
(* Reading. *)

\* The octets a caller receives are those of the value.
LEMMA SliceIsOctets ==
    ASSUME NEW d \in State, NEW p, NEW i \in Nat, NEW n \in Nat, i + n <= d.buffer_size
    PROVE  Abstract!Slice(Image(d, content[p]), i, n) = Octets(p, i, n)
<1>0. d.buffer_size \in Nat
  BY SizeAssumption DEF State, Sizes
<1>1. ASSUME NEW j \in 1..n
      PROVE  Image(d, content[p]).cells[i + j - 1] = content[p][i + j - 1]
  <2>1. i + j - 1 \in 0..(d.buffer_size - 1)
    BY <1>0
  <2>2. CellsIn(d, content[p])[i + j - 1] = content[p][i + j - 1]
    BY <2>1 DEF CellsIn
  <2> QED BY <2>2, ImageFields
<1> QED BY <1>1 DEF Abstract!Slice, Octets

LEMMA EmptySlice ==
    ASSUME NEW v, NEW i
    PROVE  Abstract!Slice(v, i, 0) = <<>>
<1>1. 1..0 = {}
  OBVIOUS
<1> QED BY <1>1 DEF Abstract!Slice

LEMMA ReadRefines ==
    ASSUME Careful, SafetyInv, NoFault', NEW o \in Objects, NEW n \in Nat,
           n + MaxSize < SizeModulus, ReadValue(o, n)
    PROVE  Abstract!Next
<1> DEFINE p == obj[o].buffer
           r == obj[o].read_length
<1>0. Usable(o)
  BY DEF ReadValue
<1>1. CASE n > 0 /\ BeyondData(obj[o], n)
  <2>1. Refused("Read", o, n)
    BY <1>1 DEF ReadValue
  <2> QED BY <1>0, <1>1, <2>1, BeyondDataMeans, UsableFields, RefusedRefines
<1>2. CASE ~(n > 0 /\ BeyondData(obj[o], n))
  <2>1. /\ obj' = [obj EXCEPT ![o] = Advanced(obj[o], n)] /\ UNCHANGED <<content, torn>>
        /\ Gives("Read", o, n, IF n = 0 THEN <<>> ELSE Octets(p, r, n))
    BY <1>2 DEF ReadValue, Crash, NoFault
  <2>2. /\ \A s \in Objects \ {o} : ValueOf(s)' = ValueOf(s)
        /\ n <= Abstract!Left(value[o]) /\ value[o].read = r
        /\ value'[o] = [value[o] EXCEPT !.read = @ + n]
    BY <1>0, <1>2, <2>1, AdvancedImage
  <2>3. (IF n = 0 THEN <<>> ELSE Octets(p, r, n)) = Abstract!Slice(value[o], r, n)
    <3>1. value[o] = Image(obj[o], content[p]) /\ obj[o] \in State /\ r \in Nat
      BY <1>0, UsableFields
    <3>2. r + n <= obj[o].buffer_size
      BY <1>0, <2>2, <3>1, UsableFields, ImageFields DEF Abstract!Left
    <3> QED BY <3>1, <3>2, SliceIsOctets, EmptySlice
  <2>4. /\ Abstract!Gives("Read", o, n, Abstract!Slice(value[o], value[o].read, n))
        /\ out'.self = o /\ out'.n = n
    BY <2>1, <2>2, <2>3 DEF Abstract!Gives, Gives, Result
  <2>5. Abstract!Read(o, n)
    BY <1>0, <2>2, <2>4, UsableFields DEF Abstract!Read, value
  <2> QED BY <2>2, <2>4, <2>5, StepOfOne DEF Abstract!OwnStep
<1> QED BY <1>1, <1>2

LEMMA ReadActionsRefine ==
    ASSUME Bounded, SafetyInv, NoFault', NEW o \in Objects,
           \/ \E n \in Counts : ReadValue(o, n)
           \/ \E n \in Counts : ReadString(o, n)
    PROVE  Abstract!Next
<1>1. ASSUME NEW n \in Counts, ReadValue(o, n) PROVE Abstract!Next
  <2>1. n \in Nat /\ n + MaxSize < SizeModulus
    BY InputAssumption, SizeAssumption DEF Bounded, Careful, NoSumWraps
  <2> QED BY <1>1, <2>1, ReadRefines DEF Bounded
<1>2. ASSUME NEW n \in Counts, ReadString(o, n) PROVE Abstract!Next
  <2>1. n \in Nat /\ n + MaxSize < SizeModulus
    BY InputAssumption, SizeAssumption DEF Bounded, Careful, NoSumWraps
  <2>2. CASE n > 0 /\ Usable(o) /\ ~BeyondData(obj[o], n) /\ n > MaxSize
    <3>1. Plus(obj[o].read_length, n) = obj[o].read_length + n
      BY <2>1, <2>2, UsableFields, SizeAssumption, PlusIsSum DEF Bounded
    <3> QED BY <2>1, <2>2, <3>1, UsableFields, SizeAssumption DEF BeyondData, Bounded
  <2>3. CASE ~(n > 0 /\ Usable(o) /\ ~BeyondData(obj[o], n) /\ n > MaxSize)
    BY <1>2, <2>1, <2>3, ReadRefines DEF ReadString, Bounded
  <2> QED BY <2>2, <2>3
<1> QED BY <1>1, <1>2

LEMMA GetRefines ==
    ASSUME Careful, SafetyInv, NoFault', NEW o \in Objects, NEW i \in Counts, NEW n \in Counts,
           GetValue(o, i, n)
    PROVE  Abstract!Next
<1> DEFINE p == obj[o].buffer
<1>0. Usable(o) /\ i \in Nat /\ n \in Nat /\ i + n < SizeModulus
  BY InputAssumption, SizeAssumption DEF GetValue, Careful, NoSumWraps
<1>1. Plus(i, n) = i + n
  BY <1>0, PlusIsSum
<1>2. CASE n > 0 /\ Plus(i, n) > obj[o].data_length
  <2>1. Refused("Get", o, i + n)
    BY <1>2 DEF GetValue
  <2> QED BY <1>0, <1>1, <1>2, <2>1, UsableFields, RefusedRefines
<1>3. CASE ~(n > 0 /\ Plus(i, n) > obj[o].data_length)
  <2>1. /\ UNCHANGED <<obj, content, torn>>
        /\ Gives("Get", o, i + n, IF n = 0 THEN <<>> ELSE Octets(p, i, n))
    BY <1>3 DEF GetValue, Crash, NoFault
  <2>2. \A s \in Objects : ValueOf(s)' = ValueOf(s)
    BY <2>1, AllKept
  <2>3. n = 0 \/ i + n <= obj[o].data_length
    BY <1>0, <1>1, <1>3, UsableFields
  <2>4. (IF n = 0 THEN <<>> ELSE Octets(p, i, n)) = Abstract!Slice(value[o], i, n)
    <3>1. value[o] = Image(obj[o], content[p]) /\ obj[o] \in State
      BY <1>0, UsableFields
    <3>2. n # 0 => i + n <= obj[o].buffer_size
      BY <1>0, <2>3, UsableFields
    <3> QED BY <1>0, <3>1, <3>2, SliceIsOctets, EmptySlice
  <2>5. (i + n) - i = n /\ i \in 0..(i + n) /\ i <= i + n /\ (n = 0 => i = i + n)
    BY <1>0
  <2>6. /\ Abstract!Gives("Get", o, i + n, Abstract!Slice(value[o], i, (i + n) - i))
        /\ out'.self = o /\ out'.n = i + n
    BY <2>1, <2>4, <2>5 DEF Abstract!Gives, Gives, Result
  <2>7. value[o].data = obj[o].data_length /\ value'[o] = value[o]
    BY <1>0, <2>2, UsableFields, ImageFields DEF value
  <2>8. Abstract!Get(o, i, i + n)
    BY <1>0, <2>3, <2>5, <2>6, <2>7, UsableFields DEF Abstract!Get, value
  <2> QED BY <2>2, <2>5, <2>6, <2>8, StepOfOne DEF Abstract!OwnStep
<1> QED BY <1>2, <1>3

-----------------------------------------------------------------------------
(* Writing. *)

LEMMA OverwrittenIsStored ==
    ASSUME NEW d \in State, NEW cells, NEW i \in Nat, NEW v \in Seq(Octet)
    PROVE  CellsIn(d, Stored(cells, i, v)) = Abstract!Overwritten(CellsIn(d, cells), i, v)
<1> DEFINE n == d.buffer_size
<1>0. n \in Nat /\ n <= MaxSize /\ Len(v) \in Nat
  BY SizeAssumption DEF State, Sizes
<1>1. ASSUME NEW j \in 0..(n - 1)
      PROVE  Stored(cells, i, v)[j] = IF j \in i..(i + Len(v) - 1) THEN v[j - i + 1]
                                      ELSE CellsIn(d, cells)[j]
  <2>1. j \in Offsets
    BY <1>0, SizeAssumption DEF Offsets
  <2> QED BY <2>1 DEF Stored, CellsIn
<1>2. DOMAIN CellsIn(d, cells) = 0..(n - 1)
  BY DEF CellsIn
<1> QED BY <1>1, <1>2 DEF CellsIn, Abstract!Overwritten

LEMMA NothingOverwritten ==
    ASSUME NEW d, NEW cells, NEW i \in Nat, NEW v, Len(v) = 0
    PROVE  Abstract!Overwritten(CellsIn(d, cells), i, v) = CellsIn(d, cells)
<1>1. \A j : j \notin i..(i + Len(v) - 1)
  OBVIOUS
<1> QED BY <1>1 DEF Abstract!Overwritten, CellsIn

\* o gets the lengths of d, and its cells from i on take the octets v.
LEMMA WriteImage ==
    ASSUME Careful, SafetyInv, NEW o \in Objects, Usable(o), NEW d \in State,
           d.alive, d.buffer = obj[o].buffer, d.buffer_size = obj[o].buffer_size,
           obj' = [obj EXCEPT ![o] = d], UNCHANGED torn,
           NEW i \in Nat, NEW v \in Seq(Octet),
           \/ Len(v) = 0 /\ UNCHANGED content
           \/ obj[o].buffer # NULL /\ Write(o, i, v)
    PROVE  /\ \A s \in Objects \ {o} : ValueOf(s)' = ValueOf(s)
           /\ value'[o] = Holding(Abstract!Overwritten(
                                    CellsIn(obj[o], content[obj[o].buffer]), i, v),
                                  d.data_length, d.read_length)
<1> DEFINE p == obj[o].buffer
           c == CellsIn(obj[o], content[p])
<1>1. CASE Len(v) = 0 /\ UNCHANGED content
  <2>1. /\ \A s \in Objects \ {o} : ValueOf(s)' = ValueOf(s)
        /\ value'[o] = Image(d, content[p]) /\ CellsIn(d, content[p]) = c
    BY <1>1, LengthsImage
  <2>2. Abstract!Overwritten(c, i, v) = c
    BY <1>1, NothingOverwritten
  <2> QED BY <2>1, <2>2 DEF Image
<1>2. CASE p # NULL /\ Write(o, i, v)
  <2>1. Heap({}, p, capacity[p], Stored(content[p], i, v)) /\ p \in Blocks
    BY <1>2 DEF Write, SafetyInv, TypeOK, State
  <2>2. KeepsOthers(o)
    BY <2>1, HeapKeeps
  <2>3. /\ o \notin torn' /\ obj'[o] = d
        /\ \A s \in Objects \ {o} : obj'[s] = obj[s] /\ (s \in torn' <=> s \in torn)
    BY UsableFields DEF SafetyInv, TypeOK
  <2>4. \A s \in Objects \ {o} : ValueOf(s)' = ValueOf(s)
    BY <2>2, <2>3, OthersKept
  <2>5. content'[p] = Stored(content[p], i, v)
    BY <2>1 DEF Heap
  <2>6. value'[o] = Image(d, Stored(content[p], i, v))
    BY <2>3, <2>5, BecomesKnown DEF value
  <2>7. CellsIn(d, Stored(content[p], i, v)) = Abstract!Overwritten(c, i, v)
    <3>1. CellsIn(d, content[p]) = c
      BY DEF CellsIn
    <3> QED BY <3>1, OverwrittenIsStored
  <2> QED BY <2>4, <2>6, <2>7 DEF Image
<1> QED BY <1>1, <1>2

LEMMA StoreImage ==
    ASSUME Careful, SafetyInv, NEW o \in Objects, Usable(o), UNCHANGED <<obj, torn>>,
           NEW i \in Nat, NEW v \in Seq(Octet),
           \/ Len(v) = 0 /\ UNCHANGED content
           \/ obj[o].buffer # NULL /\ Write(o, i, v)
    PROVE  /\ \A s \in Objects \ {o} : ValueOf(s)' = ValueOf(s)
           /\ value'[o] = [value[o] EXCEPT !.cells = Abstract!Overwritten(@, i, v)]
<1> DEFINE d == obj[o]
           c == CellsIn(d, content[d.buffer])
           w == Abstract!Overwritten(c, i, v)
<1>1. d \in State /\ d.alive /\ obj' = [obj EXCEPT ![o] = d]
  BY UsableFields DEF SafetyInv, TypeOK
<1>2. /\ \A s \in Objects \ {o} : ValueOf(s)' = ValueOf(s)
      /\ value'[o] = Holding(w, d.data_length, d.read_length)
  BY <1>1, WriteImage
<1>3. value[o] = Holding(c, d.data_length, d.read_length)
  BY UsableFields DEF Image
<1>4. value[o].cells = c
  BY <1>3, HoldingFields
<1> HIDE DEF c, w
<1>5. [value[o] EXCEPT !.cells = w] = Holding(w, d.data_length, d.read_length)
  BY <1>3, SMTT(30) DEF Holding
<1> QED BY <1>2, <1>4, <1>5 DEF w

LEMMA StoreRefines ==
    ASSUME Careful, SafetyInv, NEW o \in Objects, Usable(o), UNCHANGED <<obj, torn>>,
           NEW i \in Nat, NEW v \in Seq(Octet), Returns("Store", o, i + Len(v)),
           \/ v \in Values
           \/ \E a, b \in Values : v = a \o b,
           \/ Len(v) = 0 /\ UNCHANGED content
           \/ /\ obj[o].buffer # NULL /\ Write(o, i, v)
              /\ i + Len(v) <= obj[o].buffer_size
    PROVE  Abstract!Next
<1> DEFINE n == i + Len(v)
<1>1. /\ \A s \in Objects \ {o} : ValueOf(s)' = ValueOf(s)
      /\ value'[o] = [value[o] EXCEPT !.cells = Abstract!Overwritten(@, i, v)]
  BY StoreImage
<1>2. Len(v) \in Nat /\ n - Len(v) = i /\ Len(v) <= n
  OBVIOUS
<1>3. Abstract!Ok("Store", o, n) /\ out'.self = o /\ out'.n = n
  BY DEF Abstract!Ok, Abstract!Gives, Returns, Gives, Result
<1>4. Len(v) = 0 \/ n <= Abstract!Size(value[o])
  BY UsableFields, ImageSize
<1>5. value'[o] = [value[o] EXCEPT !.cells = Abstract!Overwritten(@, n - Len(v), v)]
  BY <1>1, <1>2
<1> HIDE DEF n
<1>6. Abstract!Store(o, n, v)
  BY <1>2, <1>3, <1>4, <1>5, UsableFields DEF Abstract!Store, value
<1>7. CASE v \in Values
  BY <1>1, <1>3, <1>6, <1>7, StepOfOne DEF Abstract!OwnStep
<1>8. CASE v \notin Values
  <2>1. PICK a \in Values, b \in Values : v = a \o b
    BY <1>8
  <2>2. Abstract!Store(o, n, a \o b)
    BY <1>6, <2>1
  <2> QED BY <1>1, <1>3, <2>2, StepOfOne DEF Abstract!OwnStep
<1> QED BY <1>7, <1>8

LEMMA WriteOctetRefines ==
    ASSUME Bounded, SafetyInv, NoFault', NEW o \in Objects, NEW i \in Counts, NEW x \in Octet,
           WriteOctet(o, i, x)
    PROVE  Abstract!Next
<1>0. Careful /\ Usable(o) /\ i \in Nat
  BY InputAssumption, SizeAssumption DEF Bounded, WriteOctet
<1>1. CASE i >= obj[o].buffer_size
  <2>1. Refused("Store", o, i + 1)
    BY <1>1 DEF WriteOctet
  <2>2. i + 1 > obj[o].buffer_size
    BY <1>0, <1>1, UsableFields
  <2> QED BY <1>0, <2>1, <2>2, UsableFields, RefusedRefines
<1>2. CASE ~(i >= obj[o].buffer_size)
  <2>1. Write(o, i, <<x>>) /\ Returns("Store", o, i + 1) /\ UNCHANGED <<obj, torn>>
    BY <1>2 DEF WriteOctet, Crash, NoFault
  <2>2. i + 1 <= obj[o].buffer_size /\ obj[o].buffer # NULL
    BY <1>0, <1>2, UsableFields
  <2>3. <<x>> \in Seq(Octet) /\ Len(<<x>>) = 1 /\ <<x>> \in Values
    BY DEF Bounded
  <2> HIDE DEF Bounded
  <2> QED BY <1>0, <2>1, <2>2, <2>3, StoreRefines
<1> QED BY <1>1, <1>2

LEMMA SetValueRefines ==
    ASSUME Careful, SafetyInv, NoFault', NEW o \in Objects, NEW i \in Counts, NEW v \in Values,
           SetValue(o, i, v)
    PROVE  Abstract!Next
<1>0. /\ Usable(o) /\ i \in Nat /\ v \in Seq(Octet) /\ Len(v) \in Nat
      /\ i + Len(v) < SizeModulus
  BY SizeAssumption, InputAssumption DEF SetValue, Careful, NoSumWraps
<1>1. CASE Len(v) > 0 /\ BeyondBuffer(obj[o], i, Len(v))
  <2>1. Refused("Store", o, i + Len(v))
    BY <1>1 DEF SetValue
  <2>2. Plus(i, Len(v)) = i + Len(v)
    BY <1>0, PlusIsSum
  <2>3. i + Len(v) > obj[o].buffer_size
    BY <1>0, <1>1, <2>2, UsableFields DEF BeyondBuffer
  <2> QED BY <1>0, <2>1, <2>3, UsableFields, RefusedRefines
<1>2. CASE ~(Len(v) > 0 /\ BeyondBuffer(obj[o], i, Len(v)))
  <2>1. /\ IF Len(v) = 0 THEN UNCHANGED <<capacity, content>> ELSE Write(o, i, v)
        /\ Returns("Store", o, i + Len(v)) /\ UNCHANGED <<obj, torn>>
    BY <1>2 DEF SetValue, Crash, NoFault
  <2>2. Len(v) # 0 => obj[o].buffer # NULL /\ i + Len(v) <= obj[o].buffer_size
    BY <1>0, <1>2, UsableFields, BeyondBufferMeans
  <2>3. \/ Len(v) = 0 /\ UNCHANGED content
        \/ /\ obj[o].buffer # NULL /\ Write(o, i, v)
           /\ i + Len(v) <= obj[o].buffer_size
    BY <2>1, <2>2
  <2> QED BY <1>0, <2>1, <2>3, StoreRefines
<1> QED BY <1>1, <1>2

LEMMA SetValue64Refines ==
    ASSUME Careful, SafetyInv, NoFault', NEW o \in Objects, NEW i \in Counts,
           NEW high \in Values, NEW low \in Values, SetValue64(o, i, high, low)
    PROVE  Abstract!Next
<1> DEFINE n    == i + 2 * Half
           size == obj[o].buffer_size
<1>0. /\ Usable(o) /\ i \in Nat /\ Half \in Nat /\ Half > 0 /\ size \in Nat
      /\ high \in Seq(Octet) /\ low \in Seq(Octet) /\ Len(high) = Half /\ Len(low) = Half
      /\ UNCHANGED <<obj, torn>>
  BY SizeAssumption, InputAssumption, UsableFields DEF SetValue64, Sizes
<1>1. /\ Plus(i, Half) = i + Half /\ i + Half < SizeModulus
      /\ i + Half \in Nat /\ n \in Nat /\ i + Half + Half = n
  <2>1. i + Half < SizeModulus /\ i + Half \in Nat
    BY <1>0 DEF Careful, NoSumWraps
  <2> QED BY <1>0, <2>1, PlusIsSum
<1>5. ASSUME ~BeyondBuffer(obj[o], i, Half)
      PROVE  /\ Plus(i + Half, Half) = i + Half + Half
             /\ (i + Half) + Half < SizeModulus
  <2>1. i + Half <= size /\ size <= MaxSize
    BY <1>0, <1>1, <1>5, UsableFields, SizeAssumption DEF BeyondBuffer, State, Sizes
  <2>2. (i + Half) + Half < SizeModulus
    BY <1>0, <2>1, SizeAssumption
  <2> QED BY <1>0, <1>1, <2>2, PlusIsSum
<1>2. CASE BeyondBuffer(obj[o], i, Half)
  <2>1. Throws("Store", o, n) /\ UNCHANGED <<capacity, content, obj, held, torn>>
    BY <1>2 DEF SetValue64
  <2>2. n > size
    BY <1>0, <1>1, <1>2, UsableFields DEF BeyondBuffer
  <2>3. Refused("Store", o, n)
    BY <2>1 DEF Refused
  <2> HIDE DEF n
  <2> QED BY <1>0, <2>2, <2>3, UsableFields, RefusedRefines
<1>3. CASE ~BeyondBuffer(obj[o], i, Half) /\ BeyondBuffer(obj[o], i + Half, Half)
  <2>1. Throws("Store", o, n) /\ Write(o, i, high)
    BY <1>1, <1>3 DEF SetValue64, NoFault
  <2>2. obj[o].buffer # NULL /\ i + Half <= size /\ n > size
    BY <1>0, <1>1, <1>5, <1>3, UsableFields DEF BeyondBuffer
  <2>3. /\ \A s \in Objects \ {o} : ValueOf(s)' = ValueOf(s)
        /\ value'[o] = [value[o] EXCEPT !.cells = Abstract!Overwritten(@, i, high)]
    BY <1>0, <2>1, <2>2, StoreImage
  <2>4. n - 2 * Half = i /\ n - Half = i + Half
    BY <1>0
  <2>5. Abstract!Size(value[o]) = size
    BY <1>0, UsableFields, ImageSize
  <2>6. Abstract!Threw("Store", o, n) /\ out'.self = o /\ out'.n = n
    BY <2>1 DEF Abstract!Threw, Throws, Result
  <2>7. value'[o] = [value[o] EXCEPT !.cells = Abstract!Overwritten(@, n - 2 * Half, high)]
    BY <2>3, <2>4
  <2>8. n - Half <= Abstract!Size(value[o]) /\ n > Abstract!Size(value[o])
    BY <2>2, <2>4, <2>5
  <2> HIDE DEF n, size
  <2>9. Abstract!StoreHalf(o, n, high)
    BY <1>0, <2>6, <2>7, <2>8, UsableFields DEF Abstract!StoreHalf, value
  <2> QED BY <2>3, <2>6, <2>9, StepOfOne DEF Abstract!OwnStep
<1>4. CASE ~BeyondBuffer(obj[o], i, Half) /\ ~BeyondBuffer(obj[o], i + Half, Half)
  <2>1. Returns("Store", o, n) /\ Write(o, i, high \o low)
    BY <1>1, <1>4 DEF SetValue64, NoFault
  <2>2. high \o low \in Seq(Octet) /\ Len(high \o low) = 2 * Half
    BY <1>0
  <2>3. obj[o].buffer # NULL /\ n <= size
    BY <1>0, <1>1, <1>5, <1>4, UsableFields DEF BeyondBuffer
  <2>4. n = i + Len(high \o low)
    BY <2>2
  <2> DEFINE v == high \o low
  <2> HIDE DEF n, v
  <2>5. v \in Seq(Octet) /\ n = i + Len(v) /\ Write(o, i, v) /\ v = high \o low
    BY <2>1, <2>2, <2>4 DEF v
  <2> QED BY <1>0, <2>1, <2>3, <2>5, StoreRefines
<1> QED BY <1>2, <1>3, <1>4

LEMMA AppendRefines ==
    ASSUME Careful, SafetyInv, NoFault', NEW o \in Objects, NEW v \in Values,
           AppendValue(o, v)
    PROVE  Abstract!Next
<1> DEFINE at == obj[o].data_length
           r  == obj[o].read_length
           c  == CellsIn(obj[o], content[obj[o].buffer])
<1>0. /\ Usable(o) /\ v \in Seq(Octet) /\ Len(v) \in Nat /\ at \in Nat
      /\ at + Len(v) < SizeModulus /\ obj[o].buffer_size \in Nat
  <2>1. Usable(o)
    BY DEF AppendValue
  <2> QED BY <2>1, SizeAssumption, InputAssumption, UsableFields
<1>1. CASE Len(v) > 0 /\ BeyondBuffer(obj[o], at, Len(v))
  <2>1. Refused("Append", o, Len(v))
    BY <1>1 DEF AppendValue
  <2>2. Plus(at, Len(v)) = at + Len(v)
    BY <1>0, PlusIsSum
  <2>3. Len(v) > obj[o].buffer_size - at
    BY <1>0, <1>1, <2>2, UsableFields DEF BeyondBuffer
  <2> QED BY <1>0, <2>1, <2>3, UsableFields, RefusedRefines
<1>2. CASE ~(Len(v) > 0 /\ BeyondBuffer(obj[o], at, Len(v)))
  <2> DEFINE d == [obj[o] EXCEPT !.data_length = at + Len(v)]
             w == Abstract!Overwritten(c, at, v)
  <2>1. /\ IF Len(v) = 0 THEN UNCHANGED <<capacity, content>> ELSE Write(o, at, v)
        /\ obj' = [obj EXCEPT ![o] = d]
        /\ Returns("Append", o, Len(v)) /\ UNCHANGED torn
    BY <1>2 DEF AppendValue, Crash, NoFault
  <2>2. at + Len(v) <= obj[o].buffer_size
    BY <1>0, <1>2, UsableFields, BeyondBufferMeans
  <2>3. Len(v) # 0 => obj[o].buffer # NULL
    BY <1>0, <1>2, UsableFields, BeyondBufferMeans
  <2>4. /\ d \in State /\ d.alive /\ d.buffer = obj[o].buffer
        /\ d.buffer_size = obj[o].buffer_size
        /\ d.data_length = at + Len(v) /\ d.read_length = r
    <3>1. at + Len(v) \in Sizes
      BY <1>0, <2>2, UsableFields, SizeAssumption DEF Sizes
    <3> QED BY <1>0, <3>1, UsableFields DEF State
  <2> HIDE DEF d
  <2>5. \/ Len(v) = 0 /\ UNCHANGED content
        \/ obj[o].buffer # NULL /\ Write(o, at, v)
    BY <2>1, <2>3
  <2>6. /\ \A s \in Objects \ {o} : ValueOf(s)' = ValueOf(s)
        /\ value'[o] = Holding(w, at + Len(v), r)
    <3>1. /\ \A s \in Objects \ {o} : ValueOf(s)' = ValueOf(s)
          /\ value'[o] = Holding(w, d.data_length, d.read_length)
      BY <1>0, <2>1, <2>4, <2>5, WriteImage
    <3> QED BY <2>4, <3>1
  <2>7. value[o] = Holding(c, at, r)
    BY <1>0, UsableFields DEF Image
  <2>8. value[o].cells = c /\ value[o].data = at
    BY <2>7, HoldingFields
  <2>9. value'[o] = [value[o] EXCEPT !.cells = Abstract!Overwritten(@, value[o].data, v),
                                     !.data = @ + Len(v)]
    <3> DEFINE u == [value[o] EXCEPT !.cells = Abstract!Overwritten(@, value[o].data, v)]
    <3>0. u = [value[o] EXCEPT !.cells = w]
      BY <2>8
    <3> HIDE DEF c, w, at, r
    <3>1. u = Holding(w, at, r)
      BY <2>7, <3>0, SMTT(30) DEF Holding
    <3> HIDE DEF u
    <3>2. [u EXCEPT !.data = @ + Len(v)] = Holding(w, at + Len(v), r)
      BY <3>1, SMTT(30) DEF Holding
    <3> QED BY <2>6, <3>2 DEF u
  <2>10. value[o].data + Len(v) <= Abstract!Size(value[o])
    BY <1>0, <2>2, <2>8, UsableFields, ImageSize
  <2>11. Abstract!Ok("Append", o, Len(v)) /\ out'.self = o
    BY <2>1 DEF Abstract!Ok, Abstract!Gives, Returns, Gives, Result
  <2>12. Abstract!AppendOctets(o, v)
    BY <1>0, <2>9, <2>10, <2>11, UsableFields DEF Abstract!AppendOctets, value
  <2> QED BY <2>6, <2>11, <2>12, StepOfOne DEF Abstract!OwnStep
<1> QED BY <1>1, <1>2

-----------------------------------------------------------------------------
(* Construction and destruction. *)

LEMMA GoneValue ==
    ASSUME NEW o \in Objects
    PROVE  /\ ~obj[o].alive => value[o] = Abstract!Gone
           /\ obj[o].alive => value[o] # Abstract!Gone
           /\ ~obj'[o].alive => value'[o] = Abstract!Gone
<1>0. Abstract!Gone = [kind |-> "gone", cells |-> <<>>, data |-> 0, read |-> 0]
  BY SMTT(30) DEF Abstract!Gone, Abstract!Empty
<1>1. /\ ~obj[o].alive => ValueOf(o) = Abstract!Gone
      /\ ~obj'[o].alive => ValueOf(o)' = Abstract!Gone
  BY <1>0 DEF ValueOf
<1>2. obj[o].alive => ValueOf(o).kind # "gone"
  BY DEF ValueOf
<1>3. Abstract!Gone.kind = "gone"
  BY <1>0
<1> QED BY <1>1, <1>2, <1>3 DEF value

\* The value of an object that a step leaves in order.
LEMMA KnownNext ==
    ASSUME Careful, SafetyInv', NEW o \in Objects, NEW d, obj'[o] = d,
           d.alive, o \notin torn'
    PROVE  /\ value'[o] = Image(d, content'[d.buffer])
           /\ value'[o] \in Abstract!Value
           /\ Abstract!Size(value'[o]) = d.buffer_size
           /\ value'[o].data = d.data_length /\ value'[o].read = d.read_length
           /\ d.data_length <= d.buffer_size
<1>1. value'[o] = Image(d, content'[d.buffer])
  BY BecomesKnown DEF value
<1>2. d \in State /\ Fits(d) /\ Backed(d)
  BY DEF Careful, SafetyInv, TypeOK, LengthInv
<1>3. d.buffer_size = 0 \/ content'[d.buffer] \in [Offsets -> Cell]
  BY <1>2 DEF Backed, State, SafetyInv, TypeOK
<1>4. d.read_length <= d.data_length /\ d.data_length <= d.buffer_size
  BY <1>2 DEF Fits, Backed
<1>5. value'[o] \in Abstract!Value
  BY <1>1, <1>2, <1>3, <1>4, ImageValue
<1>6. Abstract!Size(value'[o]) = d.buffer_size
  BY <1>1, <1>2, ImageSize
<1>7. value'[o].data = d.data_length /\ value'[o].read = d.read_length
  BY <1>1, ImageFields
<1> QED BY <1>1, <1>4, <1>5, <1>6, <1>7

\* o is given a buffer, or built without one.
LEMMA FillRefines ==
    ASSUME Careful, SafetyInv, SafetyInv', NEW o \in Objects, NEW d \in State, NEW op,
           KeepsOthers(o), obj' = [obj EXCEPT ![o] = d], d.alive, d.read_length = 0,
           \A s \in Objects \ {o} : s \in torn' <=> s \in torn, o \notin torn',
           Returns(op, o, 0),
           \/ op = "Construct" /\ ~obj[o].alive
           \/ op = "SetBuffer" /\ obj[o].alive
    PROVE  Abstract!Next
<1>1. obj'[o] = d /\ \A s \in Objects \ {o} : obj'[s] = obj[s]
  BY DEF SafetyInv, TypeOK
<1>2. \A s \in Objects \ {o} : ValueOf(s)' = ValueOf(s)
  BY <1>1, OthersKept
<1>3. /\ value'[o] \in Abstract!Value
      /\ value'[o].data <= Abstract!Size(value'[o]) /\ value'[o].read = 0
  BY <1>1, KnownNext
<1>4. Abstract!Ok(op, o, 0) /\ out'.self = o
  BY DEF Abstract!Ok, Abstract!Gives, Returns, Gives, Result
<1>5. /\ op = "Construct" => value[o] = Abstract!Gone
      /\ op = "SetBuffer" => value[o] # Abstract!Gone
  BY GoneValue
<1>6. Abstract!Fill(o)
  BY <1>3, <1>4, <1>5 DEF Abstract!Fill, value
<1> QED BY <1>2, <1>4, <1>6, StepOfOne DEF Abstract!OwnStep

\* What Build leaves when it builds.
LEMMA BuildImage ==
    ASSUME Careful, SafetyInv, SafetyInv', NEW op, NEW o \in Objects, Vacant(o),
           NEW d \in State, d.alive, d.buffer = NULL, d.owns_buffer = FALSE,
           NEW b \in Allocation(d), NEW cells, ~AllocationFails(d, b), Build(op, o, d, b, cells)
    PROVE  /\ \A s \in Objects \ {o} : ValueOf(s)' = ValueOf(s)
           /\ Returns(op, o, 0) /\ value[o] = Abstract!Gone
           /\ value'[o] \in Abstract!Value
           /\ Abstract!Size(value'[o]) = d.buffer_size
           /\ value'[o].data = d.data_length /\ value'[o].read = d.read_length
           /\ d.buffer_size > 0 => value'[o] = Image(AllocateBuffer(d, b), cells)
<1> DEFINE e == AllocateBuffer(d, b)
<1>0. /\ b \in Blocks \cup {NULL} /\ b \notin Live
      /\ d.buffer_size \in Nat
  BY AllocationType, HeapAssumption, SizeAssumption DEF Allocation, Frees, Live, State, Sizes
<1>1. /\ e \in State /\ e.buffer = b /\ e.alive /\ e.buffer_size = d.buffer_size
      /\ e.data_length = d.data_length /\ e.read_length = d.read_length
  BY <1>0, AllocateBufferFields
<1>2. /\ obj' = [obj EXCEPT ![o] = e] /\ Heap({}, b, d.buffer_size, cells)
      /\ Returns(op, o, 0) /\ UNCHANGED torn
  BY DEF Build
<1> HIDE DEF e
<1>3. /\ obj'[o] = e /\ ~obj[o].alive /\ o \notin torn'
      /\ \A s \in Objects \ {o} : obj'[s] = obj[s] /\ (s \in torn' <=> s \in torn)
  BY <1>2 DEF Vacant, SafetyInv, TypeOK, TornExist
<1>4. KeepsOthers(o)
  BY <1>0, <1>2, HeapKeeps
<1>5. \A s \in Objects \ {o} : ValueOf(s)' = ValueOf(s)
  BY <1>3, <1>4, OthersKept
<1>6. value[o] = Abstract!Gone
  BY <1>3, GoneValue
<1>7. /\ value'[o] = Image(e, content'[b])
      /\ value'[o] \in Abstract!Value
      /\ Abstract!Size(value'[o]) = d.buffer_size
      /\ value'[o].data = d.data_length /\ value'[o].read = d.read_length
      /\ d.data_length <= d.buffer_size
  BY <1>1, <1>3, KnownNext
<1>8. d.buffer_size > 0 => content'[b] = cells
  BY <1>0, <1>2 DEF AllocationFails, Heap
<1> QED BY <1>2, <1>5, <1>6, <1>7, <1>8 DEF e

\* The octets of what Build has built are the cells it was given.
LEMMA BuildCells ==
    ASSUME Careful, SafetyInv, SafetyInv', NEW op, NEW o \in Objects, Vacant(o),
           NEW d \in State, d.alive, d.buffer = NULL, d.owns_buffer = FALSE,
           NEW b \in Allocation(d), NEW cells, ~AllocationFails(d, b),
           Build(op, o, d, b, cells), d.buffer_size # 0
    PROVE  value'[o].cells = CellsIn(d, cells)
<1> DEFINE e == AllocateBuffer(d, b)
<1>0. b \in Blocks \cup {NULL} /\ d.buffer_size \in Nat /\ d.buffer_size > 0
  BY AllocationType, HeapAssumption, SizeAssumption DEF State, Sizes
<1>1. /\ e \in State /\ e.buffer = b /\ e.alive /\ e.buffer_size = d.buffer_size
      /\ obj' = [obj EXCEPT ![o] = e] /\ Heap({}, b, d.buffer_size, cells) /\ UNCHANGED torn
  BY <1>0, AllocateBufferFields DEF Build
<1> HIDE DEF e
<1>2. obj'[o] = e /\ o \notin torn'
  BY <1>1 DEF Vacant, SafetyInv, TypeOK, TornExist
<1>3. value'[o] = Image(e, content'[b])
  BY <1>1, <1>2, KnownNext
<1>4. content'[b] = cells
  BY <1>0, <1>1 DEF AllocationFails, Heap
<1>5. value'[o].cells = CellsIn(e, cells)
  BY <1>3, <1>4, ImageFields
<1> QED BY <1>1, <1>5 DEF CellsIn

LEMMA ConstructRefines ==
    ASSUME Careful, SafetyInv, SafetyInv', NEW o \in Objects,
           \/ DefaultConstruct(o)
           \/ \E n \in Sizes : SizeConstruct(o, n)
           \/ \E q \in Blocks \cup {NULL}, n, length \in Sizes :
                PointerConstruct(o, q, n, length)
    PROVE  Abstract!Next
<1>1. CASE DefaultConstruct(o)
  <2>1. Default \in State /\ Default.alive /\ Default.read_length = 0
    BY DefaultType DEF Default, Object
  <2>2. ~obj[o].alive /\ o \notin torn
    BY <1>1 DEF DefaultConstruct, Vacant, SafetyInv, TornExist
  <2>3. /\ obj' = [obj EXCEPT ![o] = Default] /\ UNCHANGED <<content, torn>>
        /\ Returns("Construct", o, 0)
    BY <1>1 DEF DefaultConstruct
  <2> QED BY <2>1, <2>2, <2>3, SameContent, FillRefines
<1>2. ASSUME NEW n \in Sizes, SizeConstruct(o, n) PROVE Abstract!Next
  <2> DEFINE d == Object(NULL, FALSE, n, 0, 0)
  <2>1. /\ d \in State /\ d.alive /\ d.buffer = NULL /\ d.owns_buffer = FALSE
        /\ d.data_length = 0 /\ d.read_length = 0 /\ d.buffer_size = n
    BY ObjectType, ZeroSize DEF Object
  <2>2. Vacant(o) /\ \E b \in Allocation(d) : Build("Construct", o, d, b, Blank)
    BY <1>2 DEF SizeConstruct
  <2> HIDE DEF d
  <2>3. PICK b \in Allocation(d) : Build("Construct", o, d, b, Blank)
    BY <2>2
  <2>4. CASE AllocationFails(d, b)
    <3>1. Refused("Construct", o, 0)
      BY <2>3, <2>4 DEF Build
    <3> QED BY <3>1, RefusedRefines
  <2>5. CASE ~AllocationFails(d, b)
    <3>1. /\ \A s \in Objects \ {o} : ValueOf(s)' = ValueOf(s)
          /\ Returns("Construct", o, 0) /\ value[o] = Abstract!Gone
          /\ value'[o] \in Abstract!Value
          /\ Abstract!Size(value'[o]) = n
          /\ value'[o].data = 0 /\ value'[o].read = 0
      BY <2>1, <2>2, <2>3, <2>5, BuildImage
    <3>2. Abstract!Ok("Construct", o, 0) /\ out'.self = o
      BY <3>1 DEF Abstract!Ok, Abstract!Gives, Returns, Gives, Result
    <3>3. 0 <= n
      BY SizeAssumption DEF Sizes
    <3>4. Abstract!Fill(o)
      BY <3>1, <3>2, <3>3 DEF Abstract!Fill, value
    <3> QED BY <3>1, <3>2, <3>4, StepOfOne DEF Abstract!OwnStep
  <2> QED BY <2>4, <2>5
<1>3. ASSUME NEW q \in Blocks \cup {NULL}, NEW n \in Sizes, NEW length \in Sizes,
             PointerConstruct(o, q, n, length)
      PROVE  Abstract!Next
  <2> DEFINE d == Object(q, FALSE, n, length, 0)
  <2>1. CASE Refused("Construct", o, 0)
    BY <2>1, RefusedRefines
  <2>2. CASE ~Refused("Construct", o, 0)
    <3>1. d \in State /\ d.alive /\ d.read_length = 0
      BY ObjectType, ZeroSize DEF Object
    <3>2. ~obj[o].alive /\ o \notin torn
      BY <1>3 DEF PointerConstruct, Vacant, SafetyInv, TornExist
    <3>3. /\ obj' = [obj EXCEPT ![o] = d] /\ UNCHANGED <<content, torn>>
          /\ Returns("Construct", o, 0)
      BY <1>3, <2>2 DEF PointerConstruct
    <3> HIDE DEF d
    <3> QED BY <3>1, <3>2, <3>3, SameContent, FillRefines
  <2> QED BY <2>1, <2>2
<1> QED BY <1>1, <1>2, <1>3

LEMMA FromOctetsRefines ==
    ASSUME Careful, SafetyInv, SafetyInv', NEW o \in Objects, NEW v \in Values,
           NEW n \in Sizes, OctetStringConstruct(o, v, n)
    PROVE  Abstract!Next
<1> DEFINE size  == IF n > 0 THEN n ELSE Len(v)
           d     == Object(NULL, FALSE, size, Len(v), 0)
           cells == Stored(Blank, 0, v)
<1>1. CASE Refused("FromOctets", o, 0)
  BY <1>1, RefusedRefines
<1>2. CASE ~Refused("FromOctets", o, 0)
  <2>0. v \in Seq(Octet) /\ Len(v) \in Nat
    BY InputAssumption
  <2>1. /\ size <= MaxSize /\ ~(Len(v) > size) /\ Vacant(o)
        /\ \E b \in Allocation(d) : Build("FromOctets", o, d, b, cells)
    BY <1>2 DEF OctetStringConstruct
  <2>2. size \in Sizes /\ Len(v) \in Sizes /\ size \in Nat /\ Len(v) <= size
    BY <2>0, <2>1, SizeAssumption DEF Sizes
  <2> HIDE DEF size
  <2>3. /\ d \in State /\ d.alive /\ d.buffer = NULL /\ d.owns_buffer = FALSE
        /\ d.data_length = Len(v) /\ d.read_length = 0 /\ d.buffer_size = size
    BY <2>2, ObjectType, ZeroSize DEF Object
  <2> HIDE DEF d, cells
  <2>4. PICK b \in Allocation(d) : Build("FromOctets", o, d, b, cells)
    BY <2>1
  <2>5. CASE ~AllocationFails(d, b)
    <3> DEFINE e == AllocateBuffer(d, b)
    <3>1. /\ \A s \in Objects \ {o} : ValueOf(s)' = ValueOf(s)
          /\ Returns("FromOctets", o, 0) /\ value[o] = Abstract!Gone
          /\ value'[o] \in Abstract!Value
          /\ Abstract!Size(value'[o]) = size
          /\ value'[o].data = Len(v) /\ value'[o].read = 0
      BY <2>1, <2>3, <2>4, <2>5, BuildImage
    <3>2. Abstract!Ok("FromOctets", o, 0) /\ out'.self = o
      BY <3>1 DEF Abstract!Ok, Abstract!Gives, Returns, Gives, Result
    <3>3. Abstract!Slice(value'[o], 0, Len(v)) = v
      <4>1. CASE Len(v) = 0
        BY <2>0, <4>1, EmptySlice
      <4>2. CASE Len(v) # 0
        <5>1. value'[o] = Image(e, cells) /\ e.buffer_size = size
          <6>1. d.buffer_size > 0
            BY <2>0, <2>2, <2>3, <4>2
          <6>2. value'[o] = Image(e, cells)
            BY <2>1, <2>3, <2>4, <2>5, <6>1, BuildImage
          <6> QED BY <2>3, <6>2, AllocationType, AllocateBufferFields
        <5> HIDE DEF e
        <5>2. ASSUME NEW j \in 1..Len(v) PROVE value'[o].cells[0 + j - 1] = v[j]
          <6>1. /\ 0 + j - 1 \in 0..(size - 1) /\ 0 + j - 1 \in Offsets
                /\ 0 + j - 1 \in 0..(0 + Len(v) - 1) /\ (0 + j - 1) - 0 + 1 = j
            BY <2>0, <2>1, <2>2, SizeAssumption DEF Offsets
          <6>2. value'[o].cells = CellsIn(e, cells)
            BY <5>1, ImageFields
          <6>3. cells[0 + j - 1] = v[j]
            BY <6>1 DEF cells, Stored
          <6> QED BY <5>1, <6>1, <6>2, <6>3 DEF CellsIn
        <5> QED BY <2>0, <5>2 DEF Abstract!Slice
      <4> QED BY <4>1, <4>2
    <3>4. Len(v) <= Abstract!Size(value'[o])
      BY <2>2, <3>1
    <3>5. Abstract!FromOctets(o, v)
      BY <3>1, <3>2, <3>3, <3>4 DEF Abstract!FromOctets, value
    <3> QED BY <3>1, <3>2, <3>5, StepOfOne DEF Abstract!OwnStep
  <2> QED BY <1>2, <2>4, <2>5 DEF Build
<1> QED BY <1>1, <1>2

-----------------------------------------------------------------------------
(* Copies and moves. *)

\* o has become a copy of s: as large, with the same data, read as far.
LEMMA CopyRefines ==
    ASSUME Careful, SafetyInv, SafetyInv', NEW o \in Objects, NEW s \in Objects, Usable(s),
           \A r \in Objects \ {o} : ValueOf(r)' = ValueOf(r),
           value'[o] \in Abstract!Value,
           Abstract!Size(value'[o]) = obj[s].buffer_size,
           value'[o].data = obj[s].data_length, value'[o].read = obj[s].read_length,
           NEW op, Returns(op, o, 0),
           \/ op = "Copy" /\ ~obj[o].alive
           \/ op = "Assign" /\ obj[o].alive,
           \A i \in 0..(obj[s].data_length - 1) :
              value'[o].cells[i] = content[obj[s].buffer][i]
    PROVE  Abstract!Next
<1> DEFINE v == value[s]
           w == value'[o]
<1>1. /\ v = Image(obj[s], content[obj[s].buffer]) /\ Abstract!Known(s)
      /\ obj[s] \in State /\ obj[s].data_length \in Nat /\ obj[s].buffer_size \in Nat
      /\ obj[s].data_length <= obj[s].buffer_size
  BY UsableFields
<1>2. /\ Abstract!Size(v) = obj[s].buffer_size /\ v.data = obj[s].data_length
      /\ v.read = obj[s].read_length /\ v.cells = CellsIn(obj[s], content[obj[s].buffer])
  <2>1. Abstract!Size(v) = obj[s].buffer_size
    BY <1>1, ImageSize
  <2>2. /\ v.data = obj[s].data_length /\ v.read = obj[s].read_length
        /\ v.cells = CellsIn(obj[s], content[obj[s].buffer])
    BY <1>1, ImageFields
  <2> QED BY <2>1, <2>2
<1>3. \A i \in 0..(v.data - 1) : w.cells[i] = v.cells[i]
  BY <1>1, <1>2 DEF CellsIn
<1>4. Abstract!Ok(op, o, 0) /\ out'.self = o
  BY DEF Abstract!Ok, Abstract!Gives, Returns, Gives, Result
<1>5. /\ op = "Copy" => value[o] = Abstract!Gone
      /\ op = "Assign" => value[o] # Abstract!Gone
  BY GoneValue
<1>6. /\ w \in Abstract!Value /\ Abstract!Size(w) = Abstract!Size(v)
      /\ w.data = v.data /\ w.read = v.read
  BY <1>2
<1>7. Abstract!Copy(o, s)
  BY <1>1, <1>3, <1>4, <1>5, <1>6 DEF Abstract!Copy, value
<1> QED BY <1>4, <1>7, StepOfOne DEF Abstract!OwnStep

LEMMA CopyConstructRefines ==
    ASSUME Careful, SafetyInv, SafetyInv', NEW o \in Objects, NEW s \in Objects,
           CopyConstruct(o, s)
    PROVE  Abstract!Next
<1> DEFINE n     == obj[s].data_length
           p     == obj[s].buffer
           d     == Object(NULL, FALSE, obj[s].buffer_size, n, obj[s].read_length)
           cells == IF n = 0 THEN Blank ELSE Prefix(content[p], n)
<1>0. Vacant(o) /\ Usable(s) /\ ~obj[o].alive
  BY DEF CopyConstruct, Vacant
<1>1. /\ n \in Nat /\ n <= obj[s].buffer_size /\ obj[s].buffer_size \in Nat
      /\ obj[s].buffer_size <= MaxSize /\ obj[s] \in State
  BY <1>0, UsableFields
<1>2. /\ d \in State /\ d.alive /\ d.buffer = NULL /\ d.owns_buffer = FALSE
      /\ d.buffer_size = obj[s].buffer_size /\ d.data_length = n
      /\ d.read_length = obj[s].read_length
  BY <1>1, ObjectType DEF Object, State
<1>3. PICK b \in Allocation(d) : Build("Copy", o, d, b, cells)
  BY DEF CopyConstruct, Crash, SafetyInv, NoFault
<1> HIDE DEF d, cells
<1>4. CASE AllocationFails(d, b)
  <2>1. Refused("Copy", o, 0)
    BY <1>3, <1>4 DEF Build
  <2> QED BY <2>1, RefusedRefines
<1>5. CASE ~AllocationFails(d, b)
  <2>1. /\ \A r \in Objects \ {o} : ValueOf(r)' = ValueOf(r)
        /\ Returns("Copy", o, 0) /\ value'[o] \in Abstract!Value
        /\ Abstract!Size(value'[o]) = d.buffer_size
        /\ value'[o].data = d.data_length /\ value'[o].read = d.read_length
    BY <1>0, <1>2, <1>3, <1>5, BuildImage
  <2>2. ASSUME NEW i \in 0..(n - 1) PROVE value'[o].cells[i] = content[p][i]
    <3>1. n > 0 /\ i \in 0..(d.buffer_size - 1) /\ i \in Offsets /\ i < n
      BY <1>1, <1>2, SizeAssumption DEF Offsets
    <3>2. cells[i] = content[p][i]
      BY <3>1 DEF cells, Prefix
    <3>3. value'[o].cells[i] = cells[i]
      <4>1. d.buffer_size # 0
        BY <1>1, <1>2, <3>1
      <4>2. value'[o].cells = CellsIn(d, cells)
        BY <1>0, <1>2, <1>3, <1>5, <4>1, BuildCells
      <4> QED BY <3>1, <4>2 DEF CellsIn
    <3> QED BY <3>2, <3>3
  <2>3. /\ Abstract!Size(value'[o]) = obj[s].buffer_size
        /\ value'[o].data = n /\ value'[o].read = obj[s].read_length
    BY <1>2, <2>1
  <2> QED BY <1>0, <2>1, <2>2, <2>3, CopyRefines
<1> QED BY <1>4, <1>5

LEMMA EmptyImage ==
    ASSUME NEW cells
    PROVE  Image(Default, cells) = Abstract!Empty
<1>1. /\ Default.buffer_size = 0 /\ Default.data_length = 0 /\ Default.read_length = 0
  BY DEF Default, Object
<1>2. CellsIn(Default, cells) = <<>>
  <2>1. 0..(Default.buffer_size - 1) = {}
    BY <1>1
  <2> QED BY <2>1 DEF CellsIn
<1> QED BY <1>1, <1>2 DEF Image, Holding, Abstract!Empty

LEMMA MoveRefines ==
    ASSUME Careful, SafetyInv, SafetyInv', NEW o \in Objects, NEW s \in Objects,
           MoveConstruct(o, s)
    PROVE  Abstract!Next
<1>1. /\ ~obj[o].alive /\ obj[s].alive /\ o # s /\ o \notin torn /\ s \notin torn
      /\ Usable(s)
  BY DEF MoveConstruct, Vacant, Usable, Exists, Careful, SafetyInv, TornExist
<1>2. /\ obj'[o] = obj[s] /\ obj'[s] = Default /\ UNCHANGED <<content, torn>>
      /\ \A r \in Objects \ {o, s} : obj'[r] = obj[r]
  BY <1>1 DEF MoveConstruct, MovedFrom, SafetyInv, TypeOK
<1>3. value[s] = Image(obj[s], content[obj[s].buffer]) /\ Abstract!Known(s)
  BY <1>1, UsableFields
<1>4. value'[o] = value[s]
  BY <1>1, <1>2, <1>3, BecomesKnown DEF value
<1>5. value'[s] = Abstract!Empty
  <2>1. Default.alive
    BY DEF Default, Object
  <2> QED BY <1>1, <1>2, <2>1, BecomesKnown, EmptyImage DEF value
<1>6. \A r \in Objects \ {o, s} : value'[r] = value[r]
  <2> SUFFICES ASSUME NEW r \in Objects \ {o, s} PROVE ValueOf(r)' = ValueOf(r)
    BY DEF value
  <2> QED BY <1>2, ValueKept
<1>7. value' = [value EXCEPT ![o] = value[s], ![s] = Abstract!Empty]
  <2>1. /\ value' = [r \in Objects |-> value'[r]]
        /\ value = [r \in Objects |-> value[r]]
    BY DEF value
  <2> HIDE DEF value
  <2> QED BY <1>1, <1>4, <1>5, <1>6, <2>1
<1>8. Abstract!Ok("Move", o, 0)
  BY DEF MoveConstruct, Abstract!Ok, Abstract!Gives, Returns, Gives, Result
<1>9. value[o] = Abstract!Gone
  BY <1>1, GoneValue
<1>10. Abstract!Move(o, s)
  BY <1>3, <1>7, <1>8, <1>9 DEF Abstract!Move, value
<1> QED BY <1>10 DEF Abstract!Next

LEMMA HandOverRefines ==
    ASSUME Careful, SafetyInv, SafetyInv', NEW o \in Objects,
           \/ Destroy(o)
           \/ TakeBufferOwnership(o)
           \/ \E q \in Blocks \cup {NULL}, n, length \in Sizes, take \in BOOLEAN :
                SetBuffer(o, q, n, length, take)
    PROVE  Abstract!Next
<1>0. /\ \A x \in Frees(obj[o]) : x = obj[o].buffer
      /\ NULL \notin Live
  BY HeapAssumption DEF Frees, Live
<1>1. CASE Destroy(o)
  <2>1. /\ obj' = [obj EXCEPT ![o] = Dead] /\ Heap(Frees(obj[o]), NULL, 0, Blank)
        /\ torn' = torn \ {o} /\ Returns("Destroy", o, 0) /\ obj[o].alive
    BY <1>1 DEF Destroy, Crash, Exists, SafetyInv, NoFault
  <2>2. /\ obj'[o] = Dead
        /\ \A s \in Objects \ {o} : obj'[s] = obj[s] /\ (s \in torn' <=> s \in torn)
    BY <2>1 DEF SafetyInv, TypeOK
  <2>3. \A s \in Objects \ {o} : ValueOf(s)' = ValueOf(s)
    BY <1>0, <2>1, <2>2, HeapKeeps, OthersKept
  <2>4. value'[o] = Abstract!Gone /\ value[o] # Abstract!Gone
    BY <2>1, <2>2, GoneValue, DeadFields
  <2>5. Abstract!Ok("Destroy", o, 0) /\ out'.self = o
    BY <2>1 DEF Abstract!Ok, Abstract!Gives, Returns, Gives, Result
  <2>6. Abstract!Destroy(o)
    BY <2>4, <2>5 DEF Abstract!Destroy, value
  <2> QED BY <2>3, <2>5, <2>6, StepOfOne DEF Abstract!OwnStep
<1>2. CASE TakeBufferOwnership(o)
  <2>1. /\ obj' = [obj EXCEPT ![o] = Default] /\ UNCHANGED content
        /\ torn' = torn \ {o} /\ Returns("Take", o, 0) /\ obj[o].alive
    BY <1>2 DEF TakeBufferOwnership, Exists
  <2>2. /\ obj'[o] = Default /\ o \notin torn' /\ Default.alive
        /\ \A s \in Objects \ {o} : obj'[s] = obj[s] /\ (s \in torn' <=> s \in torn)
    BY <2>1 DEF SafetyInv, TypeOK, Default, Object
  <2>3. \A s \in Objects \ {o} : ValueOf(s)' = ValueOf(s)
    BY <2>1, <2>2, SameContent, OthersKept
  <2>4. value'[o] = Abstract!Empty /\ value[o] # Abstract!Gone
    BY <2>1, <2>2, BecomesKnown, EmptyImage, GoneValue DEF value
  <2>5. Abstract!Ok("Take", o, 0) /\ out'.self = o
    BY <2>1 DEF Abstract!Ok, Abstract!Gives, Returns, Gives, Result
  <2>6. Abstract!Release(o)
    BY <2>4, <2>5 DEF Abstract!Release, value
  <2> QED BY <2>3, <2>5, <2>6, StepOfOne DEF Abstract!OwnStep
<1>3. ASSUME NEW q \in Blocks \cup {NULL}, NEW n \in Sizes, NEW length \in Sizes,
             NEW take \in BOOLEAN, SetBuffer(o, q, n, length, take)
      PROVE  Abstract!Next
  <2> DEFINE d == Object(q, take, n, length, 0)
  <2>1. CASE Refused("SetBuffer", o, 0)
    BY <2>1, RefusedRefines
  <2>2. CASE ~Refused("SetBuffer", o, 0)
    <3>1. /\ obj' = [obj EXCEPT ![o] = d] /\ Heap(Frees(obj[o]), NULL, 0, Blank)
          /\ torn' = torn \ {o} /\ Returns("SetBuffer", o, 0) /\ obj[o].alive
      BY <1>3, <2>2 DEF SetBuffer, Crash, Exists, SafetyInv, NoFault
    <3>2. d \in State /\ d.alive /\ d.read_length = 0
      BY ObjectType, ZeroSize DEF Object
    <3> HIDE DEF d
    <3>3. KeepsOthers(o)
      BY <1>0, <3>1, HeapKeeps
    <3>4. o \notin torn' /\ \A s \in Objects \ {o} : s \in torn' <=> s \in torn
      BY <3>1
    <3> QED BY <3>1, <3>2, <3>3, <3>4, FillRefines
  <2> QED BY <2>1, <2>2
<1> QED BY <1>1, <1>2, <1>3

-----------------------------------------------------------------------------
(* Assignment. *)

LEMMA CopyDataRefines ==
    ASSUME Careful, SafetyInv, SafetyInv', NEW o \in Objects, NEW s \in Objects, o # s,
           Usable(o), Usable(s), NEW d \in State, d.alive,
           d.buffer_size = obj[s].buffer_size,
           d.buffer \in Live => d.buffer = obj[o].buffer,
           NEW freed, \A x \in freed : x = obj[o].buffer, NEW size, NEW cells,
           CopyData(o, s, d, freed, size, cells)
    PROVE  Abstract!Next
<1> DEFINE n   == obj[s].data_length
           p   == obj[s].buffer
           e   == [d EXCEPT !.data_length = n, !.read_length = obj[s].read_length]
           new == [i \in Offsets |-> IF i < n THEN content[p][i] ELSE cells[i]]
<1>0. /\ n \in Nat /\ n <= obj[s].buffer_size /\ obj[s].buffer_size <= MaxSize
      /\ obj[s].buffer_size \in Nat /\ o \notin torn /\ s \notin torn /\ obj[o].alive
  BY UsableFields
<1>1. /\ e.alive /\ e.buffer = d.buffer /\ e.buffer_size = obj[s].buffer_size
      /\ e.data_length = n /\ e.read_length = obj[s].read_length
  BY DEF State
<1>2. /\ obj' = [obj EXCEPT ![o] = e] /\ Heap(freed, d.buffer, size, new)
      /\ UNCHANGED torn /\ Returns("Assign", o, 0)
      /\ n > 0 => d.buffer # NULL
  BY <1>0 DEF CopyData, Crash, SafetyInv, NoFault
<1> HIDE DEF e, new
<1>3. /\ obj'[o] = e /\ o \notin torn'
      /\ \A r \in Objects \ {o} : obj'[r] = obj[r] /\ (r \in torn' <=> r \in torn)
  BY <1>0, <1>2 DEF SafetyInv, TypeOK
<1>4. KeepsOthers(o)
  BY <1>2, HeapKeeps
<1>5. \A r \in Objects \ {o} : ValueOf(r)' = ValueOf(r)
  BY <1>3, <1>4, OthersKept
<1>6. /\ value'[o] = Image(e, content'[d.buffer])
      /\ value'[o] \in Abstract!Value
      /\ Abstract!Size(value'[o]) = obj[s].buffer_size
      /\ value'[o].data = n /\ value'[o].read = obj[s].read_length
  BY <1>1, <1>3, KnownNext
<1>7. ASSUME NEW i \in 0..(n - 1) PROVE value'[o].cells[i] = content[p][i]
  <2>1. n > 0 /\ i \in 0..(obj[s].buffer_size - 1) /\ i \in Offsets /\ i < n
    BY <1>0, SizeAssumption DEF Offsets
  <2>2. d.buffer \in Blocks
    BY <1>2, <2>1 DEF State
  <2>3. content'[d.buffer] = new
    BY <1>2, <2>2 DEF Heap
  <2>4. new[i] = content[p][i]
    BY <2>1 DEF new
  <2>5. value'[o].cells = CellsIn(e, new)
    BY <1>6, <2>3, ImageFields
  <2> QED BY <1>1, <2>1, <2>4, <2>5 DEF CellsIn
<1> QED BY <1>0, <1>2, <1>5, <1>6, <1>7, CopyRefines

LEMMA AssignRefines ==
    ASSUME Careful, SafetyInv, SafetyInv', NEW o \in Objects, NEW s \in Objects, Assign(o, s)
    PROVE  Abstract!Next
<1> DEFINE t == Target(obj[o])
           d == Resized(t, obj[s].buffer_size)
<1>0. /\ obj[o] \in State /\ obj[s].buffer_size \in Sizes /\ Usable(o) /\ Usable(s)
      /\ obj[o].alive /\ obj[o].alive = TRUE
  <2>1. Usable(o) /\ Usable(s)
    BY DEF Assign, AssignSelf, AssignInPlace, AssignReallocated, AssignFails
  <2>2. obj[o] \in State /\ obj[s].buffer_size \in Sizes
    BY DEF SafetyInv, TypeOK, State
  <2> QED BY <2>1, <2>2 DEF State, Usable, Exists
<1>1. /\ t \in State /\ t.alive /\ d \in State /\ d.alive
      /\ d.buffer_size = obj[s].buffer_size
      /\ Frees(d) = Frees(obj[o])
      /\ t.buffer # NULL => t = obj[o]
  BY <1>0, TargetFields
<1>2. /\ \A x \in Frees(obj[o]) : x = obj[o].buffer
      /\ NULL \notin Live
  BY HeapAssumption DEF Frees, Live
<1>3. CASE AssignSelf(o) /\ o = s
  <2>1. UNCHANGED <<obj, content, torn>> /\ Returns("Assign", o, 0)
    BY <1>3 DEF AssignSelf
  <2>2. o \notin torn' /\ obj'[o] = obj[o]
    BY <1>0, <2>1, UsableFields
  <2>3. /\ \A r \in Objects \ {o} : ValueOf(r)' = ValueOf(r)
        /\ value'[o] = value[o]
    BY <2>1, AllKept DEF value
  <2>4. /\ value'[o] \in Abstract!Value
        /\ Abstract!Size(value'[o]) = obj[s].buffer_size
        /\ value'[o].data = obj[s].data_length /\ value'[o].read = obj[s].read_length
    BY <1>0, <1>3, <2>2, KnownNext
  <2>5. \A i \in 0..(obj[s].data_length - 1) : value'[o].cells[i] = content[obj[s].buffer][i]
    <3>1. /\ value[o] = Image(obj[s], content[obj[s].buffer])
          /\ obj[s].data_length \in Nat /\ obj[s].buffer_size \in Nat
          /\ obj[s].data_length <= obj[s].buffer_size
      BY <1>0, <1>3, UsableFields
    <3>2. value'[o].cells = CellsIn(obj[s], content[obj[s].buffer])
      BY <2>3, <3>1, ImageFields
    <3> QED BY <3>1, <3>2 DEF CellsIn
  <2> QED BY <1>0, <2>1, <2>3, <2>4, <2>5, CopyRefines
<1>4. CASE AssignInPlace(o, s)
  <2>1. o # s /\ t.buffer_size = obj[s].buffer_size
    BY <1>4 DEF AssignInPlace
  <2>2. PICK size, cells : CopyData(o, s, t, {}, size, cells)
    BY <1>4 DEF AssignInPlace
  <2>3. t.buffer \in Live => t.buffer = obj[o].buffer
    BY <1>1, <1>2
  <2> HIDE DEF t
  <2> QED BY <1>0, <1>1, <2>1, <2>2, <2>3, CopyDataRefines
<1>5. CASE AssignReallocated(o, s)
  <2>1. PICK b \in Allocation(d) :
           CopyData(o, s, AllocateBuffer(d, b), Frees(d), d.buffer_size, Blank)
    BY <1>5 DEF AssignReallocated
  <2>2. o # s
    BY <1>5 DEF AssignReallocated
  <2> DEFINE e == AllocateBuffer(d, b)
  <2> HIDE DEF t, d
  <2>3. /\ e \in State /\ e.alive /\ e.buffer = b
        /\ e.buffer_size = obj[s].buffer_size
    BY <1>1, AllocationType, AllocateBufferFields
  <2>4. b \in Live => b = obj[o].buffer
    BY <1>1, <1>2 DEF Allocation
  <2>5. CopyData(o, s, e, Frees(d), d.buffer_size, Blank)
    BY <2>1
  <2> HIDE DEF e
  <2> QED BY <1>0, <1>1, <1>2, <2>2, <2>3, <2>4, <2>5, CopyDataRefines
<1>6. CASE AssignFails(o, s)
  <2>1. /\ obj' = [obj EXCEPT ![o] = AllocateBuffer(d, NULL)]
        /\ Heap(Frees(d), NULL, 0, Blank)
        /\ torn' = torn \cup {o} /\ Throws("Assign", o, 0)
    BY <1>6 DEF AssignFails
  <2> HIDE DEF t, d
  <2>2. AllocateBuffer(d, NULL).alive
    BY <1>1, AllocateBufferFields
  <2>3. /\ obj'[o].alive /\ o \in torn'
        /\ \A r \in Objects \ {o} : obj'[r] = obj[r] /\ (r \in torn' <=> r \in torn)
    BY <2>1, <2>2 DEF SafetyInv, TypeOK
  <2>4. KeepsOthers(o)
    BY <1>1, <1>2, <2>1, HeapKeeps
  <2>5. \A r \in Objects \ {o} : ValueOf(r)' = ValueOf(r)
    BY <2>3, <2>4, OthersKept
  <2>6. value'[o] = Abstract!Unspecified
    <3>1. Abstract!Unspecified
              = [kind |-> "unspecified", cells |-> <<>>, data |-> 0, read |-> 0]
      BY SMTT(30) DEF Abstract!Unspecified, Abstract!Empty
    <3>2. ValueOf(o)' = Abstract!Unspecified
      BY <2>3, <3>1 DEF ValueOf
    <3> QED BY <3>2 DEF value
  <2>7. Abstract!Threw("Assign", o, 0) /\ out'.self = o
    BY <2>1 DEF Throws, Result, Abstract!Threw
  <2>8. value[o] # Abstract!Gone
    BY <1>0, GoneValue
  <2>9. Abstract!AssignThrows(o)
    BY <2>6, <2>7, <2>8 DEF Abstract!AssignThrows, value
  <2> QED BY <2>5, <2>7, <2>9, StepOfOne DEF Abstract!OwnStep
<1> QED BY <1>3, <1>4, <1>5, <1>6 DEF Assign

-----------------------------------------------------------------------------
(* The mapping. *)

LEMMA InitRefines == Init => Abstract!Init
<1> SUFFICES ASSUME Init PROVE Abstract!Init
  OBVIOUS
<1>1. \A o \in Objects : ValueOf(o) = Abstract!Gone
  BY GoneValue, DeadFields DEF Init, value
<1> QED BY <1>1 DEF Init, Result, Abstract!Init

LEMMA StepRefines ==
    ASSUME Bounded, SafetyInv, SafetyInv', [Next]_vars
    PROVE  [Abstract!Next]_Abstract!vars
<1>0. Careful /\ NoFault'
  BY DEF Bounded, SafetyInv
<1>1. CASE UNCHANGED vars
  BY <1>1 DEF vars, Abstract!vars, ValueOf
<1>2. CASE Next
  <2>1. CASE \/ \E b \in Blocks, n \in Sizes, x \in Octet : CallerAllocate(b, n, x)
             \/ \E b \in Blocks : CallerFree(b)
    BY <1>0, <2>1, CallerRefines
  <2>2. ASSUME NEW o \in Objects,
               \/ DefaultConstruct(o)
               \/ \E n \in Sizes : SizeConstruct(o, n)
               \/ \E p \in Blocks \cup {NULL}, n, length \in Sizes :
                    PointerConstruct(o, p, n, length)
               \/ \E v \in Values, n \in Sizes : OctetStringConstruct(o, v, n)
               \/ \E s \in Objects : CopyConstruct(o, s)
               \/ \E s \in Objects : MoveConstruct(o, s)
               \/ Destroy(o)
               \/ \E s \in Objects : Assign(o, s)
               \/ TakeBufferOwnership(o)
               \/ \E p \in Blocks \cup {NULL}, n, length \in Sizes, take \in BOOLEAN :
                    SetBuffer(o, p, n, length, take)
        PROVE  Abstract!Next
    BY <1>0, <2>2, ConstructRefines, FromOctetsRefines, CopyConstructRefines, MoveRefines,
       HandOverRefines, AssignRefines
  <2>3. ASSUME NEW o \in Objects,
               \/ \E n \in Sizes : SetDataLength(o, n)
               \/ ResetReadLength(o)
               \/ \E n \in Counts : AdvanceReadLength(o, n)
               \/ \E i \in Counts, x \in Octet : WriteOctet(o, i, x)
               \/ \E i \in Counts, v \in Values : SetValue(o, i, v)
               \/ \E i \in Counts, high, low \in Values : SetValue64(o, i, high, low)
               \/ \E v \in Values : AppendValue(o, v)
               \/ \E i, n \in Counts : GetValue(o, i, n)
               \/ \E n \in Counts : ReadValue(o, n)
               \/ \E n \in Counts : ReadString(o, n)
        PROVE  Abstract!Next
    BY <1>0, <2>3, SetDataLengthRefines, ResetRefines, AdvanceRefines, WriteOctetRefines,
       SetValueRefines, SetValue64Refines, AppendRefines, GetRefines, ReadActionsRefine
  <2> QED BY <1>2, <2>1, <2>2, <2>3 DEF Next
<1> QED BY <1>1, <1>2

\* Every object is an independent value: what the blocks hold, who owns them
\* and which of them two objects have shared in turn cannot be told from what
\* the member functions return, and each of them throws exactly when the
\* octets or the room it needs are not there.
THEOREM BuffersAreValues ==
    ASSUME Bounded
    PROVE  Spec => ImplementsOctetBuffers
<1>1. Careful
  BY DEF Bounded
<1>2. Spec => []SafetyInv
  BY <1>1, SafetyInvariant
<1> QED BY <1>2, InitRefines, StepRefines, PTL DEF Spec, ImplementsOctetBuffers, Abstract!Spec
=============================================================================
