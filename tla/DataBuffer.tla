----------------------------- MODULE DataBuffer -----------------------------
(***************************************************************************)
(* The octet buffer every other part of the library reads from and writes  *)
(* to: class gs::DataBuffer (src/src/data_buffer.cpp), together with the   *)
(* heap its objects allocate from and the caller that lends them memory.   *)
(*                                                                         *)
(* An object has the class's five fields and a flag saying whether it      *)
(* exists.  A block of the heap has a capacity (0: not allocated) and one  *)
(* cell per octet.  Every member function is an action on one object (two  *)
(* for copies); an allocation may fail at any time; an exception shows as  *)
(* out.status = "threw".  An access through a null or dead pointer, or a   *)
(* second delete of a block, ends the program: fault becomes TRUE.         *)
(***************************************************************************)
EXTENDS Integers, Sequences

CONSTANTS
    Objects,        \* the DataBuffer objects of the program
    Blocks,         \* the blocks the heap can hand out
    NULL,           \* the null pointer
    Octet,          \* the octet values written
    Indeterminate,  \* what a cell holds before it is written
    MaxSize,        \* bound: the largest buffer_size
    SizeModulus,    \* 2^w for the w bits of std::size_t
    Values,         \* bound: the octet strings a caller writes
    Half,           \* octets in half of a two-word value (4 in the code)
    Counts,         \* bound: the offsets and counts a caller passes or reads from a message
    ReuseTorn,      \* may a caller go on using an object whose operator= threw
    NullClaims      \* may a caller pass a null pointer with a non-zero size

ASSUME HeapAssumption ==
    /\ NULL \notin Blocks
    /\ Indeterminate \notin Octet

ASSUME SizeAssumption ==
    /\ MaxSize \in Nat
    /\ SizeModulus \in Nat
    /\ Half \in Nat
    /\ 2 * (MaxSize + Half) < SizeModulus

ASSUME InputAssumption ==
    /\ Counts \subseteq 0..(SizeModulus - 1)
    /\ Values \subseteq Seq(Octet)
    /\ \A v \in Values : Len(v) + MaxSize < SizeModulus
    /\ ReuseTorn \in BOOLEAN
    /\ NullClaims \in BOOLEAN

VARIABLES
    obj,        \* the fields of each object
    capacity,   \* octets allocated to each block, 0 when it is free
    content,    \* the cells of each block
    held,       \* the blocks the caller has to free
    torn,       \* objects left behind by an operator= that threw
    fault,      \* the program has crashed
    out         \* what the last call returned

vars == <<obj, capacity, content, held, torn, fault, out>>

-----------------------------------------------------------------------------
Cell    == Octet \cup {Indeterminate}
Sizes   == 0..MaxSize
Offsets == 0..(MaxSize - 1)
Blank   == [i \in Offsets |-> Indeterminate]

State == [alive: BOOLEAN, buffer: Blocks \cup {NULL}, owns_buffer: BOOLEAN,
          buffer_size: Sizes, data_length: Sizes, read_length: Sizes]

\* What a caller saw of the last call: the function, the object, a count it was
\* called with (0: none), and how it ended.
Operations == {"Caller", "Construct", "FromOctets", "Copy", "Move", "Destroy",
               "Assign", "Take", "SetBuffer", "SetDataLength", "Reset", "Advance",
               "Store", "Append", "Get", "Read"}

Results == [op: Operations, self: Objects \cup {NULL}, n: Nat,
            status: {"ok", "threw"}, data: Seq(Cell)]

\* The type invariant.
TypeOK ==
    /\ obj \in [Objects -> State]
    /\ capacity \in [Blocks -> Sizes]
    /\ content \in [Blocks -> [Offsets -> Cell]]
    /\ held \in SUBSET Blocks
    /\ torn \in SUBSET Objects
    /\ fault \in BOOLEAN
    /\ out \in Results

\* std::size_t addition of two values below the modulus.
Plus(a, b) == IF a + b < SizeModulus THEN a + b ELSE (a + b) - SizeModulus

Live == {b \in Blocks : capacity[b] > 0}

Accessible(p, n) == p \in Live /\ n <= capacity[p]

Object(p, owns, size, data, read) ==
    [alive |-> TRUE, buffer |-> p, owns_buffer |-> owns,
     buffer_size |-> size, data_length |-> data, read_length |-> read]

Default == Object(NULL, FALSE, 0, 0, 0)

\* No object: what a destroyed one held is gone.
Dead == [alive |-> FALSE, buffer |-> NULL, owns_buffer |-> FALSE,
         buffer_size |-> 0, data_length |-> 0, read_length |-> 0]

-----------------------------------------------------------------------------
(* Outcomes shared by the member functions. *)

\* The block b now has n octets holding cells; the freed blocks are gone.
Heap(freed, b, n, cells) ==
    /\ capacity' = [x \in Blocks |-> IF x = b THEN n
                                     ELSE IF x \in freed THEN 0
                                     ELSE capacity[x]]
    /\ content' = [x \in Blocks |-> IF x = b THEN cells
                                    ELSE IF x \in freed THEN Blank
                                    ELSE content[x]]

Result(op, o, n, status, octets) ==
    [op |-> op, self |-> o, n |-> n, status |-> status, data |-> octets]

Gives(op, o, n, octets) == out' = Result(op, o, n, "ok", octets) /\ UNCHANGED fault
Returns(op, o, n)       == Gives(op, o, n, <<>>)
Throws(op, o, n)        == out' = Result(op, o, n, "threw", <<>>) /\ UNCHANGED fault

\* The function throws before it has changed anything.
Refused(op, o, n) ==
    Throws(op, o, n) /\ UNCHANGED <<obj, capacity, content, held, torn>>

\* An access the program does not survive.
Crash == fault' = TRUE /\ UNCHANGED <<obj, capacity, content, held, torn, out>>

\* The cells with the octets v stored from offset on.
Stored(cells, offset, v) ==
    [i \in Offsets |-> IF i \in offset..(offset + Len(v) - 1)
                       THEN v[i - offset + 1] ELSE cells[i]]

\* n octets of block p from offset on, as a caller receives them.
Octets(p, offset, n) == [i \in 1..n |-> content[p][offset + i - 1]]

-----------------------------------------------------------------------------
(* The two private functions that manage memory. *)

\* The block FreeBuffer deletes.
Frees(d) == IF d.owns_buffer THEN {d.buffer} \ {NULL} ELSE {}

\* Mutant: the pointer is not reset.
FreeBufferKeepsPointer(d) == [d EXCEPT !.data_length = 0, !.read_length = 0]

FreeBuffer(d) == [d EXCEPT !.buffer = NULL, !.data_length = 0, !.read_length = 0]

\* What "new unsigned char[buffer_size]" may give: a free block, or NULL when
\* it throws (and when buffer_size is 0 and nothing is asked of it).
Allocation(d) ==
    {NULL} \cup {b \in Blocks \ Live : d.buffer_size > 0}
           \cup {b \in Frees(d) : d.buffer_size > 0}

AllocateBuffer(d, b) ==
    LET f == IF d.buffer = NULL THEN d ELSE FreeBuffer(d)
    IN  IF b = NULL THEN f ELSE [f EXCEPT !.buffer = b, !.owns_buffer = TRUE]

\* AllocateBuffer(d, b) throws.
AllocationFails(d, b) == d.buffer_size > 0 /\ b = NULL

-----------------------------------------------------------------------------
(* The caller. *)

Exists(o) == ~fault /\ obj[o].alive
Vacant(o) == ~fault /\ ~obj[o].alive

\* An object is only used again after its operator= threw if ReuseTorn.
Usable(o) == Exists(o) /\ (ReuseTorn \/ o \notin torn)

\* A block the caller holds is lent to at most one object at a time.
LentTo(b) == {o \in Objects : obj[o].alive /\ obj[o].buffer = b}

\* Pointer and size a caller may hand to object o.
Lendable(o, p, n) ==
    \/ p = NULL /\ (n = 0 \/ NullClaims)
    \/ p \in held /\ LentTo(p) \subseteq {o} /\ n <= capacity[p]

CallerAllocate(b, n, x) ==
    /\ ~fault
    /\ b \notin Live
    /\ n > 0
    /\ Heap({}, b, n, [i \in Offsets |-> IF i < n THEN x ELSE Indeterminate])
    /\ held' = held \cup {b}
    /\ Returns("Caller", NULL, 0)
    /\ UNCHANGED <<obj, torn>>

CallerFree(b) ==
    /\ ~fault
    /\ b \in held
    /\ LentTo(b) = {}
    /\ Heap({b}, NULL, 0, Blank)
    /\ held' = held \ {b}
    /\ Returns("Caller", NULL, 0)
    /\ UNCHANGED <<obj, torn>>

-----------------------------------------------------------------------------
(* Construction and destruction. *)

DefaultConstruct(o) ==
    /\ Vacant(o)
    /\ obj' = [obj EXCEPT ![o] = Default]
    /\ Returns("Construct", o, 0)
    /\ UNCHANGED <<capacity, content, held, torn>>

\* The object is built from d with block b, holding cells; nothing is built
\* when the allocation throws.
Build(op, o, d, b, cells) ==
    \/ AllocationFails(d, b) /\ Refused(op, o, 0)
    \/ /\ ~AllocationFails(d, b)
       /\ obj' = [obj EXCEPT ![o] = AllocateBuffer(d, b)]
       /\ Heap({}, b, d.buffer_size, cells)
       /\ Returns(op, o, 0)
       /\ UNCHANGED <<held, torn>>

SizeConstruct(o, n) ==
    LET d == Object(NULL, FALSE, n, 0, 0)
    IN  /\ Vacant(o)
        /\ \E b \in Allocation(d) : Build("Construct", o, d, b, Blank)

PointerConstruct(o, p, n, length) ==
    /\ Vacant(o)
    /\ Lendable(o, p, n)
    /\ IF (p # NULL /\ n = 0) \/ length > n
       THEN Refused("Construct", o, 0)
       ELSE /\ obj' = [obj EXCEPT ![o] = Object(p, FALSE, n, length, 0)]
            /\ Returns("Construct", o, 0)
            /\ UNCHANGED <<capacity, content, held, torn>>

\* Delegates to the size constructor, then allocates afresh: the first block
\* is deleted before the second is asked for, so one is ever seen.
OctetStringConstruct(o, v, n) ==
    LET size == IF n > 0 THEN n ELSE Len(v)
        d    == Object(NULL, FALSE, size, Len(v), 0)
    IN  /\ Vacant(o)
        /\ size <= MaxSize
        /\ IF Len(v) > size
           THEN Refused("FromOctets", o, 0)
           ELSE \E b \in Allocation(d) : Build("FromOctets", o, d, b, Stored(Blank, 0, v))

\* Mutant: the last octet is not copied.
PrefixTooShort(cells, n) ==
    [i \in Offsets |-> IF i < n - 1 THEN cells[i] ELSE Indeterminate]

\* The first n cells of a block: all memcpy carries over to a new block.
Prefix(cells, n) == [i \in Offsets |-> IF i < n THEN cells[i] ELSE Indeterminate]

CopyConstruct(o, s) ==
    LET other == obj[s]
        d     == Object(NULL, FALSE, other.buffer_size, other.data_length,
                        other.read_length)
    IN  /\ Vacant(o)
        /\ Usable(s)
        /\ \E b \in Allocation(d) :
             IF b # NULL /\ other.data_length > 0
                         /\ ~Accessible(other.buffer, other.data_length)
             THEN Crash
             ELSE Build("Copy", o, d, b, IF other.data_length = 0 THEN Blank
                                 ELSE Prefix(content[other.buffer], other.data_length))

\* Mutant: the moved-from object keeps its pointer.
MovedFromKeepsBuffer(d) == [d EXCEPT !.data_length = 0, !.read_length = 0]

\* What the move constructor leaves in the object it moved from.
MovedFrom(d) == Default

MoveConstruct(o, s) ==
    /\ Vacant(o)
    /\ Usable(s)
    /\ obj' = [obj EXCEPT ![o] = obj[s], ![s] = MovedFrom(obj[s])]
    /\ torn' = IF s \in torn THEN (torn \ {s}) \cup {o} ELSE torn
    /\ Returns("Move", o, 0)
    /\ UNCHANGED <<capacity, content, held>>

Destroy(o) ==
    /\ Exists(o)
    /\ IF Frees(obj[o]) \subseteq Live
       THEN /\ obj' = [obj EXCEPT ![o] = Dead]
            /\ Heap(Frees(obj[o]), NULL, 0, Blank)
            /\ torn' = torn \ {o}
            /\ Returns("Destroy", o, 0)
            /\ UNCHANGED held
       ELSE Crash

-----------------------------------------------------------------------------
(* Assignment. *)

\* operator= first forgets a buffer the object does not own.
Target(d) ==
    IF d.owns_buffer THEN d ELSE [d EXCEPT !.buffer = NULL, !.buffer_size = 0]

AssignSelf(o) ==
    /\ Usable(o)
    /\ Returns("Assign", o, 0)
    /\ UNCHANGED <<obj, capacity, content, held, torn>>

\* memcpy of the data into d, whose block holds cells once allocated, and the
\* two lengths that follow it.
CopyData(o, s, d, freed, size, cells) ==
    LET n == obj[s].data_length
    IN  IF n > 0 /\ ~(Accessible(obj[s].buffer, n) /\ d.buffer # NULL /\ n <= size)
        THEN Crash
        ELSE /\ obj' = [obj EXCEPT ![o] = [d EXCEPT !.data_length = n,
                                              !.read_length = obj[s].read_length]]
             /\ Heap(freed, d.buffer, size,
                     [i \in Offsets |-> IF i < n THEN content[obj[s].buffer][i]
                                                 ELSE cells[i]])
             /\ torn' = IF s \in torn THEN torn \cup {o} ELSE torn
             /\ Returns("Assign", o, 0)
             /\ UNCHANGED held

\* The sizes are equal: the buffer is written over.
AssignInPlace(o, s) ==
    LET d == Target(obj[o])
    IN  /\ o # s /\ Usable(o) /\ Usable(s)
        /\ d.buffer_size = obj[s].buffer_size
        /\ IF d.buffer = NULL
           THEN CopyData(o, s, d, {}, 0, Blank)
           ELSE CopyData(o, s, d, {}, capacity[d.buffer], content[d.buffer])

\* Mutant: the new size is not recorded.
ResizedNot(d, n) == d

\* The sizes differ: the buffer is replaced by one of the other's size.
Resized(d, n) == [d EXCEPT !.buffer_size = n]

AssignReallocated(o, s) ==
    LET d == Resized(Target(obj[o]), obj[s].buffer_size)
    IN  /\ o # s /\ Usable(o) /\ Usable(s)
        /\ Target(obj[o]).buffer_size # obj[s].buffer_size
        /\ \E b \in Allocation(d) :
             /\ ~AllocationFails(d, b)
             /\ CopyData(o, s, AllocateBuffer(d, b), Frees(d), d.buffer_size, Blank)

\* The allocation throws: the old buffer is gone and the new size is set.
AssignFails(o, s) ==
    LET d == Resized(Target(obj[o]), obj[s].buffer_size)
    IN  /\ o # s /\ Usable(o) /\ Usable(s)
        /\ Target(obj[o]).buffer_size # obj[s].buffer_size
        /\ AllocationFails(d, NULL)
        /\ obj' = [obj EXCEPT ![o] = AllocateBuffer(d, NULL)]
        /\ Heap(Frees(d), NULL, 0, Blank)
        /\ torn' = torn \cup {o}
        /\ Throws("Assign", o, 0)
        /\ UNCHANGED held

Assign(o, s) ==
    \/ o = s /\ AssignSelf(o)
    \/ AssignInPlace(o, s)
    \/ AssignReallocated(o, s)
    \/ AssignFails(o, s)

\* operator==
Equal(a, b) ==
    \/ a = b
    \/ /\ obj[a].data_length = obj[b].data_length
       /\ \/ obj[a].data_length = 0
          \/ obj[a].buffer = NULL /\ obj[b].buffer = NULL
          \/ /\ obj[a].buffer # NULL /\ obj[b].buffer # NULL
             /\ Octets(obj[a].buffer, 0, obj[a].data_length)
                    = Octets(obj[b].buffer, 0, obj[b].data_length)

-----------------------------------------------------------------------------
(* Passing memory between an object and its caller. *)

TakeBufferOwnership(o) ==
    /\ Exists(o)
    /\ obj' = [obj EXCEPT ![o] = Default]
    /\ held' = held \cup ({obj[o].buffer} \ {NULL})
    /\ torn' = torn \ {o}
    /\ Returns("Take", o, 0)
    /\ UNCHANGED <<capacity, content>>

SetBuffer(o, p, n, length, take) ==
    /\ Exists(o)
    /\ Lendable(o, p, n)
    /\ IF length > n
       THEN Refused("SetBuffer", o, 0)
       ELSE IF ~(Frees(obj[o]) \subseteq Live)
       THEN Crash
       ELSE /\ obj' = [obj EXCEPT ![o] = Object(p, take, n, length, 0)]
            /\ Heap(Frees(obj[o]), NULL, 0, Blank)
            /\ held' = IF take THEN held \ {p} ELSE held
            /\ torn' = torn \ {o}
            /\ Returns("SetBuffer", o, 0)

-----------------------------------------------------------------------------
(* The lengths. *)

Minimum(a, b) == IF a < b THEN a ELSE b

\* Mutant: the read length is left beyond the shortened data.
WithDataLengthOnly(d, length) == [d EXCEPT !.data_length = length]

WithDataLength(d, length) ==
    [d EXCEPT !.data_length = length, !.read_length = Minimum(length, @)]

SetDataLength(o, length) ==
    /\ Usable(o)
    /\ IF (obj[o].buffer = NULL /\ length > 0) \/ length > obj[o].buffer_size
       THEN Refused("SetDataLength", o, length)
       ELSE /\ obj' = [obj EXCEPT ![o] = WithDataLength(obj[o], length)]
            /\ Returns("SetDataLength", o, length)
            /\ UNCHANGED <<capacity, content, held, torn>>

ResetReadLength(o) ==
    /\ Usable(o)
    /\ obj' = [obj EXCEPT ![o].read_length = 0]
    /\ Returns("Reset", o, 0)
    /\ UNCHANGED <<capacity, content, held, torn>>

\* Mutant: one octet too many may be consumed.
BeyondDataByOne(d, n) == Plus(d.read_length, n) > d.data_length + 1

\* The check made before n octets are skipped or read.
BeyondData(d, n) == Plus(d.read_length, n) > d.data_length

Advanced(d, n) == [d EXCEPT !.read_length = Plus(@, n)]

AdvanceReadLength(o, n) ==
    /\ Usable(o)
    /\ IF BeyondData(obj[o], n)
       THEN Refused("Advance", o, n)
       ELSE /\ obj' = [obj EXCEPT ![o] = Advanced(@, n)]
            /\ Returns("Advance", o, n)
            /\ UNCHANGED <<capacity, content, held, torn>>

-----------------------------------------------------------------------------
(* Writing. *)

\* The cells from offset on take the octets v.
Write(o, offset, v) ==
    LET p == obj[o].buffer
    IN  Heap({}, p, capacity[p], Stored(content[p], offset, v))

\* operator[] used to store an octet: it looks at buffer_size alone.
WriteOctet(o, offset, x) ==
    /\ Usable(o)
    /\ IF offset >= obj[o].buffer_size
       THEN Refused("Store", o, offset + 1)
       ELSE IF ~Accessible(obj[o].buffer, offset + 1)
       THEN Crash
       ELSE /\ Write(o, offset, <<x>>)
            /\ Returns("Store", o, offset + 1)
            /\ UNCHANGED <<obj, held, torn>>

\* Mutant: the check forgets the offset.
BeyondBufferFromStart(d, offset, n) == d.buffer = NULL \/ n > d.buffer_size

\* The check made before n octets are written at an offset.
BeyondBuffer(d, offset, n) ==
    d.buffer = NULL \/ Plus(offset, n) > d.buffer_size

SetValue(o, offset, v) ==
    /\ Usable(o)
    /\ IF Len(v) > 0 /\ BeyondBuffer(obj[o], offset, Len(v))
       THEN Refused("Store", o, offset + Len(v))
       ELSE IF Len(v) > 0 /\ ~Accessible(obj[o].buffer, offset + Len(v))
       THEN Crash
       ELSE /\ IF Len(v) = 0 THEN UNCHANGED <<capacity, content>>
                             ELSE Write(o, offset, v)
            /\ Returns("Store", o, offset + Len(v))
            /\ UNCHANGED <<obj, held, torn>>

\* A 64-bit value is stored as two words; the second may be refused after the
\* first has been written.
SetValue64(o, offset, high, low) ==
    /\ Usable(o)
    /\ Len(high) = Half /\ Len(low) = Half /\ Half > 0
    /\ UNCHANGED <<obj, held, torn>>
    /\ IF BeyondBuffer(obj[o], offset, Half)
       THEN Throws("Store", o, offset + 2 * Half) /\ UNCHANGED <<capacity, content>>
       ELSE IF ~Accessible(obj[o].buffer, offset + Half)
       THEN fault' = TRUE /\ UNCHANGED <<capacity, content, out>>
       ELSE IF BeyondBuffer(obj[o], Plus(offset, Half), Half)
       THEN Throws("Store", o, offset + 2 * Half) /\ Write(o, offset, high)
       ELSE IF ~Accessible(obj[o].buffer, offset + 2 * Half)
       THEN fault' = TRUE /\ UNCHANGED <<capacity, content, out>>
       ELSE Returns("Store", o, offset + 2 * Half) /\ Write(o, offset, high \o low)

\* Every typed AppendValue comes down to this one; the 64-bit form checks for
\* all its octets before it appends the first word.
AppendValue(o, v) ==
    /\ Usable(o)
    /\ IF Len(v) > 0 /\ BeyondBuffer(obj[o], obj[o].data_length, Len(v))
       THEN Refused("Append", o, Len(v))
       ELSE IF Len(v) > 0 /\ ~Accessible(obj[o].buffer, obj[o].data_length + Len(v))
       THEN Crash
       ELSE /\ IF Len(v) = 0 THEN UNCHANGED <<capacity, content>>
                             ELSE Write(o, obj[o].data_length, v)
            /\ obj' = [obj EXCEPT ![o].data_length = @ + Len(v)]
            /\ Returns("Append", o, Len(v))
            /\ UNCHANGED <<held, torn>>

-----------------------------------------------------------------------------
(* Reading. *)

GetValue(o, offset, n) ==
    LET d == obj[o]
    IN  /\ Usable(o)
        /\ IF n > 0 /\ Plus(offset, n) > d.data_length
           THEN Refused("Get", o, offset + n)
           ELSE IF n > 0 /\ ~Accessible(d.buffer, offset + n)
           THEN Crash
           ELSE /\ Gives("Get", o, offset + n, IF n = 0 THEN <<>> ELSE Octets(d.buffer, offset, n))
                /\ UNCHANGED <<obj, capacity, content, held, torn>>

\* A read of a count the program chose.
ReadValue(o, n) ==
    LET d == obj[o]
    IN  /\ Usable(o)
        /\ IF n > 0 /\ BeyondData(d, n)
           THEN Refused("Read", o, n)
           ELSE IF n > 0 /\ ~Accessible(d.buffer, d.read_length + n)
           THEN Crash
           ELSE /\ Gives("Read", o, n, IF n = 0 THEN <<>> ELSE Octets(d.buffer, d.read_length, n))
                /\ obj' = [obj EXCEPT ![o] = Advanced(d, n)]
                /\ UNCHANGED <<capacity, content, held, torn>>

\* A read into a string of a count taken from a message: when the sum wraps
\* the check lets it through, and the string's insert throws length_error.
ReadString(o, n) ==
    IF n > 0 /\ Usable(o) /\ ~BeyondData(obj[o], n) /\ n > MaxSize
    THEN Refused("Read", o, n)
    ELSE ReadValue(o, n)

-----------------------------------------------------------------------------
Init ==
    /\ obj = [o \in Objects |-> Dead]
    /\ capacity = [b \in Blocks |-> 0]
    /\ content = [b \in Blocks |-> Blank]
    /\ held = {}
    /\ torn = {}
    /\ fault = FALSE
    /\ out = Result("Caller", NULL, 0, "ok", <<>>)

Next ==
    \/ \E b \in Blocks, n \in Sizes, x \in Octet : CallerAllocate(b, n, x)
    \/ \E b \in Blocks : CallerFree(b)
    \/ \E o \in Objects :
         \/ DefaultConstruct(o)
         \/ \E n \in Sizes : SizeConstruct(o, n)
         \/ \E p \in Blocks \cup {NULL}, n, length \in Sizes :
              PointerConstruct(o, p, n, length)
         \/ \E v \in Values, n \in Sizes : OctetStringConstruct(o, v, n)
         \/ \E s \in Objects : CopyConstruct(o, s)
         \/ \E s \in Objects : MoveConstruct(o, s)
         \/ Destroy(o)
         \/ \E s \in Objects : Assign(o, s)
         \/ TakeBufferOwnership(o)
         \/ \E p \in Blocks \cup {NULL}, n, length \in Sizes, take \in BOOLEAN :
              SetBuffer(o, p, n, length, take)
         \/ \E n \in Sizes : SetDataLength(o, n)
         \/ ResetReadLength(o)
         \/ \E n \in Counts : AdvanceReadLength(o, n)
         \/ \E i \in Counts, x \in Octet : WriteOctet(o, i, x)
         \/ \E i \in Counts, v \in Values : SetValue(o, i, v)
         \/ \E i \in Counts, high, low \in Values : SetValue64(o, i, high, low)
         \/ \E v \in Values : AppendValue(o, v)
         \/ \E i, n \in Counts : GetValue(o, i, n)
         \/ \E n \in Counts : ReadValue(o, n)
         \/ \E n \in Counts : ReadString(o, n)

Spec == Init /\ [][Next]_vars

-----------------------------------------------------------------------------
(* Properties. *)

\* Every allocated block has exactly one owner that will free it, an object
\* or the caller, and nothing owns a block that is gone: no call sequence
\* leaks a buffer or deletes it twice (FreeBuffer, the move constructor,
\* TakeBufferOwnership and SetBuffer's take_ownership).
Owners(b) == {o \in Objects : obj[o].alive /\ b \in Frees(obj[o])}

OneOwner ==
    \A b \in Blocks :
        /\ b \in held => b \in Live /\ Owners(b) = {}
        /\ b \in Live \ held => \E o \in Objects : Owners(b) = {o}
        /\ Owners(b) # {} => b \in Live

\* A pointer is null or names a live block of at least buffer_size octets,
\* and no two objects share a block: an operation on one object can never
\* reach the octets of another.
NoDangling ==
    \A o \in Objects : obj[o].alive /\ obj[o].buffer # NULL =>
        /\ obj[o].buffer \in Live
        /\ obj[o].buffer_size <= capacity[obj[o].buffer]
        /\ LentTo(obj[o].buffer) = {o}

\* What every bounds check of the class relies on: the read length is within
\* the data, the data within the buffer, and without a buffer there is
\* neither.  Only an operator= that threw, or a caller that claims a size for
\* null, leaves an object where this is false.
LengthsOrdered ==
    \A o \in Objects \ torn :
        /\ obj[o].buffer = NULL => obj[o].buffer_size = 0
        /\ obj[o].read_length <= obj[o].data_length
        /\ obj[o].data_length <= obj[o].buffer_size

\* data_buffer.h:61-65: what cannot be done is refused with an exception, so
\* no sequence of calls reaches memory it should not.  It takes a caller that
\* leaves an object alone whose operator= threw, claims no size for null, and
\* passes no offset or count whose sum with another wraps round.
NoFault == ~fault

\* Object o as a copy of s: equal as operator== compares them, as large and
\* read as far.
CopyOf(o, s) ==
    /\ Equal(o, s)
    /\ obj[o].buffer_size = obj[s].buffer_size
    /\ obj[o].read_length = obj[s].read_length

\* A copy or an assignment that returns leaves the target a copy of its source.
CopiesEqual ==
    [][\A o, s \in Objects :
          (CopyConstruct(o, s) \/ Assign(o, s)) /\ out'.status = "ok" /\ ~fault'
              => CopyOf(o, s)']_vars

\* Each object is an independent value (module OctetBuffers): what the blocks
\* hold and who owns them cannot be told from outside.  An operation changes
\* no object but its own, a read returns the octets in the order they were
\* appended, and a call that throws leaves every value as it was.
ValueOf(o) ==
    LET known == obj[o].alive /\ o \notin torn
    IN  [kind |-> IF ~obj[o].alive THEN "gone"
                  ELSE IF o \in torn THEN "unspecified" ELSE "known",
         cells |-> IF known THEN [i \in 0..(obj[o].buffer_size - 1) |->
                                        content[obj[o].buffer][i]]
                            ELSE <<>>,
         data |-> IF known THEN obj[o].data_length ELSE 0,
         read |-> IF known THEN obj[o].read_length ELSE 0]

Abstract == INSTANCE OctetBuffers WITH value <- [o \in Objects |-> ValueOf(o)],
                                      Nobody <- NULL

ImplementsOctetBuffers == Abstract!Spec
=============================================================================
