---------------------------- MODULE OctetBuffers ----------------------------
(***************************************************************************)
(* What a program that uses gs::DataBuffer may rely on, with no pointers,  *)
(* blocks or ownership: every object is a value of its own.  A value has   *)
(* cells, of which the first "data" are in use and the first "read" have   *)
(* been read.  An operation changes the value of the object it is called   *)
(* on (a move: of the two objects) and of no other; a copy has equal data; *)
(* a read, skip, append or change of length throws exactly when the octets *)
(* or the room for it are not there.  A call that throws changes nothing,  *)
(* except an assignment that runs out of memory and the second half of a   *)
(* two-word store.  The variable out is the last call and its result.      *)
(***************************************************************************)
EXTENDS Integers, Sequences

CONSTANTS Objects, Cell, MaxSize, Values, Half, Nobody

VARIABLES value, out

vars == <<value, out>>

Sizes == 0..MaxSize
Cells == UNION {[0..(n - 1) -> Cell] : n \in Sizes}
Value == {v \in [kind: {"known"}, cells: Cells, data: Sizes, read: Sizes] :
             v.read <= v.data /\ v.data <= MaxSize}

Size(v) == CHOOSE n \in Sizes : DOMAIN v.cells = 0..(n - 1)
Empty   == [kind |-> "known", cells |-> <<>>, data |-> 0, read |-> 0]

\* An object that does not exist, and one left behind by a failed assignment.
Gone        == [Empty EXCEPT !.kind = "gone"]
Unspecified == [Empty EXCEPT !.kind = "unspecified"]

Known(o) == value[o].kind = "known"

\* Only the objects in S may have changed.
Only(S) == \A o \in Objects \ S : value'[o] = value[o]

Gives(op, o, n, octets) ==
    out' = [op |-> op, self |-> o, n |-> n, status |-> "ok", data |-> octets]
Ok(op, o, n)    == Gives(op, o, n, <<>>)
Threw(op, o, n) ==
    out' = [op |-> op, self |-> o, n |-> n, status |-> "threw", data |-> <<>>]

Overwritten(cells, i, v) ==
    [j \in DOMAIN cells |-> IF j \in i..(i + Len(v) - 1) THEN v[j - i + 1] ELSE cells[j]]

Slice(v, i, n) == [j \in 1..n |-> v.cells[i + j - 1]]

-----------------------------------------------------------------------------
Init ==
    /\ value = [o \in Objects |-> Gone]
    /\ out = [op |-> "Caller", self |-> Nobody, n |-> 0, status |-> "ok", data |-> <<>>]

\* The caller manages memory of its own.
Elsewhere == Ok("Caller", Nobody, 0) /\ UNCHANGED value

\* Given room for some octets, of which some may be data already.
Fill(o) ==
    /\ \/ Ok("Construct", o, 0) /\ value[o] = Gone
       \/ Ok("SetBuffer", o, 0) /\ value[o] # Gone
    /\ value'[o] \in Value
    /\ value'[o].data <= Size(value'[o]) /\ value'[o].read = 0

\* Built from an octet string: the data is the string.
FromOctets(o, v) ==
    /\ Ok("FromOctets", o, 0)
    /\ value[o] = Gone /\ value'[o] \in Value
    /\ value'[o].data = Len(v) /\ value'[o].read = 0
    /\ Len(v) <= Size(value'[o]) /\ Slice(value'[o], 0, Len(v)) = v

\* As large as s, holding the same data, read as far.
Copy(o, s) ==
    LET v == value[s]
        w == value'[o]
    IN  /\ \/ Ok("Copy", o, 0) /\ value[o] = Gone
           \/ Ok("Assign", o, 0) /\ value[o] # Gone
        /\ Known(s)
        /\ w \in Value
        /\ Size(w) = Size(v) /\ w.data = v.data /\ w.read = v.read
        /\ \A i \in 0..(v.data - 1) : w.cells[i] = v.cells[i]

\* Assignment that throws: nothing is known of the target until it is given a
\* buffer, gives its own away or is destroyed.
AssignThrows(o) ==
    /\ Threw("Assign", o, 0)
    /\ value[o] # Gone
    /\ value'[o] = Unspecified

Release(o) ==
    /\ Ok("Take", o, 0)
    /\ value[o] # Gone
    /\ value'[o] = Empty

Destroy(o) ==
    /\ Ok("Destroy", o, 0)
    /\ value[o] # Gone
    /\ value'[o] = Gone

SetDataLength(o, n) ==
    /\ Known(o) /\ Ok("SetDataLength", o, n)
    /\ n <= Size(value[o])
    /\ value'[o] = [value[o] EXCEPT !.data = n, !.read = IF n < @ THEN n ELSE @]

Rewind(o) ==
    /\ Known(o) /\ Ok("Reset", o, 0)
    /\ value'[o] = [value[o] EXCEPT !.read = 0]

Left(v) == v.data - v.read

\* Skipping moves the position forward, by no more than is left to read.
Skip(o, n) ==
    /\ Known(o) /\ Ok("Advance", o, n)
    /\ n <= Left(value[o])
    /\ value'[o] = [value[o] EXCEPT !.read = @ + n]

\* A read returns the next n octets and moves past them.
Read(o, n) ==
    /\ Known(o) /\ n <= Left(value[o])
    /\ Gives("Read", o, n, Slice(value[o], value[o].read, n))
    /\ value'[o] = [value[o] EXCEPT !.read = @ + n]

\* Octets of the data, up to the n-th, without moving.
Get(o, i, n) ==
    /\ Known(o) /\ i <= n /\ (i = n \/ n <= value[o].data)
    /\ Gives("Get", o, n, Slice(value[o], i, n - i))
    /\ value'[o] = value[o]

\* v stored so that it ends at the n-th cell; nothing at all if v is empty.
Store(o, n, v) ==
    /\ Known(o) /\ Ok("Store", o, n)
    /\ Len(v) <= n /\ (Len(v) = 0 \/ n <= Size(value[o]))
    /\ value'[o] = [value[o] EXCEPT !.cells = Overwritten(@, n - Len(v), v)]

\* A value of two words of which the first alone fits.
StoreHalf(o, n, v) ==
    /\ Known(o) /\ Threw("Store", o, n)
    /\ Len(v) = Half /\ n - Half <= Size(value[o]) /\ n > Size(value[o])
    /\ value'[o] = [value[o] EXCEPT !.cells = Overwritten(@, n - 2 * Half, v)]

AppendOctets(o, v) ==
    /\ Known(o) /\ Ok("Append", o, Len(v))
    /\ value[o].data + Len(v) <= Size(value[o])
    /\ value'[o] = [value[o] EXCEPT !.cells = Overwritten(@, value[o].data, v),
                                    !.data = @ + Len(v)]

\* A call on o that throws and changes nothing: memory or the caller's buffer
\* may be refused at any time, the rest only for want of octets or room.
Refuse(o, n) ==
    /\ value'[o] = value[o]
    /\ \/ \E op \in {"Construct", "FromOctets", "Copy", "SetBuffer"} : Threw(op, o, n)
       \/ /\ Known(o)
          /\ \/ Threw("SetDataLength", o, n) /\ n > Size(value[o])
             \/ \E op \in {"Advance", "Read"} : Threw(op, o, n) /\ n > Left(value[o])
             \/ Threw("Append", o, n) /\ n > Size(value[o]) - value[o].data
             \/ Threw("Store", o, n) /\ n > Size(value[o])
             \/ Threw("Get", o, n) /\ n > value[o].data

\* What may happen to the value of o alone.
OwnStep(o) ==
    \/ Refuse(o, out'.n)
    \/ Fill(o)
    \/ \E v \in Values : FromOctets(o, v)
    \/ \E s \in Objects : Copy(o, s)
    \/ AssignThrows(o)
    \/ Release(o)
    \/ Destroy(o)
    \/ SetDataLength(o, out'.n)
    \/ Rewind(o)
    \/ Skip(o, out'.n)
    \/ Read(o, out'.n)
    \/ \E i \in 0..out'.n : Get(o, i, out'.n)
    \/ \E v \in Values : Store(o, out'.n, v)
    \/ \E u, v \in Values : Store(o, out'.n, u \o v)
    \/ \E v \in Values : StoreHalf(o, out'.n, v)
    \/ \E v \in Values : AppendOctets(o, v)

Move(o, s) ==
    /\ Ok("Move", o, 0)
    /\ value[o] = Gone /\ Known(s)
    /\ value' = [value EXCEPT ![o] = value[s], ![s] = Empty]

Next ==
    \/ Elsewhere
    \/ \E o \in Objects : out'.self = o /\ Only({o}) /\ OwnStep(o)
    \/ \E o, s \in Objects : Move(o, s)

Spec == Init /\ [][Next]_vars
=============================================================================
