----------------------------- MODULE ObjectQueue -----------------------------
(***************************************************************************)
(* What the Encoder and the Decoder promise together, with no octets: a    *)
(* buffer is a queue of whole objects, each of a known length.  Encoding   *)
(* appends every object that fits, and all of it or nothing; decoding      *)
(* returns the objects in that order, unchanged, and says how many octets  *)
(* each took, even when a newer peer has put more into one than is         *)
(* understood.  What is left of an object that was cut off is never taken  *)
(* for an object.                                                          *)
(***************************************************************************)
EXTENDS Integers, Sequences

CONSTANT LengthOf(_)    \* the octets an object takes

VARIABLES
    size,       \* octets of the buffer, 0: none, used to measure objects
    queue,      \* what is in it: objects and the octets each of them takes
    taken,      \* how many of them have been decoded
    damaged,    \* a part of one more object follows the queue
    lost,       \* an exception has left the reader inside an object
    out         \* the last call: its objects (given or returned) and its result

vars == <<size, queue, taken, damaged, lost, out>>

Entry(v, octets) == [object |-> v, octets |-> octets]
Entries(vs)      == [i \in DOMAIN vs |-> Entry(vs[i], LengthOf(vs[i]))]
Objects(q)       == [i \in DOMAIN q |-> q[i].object]

Total(q) ==
    LET sum[i \in 0..Len(q)] == IF i = 0 THEN 0 ELSE sum[i - 1] + q[i].octets
    IN  sum[Len(q)]

Ok(op, objects, octets, values) ==
    out' = [op |-> op, objects |-> objects, octets |-> octets,
            threw |-> FALSE, values |-> values]
Threw(op, values) ==
    out' = [op |-> op, objects |-> 0, octets |-> 0, threw |-> TRUE, values |-> values]

Init ==
    /\ size = 0 /\ queue = <<>> /\ taken = 0 /\ damaged = FALSE /\ lost = FALSE
    /\ out = [op |-> "Client", objects |-> 0, octets |-> 0, threw |-> FALSE, values |-> <<>>]

-----------------------------------------------------------------------------
\* The client gives a buffer, or goes back to its start.
Supply ==
    /\ size' \in Nat /\ queue' = <<>> /\ taken' = 0 /\ damaged' = FALSE /\ lost' = FALSE
    /\ Ok("Client", 0, 0, <<>>)

Rewind ==
    /\ taken' = 0 /\ lost' = FALSE
    /\ Ok("Client", 0, 0, <<>>)
    /\ UNCHANGED <<size, queue, damaged>>

\* Another peer appends an object, with octets that are not understood.
Foreign(v, octets) ==
    /\ octets >= LengthOf(v) /\ Total(queue) + octets <= size
    /\ queue' = Append(queue, Entry(v, octets))
    /\ Ok("Client", 0, 0, <<>>)
    /\ UNCHANGED <<size, taken, damaged, lost>>

\* The transport delivers a part of the buffer.
Truncate(k) ==
    /\ taken = 0
    /\ queue' = SubSeq(queue, 1, k) /\ k < Len(queue)
    /\ damaged' \in BOOLEAN
    /\ Ok("Client", 0, 0, <<>>)
    /\ UNCHANGED <<size, taken, lost>>

-----------------------------------------------------------------------------
Measure(vs) ==
    /\ size = 0
    /\ Ok("Encode", Len(vs), Total(Entries(vs)), vs)
    /\ UNCHANGED <<size, queue, taken, damaged, lost>>

\* The first k objects fit and are appended; the next one, if any, does not.
Put(vs, k) ==
    LET new == Entries(SubSeq(vs, 1, k))
    IN  /\ size > 0
        /\ Total(queue) + Total(new) <= size
        /\ k < Len(vs) => Total(queue) + Total(new) + LengthOf(vs[k + 1]) > size
        /\ queue' = queue \o new
        /\ Ok("Encode", k, Total(new), vs)
        /\ UNCHANGED <<size, taken, damaged, lost>>

\* The next object, or all there are.
Rest == SubSeq(queue, taken + 1, Len(queue))

Get(entries) ==
    /\ ~lost
    /\ Ok("Decode", Len(entries), Total(entries), Objects(entries))
    /\ taken' = taken + Len(entries)
    /\ UNCHANGED <<size, queue, damaged, lost>>

GetOne == taken < Len(queue) /\ Get(<<queue[taken + 1]>>)
GetAll == ~damaged /\ Get(Rest)

\* Nothing whole is left: the reader is inside the damaged object, if there is
\* one, and where it was if there is none.
GetThrows(entries) ==
    /\ ~lost
    /\ entries = Rest
    /\ Threw("Decode", Objects(entries))
    /\ taken' = taken + Len(entries)
    /\ lost' = damaged
    /\ UNCHANGED <<size, queue, damaged>>

Next ==
    \/ Supply
    \/ Rewind
    \/ queue' # <<>> /\ LET e == queue'[Len(queue')] IN Foreign(e.object, e.octets)
    \/ \E k \in 0..Len(queue) : Truncate(k)
    \/ Measure(out'.values)
    \/ out'.objects <= Len(out'.values) /\ Put(out'.values, out'.objects)
    \/ GetOne
    \/ GetAll
    \/ GetThrows(Rest)

Spec == Init /\ [][Next]_vars
=============================================================================
