---------------------------- MODULE MCDataBuffer ----------------------------
(* Values of DataBuffer's constants that a configuration cannot write. *)
EXTENDS DataBuffer, TLC

MCValues == UNION {[1..n -> Octet] : n \in 0..MaxSize}

\* No octet twice, so that each has its place.
MCDistinct == {v \in MCValues : \A i, j \in DOMAIN v : v[i] = v[j] => i = j}

\* One octet beyond the largest buffer, but no sum wraps.
MCCounts == 0..(MaxSize + 1)

\* Lengths for which read_length + count wraps as well.
MCWideCounts == MCCounts \cup {SizeModulus - 1}

\* No action reads out, so states that differ in it alone are explored once.
MCView == <<obj, capacity, content, held, torn, fault>>

\* Nor does any action decide by the octets it finds: where only pointers and
\* lengths are asked about, states that differ in octets are explored once.
MCOwners == <<obj, capacity, held, torn, fault>>

\* The whole group, since TLC may not find all that two permutations generate.
MCSymmetry == {p @@ q : p \in Permutations(Objects), q \in Permutations(Blocks)}

\* Octets are only stored, copied and returned.
MCOctetSymmetry == {p @@ q : p \in MCSymmetry, q \in Permutations(Octet)}
=============================================================================
