---------------------------- MODULE MCGameStream ----------------------------
(* Objects of every kind, and what clients and peers do with them. *)
EXTENDS GameStream

\* A field of n primitives whose octets tell one primitive from the next.
Sample(n, x) == [i \in 1..n |-> x + i]

Head1(id, ipd) ==
    [kind |-> "Head1", id |-> <<id>>, time |-> <<1>>, location |-> Sample(6, 10),
     rotation |-> Sample(6, 20), ipd |-> ipd]

Object(id, parent) ==
    [kind |-> "Object1", id |-> <<id>>, time |-> <<1>>, position |-> Sample(3, 30),
     rotation |-> Sample(3, 40), scale |-> Sample(3, 50), active |-> <<1>>,
     parent |-> parent]

Hand1(id) ==
    [kind |-> "Hand1", id |-> <<id>>, time |-> <<2>>, left |-> <<0>>,
     location |-> Sample(6, 60), rotation |-> Sample(6, 70)]

Mesh(id) ==
    [kind |-> "Mesh1", id |-> <<id>>, vertices |-> <<Sample(3, 1), Sample(3, 5)>>,
     normals |-> <<>>, textures |-> <<<<3, 400>>>>, triangles |-> <<<<1>>, <<130>>>>]

\* Longer than 127 octets: its length field takes two.
Hand2(id) ==
    [kind |-> "Hand2", id |-> <<id>>, time |-> <<2>>, left |-> <<1>>,
     location |-> Sample(6, 60), rotation |-> Sample(6, 70), wrist |-> Sample(3, 80),
     thumb |-> Sample(12, 90), index |-> Sample(15, 100), middle |-> Sample(15, 101),
     ring |-> Sample(15, 102), pinky |-> Sample(15, 103)]

Ipd(x) == [kind |-> "HeadIPD1", ipd |-> <<x>>]

Unknown(tag, data) == [kind |-> "Unknown", tag |-> tag, data |-> data]

Singles == {Head1(5, <<>>), Head1(300, <<<<9>>>>), Object(5, <<>>), Object(5, <<<<200>>>>),
            Hand1(20000), Mesh(7), Hand2(1), Ipd(3), Unknown(4, <<>>),
            Unknown(2097152, <<1, 3>>)}

MCVectors ==
    {<<v>> : v \in Singles} \cup {<<>>, <<Ipd(3), Head1(300, <<<<9>>>>)>>,
        <<Hand2(1), Unknown(4, <<>>)>>, <<Object(5, <<>>), Mesh(7)>>}

\* Extensions of the kinds without an optional part.
MCPeerObjects ==
    {[object |-> Hand1(20000), extra |-> <<1>>], [object |-> Ipd(3), extra |-> <<2, 2, 2>>],
     [object |-> Mesh(7), extra |-> <<0>>]}

\* Extensions of those with one: extra octets follow the optional part.
MCPeerOptional ==
    MCPeerObjects \cup {[object |-> Object(5, <<<<200>>>>), extra |-> <<1, 1>>],
                        [object |-> Head1(300, <<<<9>>>>), extra |-> <<1>>]}

\* No action reads out.
MCView == <<buffer, queue, taken, damaged, lost>>
=============================================================================
