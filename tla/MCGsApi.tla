------------------------------- MODULE MCGsApi -------------------------------
(* C objects of every type, and small worlds for the C API. *)
EXTENDS GsApi

Xyz(n)       == [x |-> n, y |-> n + 1, z |-> n + 2]
Location2(n) == [x |-> n, y |-> n + 1, z |-> n + 2, vx |-> n + 3, vy |-> n + 4, vz |-> n + 5]
Rotation1(n) == [i |-> n, j |-> n + 1, k |-> n + 2]
Rotation2(n) == [si |-> n, sj |-> n + 1, sk |-> n + 2, ei |-> n + 3, ej |-> n + 4, ek |-> n + 5]
Joint(n)     == [tx |-> n, ty |-> n + 1, tz |-> n + 2]
CThumb(n)    == [tip |-> Joint(n), ip |-> Joint(n + 3), mcp |-> Joint(n + 6), cmc |-> Joint(n + 9)]
CFinger(n)   == [tip |-> Joint(n), dip |-> Joint(n + 3), pip |-> Joint(n + 6),
                 mcp |-> Joint(n + 9), cmc |-> Joint(n + 12)]

\* The caller's arrays.
MCArrays == (101 :> <<Xyz(1), Xyz(7)>>) @@ (102 :> <<Xyz(20)>>)
            @@ (103 :> <<[u |-> 3, v |-> 400]>>) @@ (104 :> <<1, 130>>) @@ (105 :> <<8, 9>>)

CHead(present) ==
    [type |-> 1, u |-> [id |-> 5, time |-> 2, location |-> Location2(10),
        rotation |-> Rotation2(20), ipd_present |-> present, ipd |-> [ipd |-> 63]]]

CHand1 == [type |-> 2, u |-> [id |-> 300, time |-> 2, left |-> 255,
              location |-> Location2(10), rotation |-> Rotation2(20)]]

CObject1(present) ==
    [type |-> 3, u |-> [id |-> 5, time |-> 2, position |-> Xyz(30), rotation |-> Rotation1(40),
        scale |-> Xyz(50), active |-> 2, parent_present |-> present, parent |-> 200]]

CMesh(vertices, normals, textures, triangles) ==
    [type |-> 32768, u |-> [id |-> 7,
        num_vertices  |-> vertices,  vertices  |-> 101, num_normals   |-> normals,   normals   |-> 102,
        num_textures  |-> textures,  textures  |-> 103, num_triangles |-> triangles, triangles |-> 104]]

CHand2 ==
    [type |-> 32769, u |-> [id |-> 1, time |-> 2, left |-> 0, location |-> Location2(10),
        rotation |-> Rotation2(20), wrist |-> Joint(80), thumb |-> CThumb(90),
        index |-> CFinger(110), middle |-> CFinger(130), ring |-> CFinger(150),
        pinky |-> CFinger(170)]]

CHeadIPD == [type |-> 32770, u |-> [ipd |-> 63]]

CUnknown(n) == [type |-> 4, u |-> [tag |-> 4, data_length |-> n, data |-> 105]]

\* Every type, with and without what is optional, arrays full and empty.
EveryKind == {CHead(0), CHead(1), CHand1, CObject1(0), CObject1(1), CMesh(2, 1, 1, 2),
              CMesh(0, 1, 0, 1), CHand2, CHeadIPD, CUnknown(2), CUnknown(0), NoObject}

\* A mesh with two arrays, octets of an unknown type.
WithArrays == {CMesh(0, 0, 1, 1), CUnknown(2)}

MCCapacity == 1 :> 189
MCTight  == 1 :> 17
MCTwo == (1 :> 13) @@ (2 :> 12)

\* Nothing tells one handle, or one GS_Object, from another.
MCDecoders == Permutations(Decoders)
MCSlots    == Permutations(Slots)

\* No action reads out.
MCView == <<memory, encoder, decoder, heap, slot, written>>
=============================================================================
