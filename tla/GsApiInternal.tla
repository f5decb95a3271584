---------------------------- MODULE GsApiInternal ----------------------------
(***************************************************************************)
(* The copies between the structures of the C API and the objects of the   *)
(* library (src/src/gs_api_internal.cpp).  A C structure is a record with  *)
(* the names of gs_api.h, an object is a record of module Encoder.  A      *)
(* GS_Object has the tag in `type` and the member of its union in `u`.     *)
(*                                                                         *)
(* A pointer is a number, 0 when null; `at` is the memory it points into,  *)
(* a function from pointers to arrays.  A float that is sent as Float16 is *)
(* one that HalfFloat gives back unchanged.                                *)
(***************************************************************************)
EXTENDS Encoder, Decoder

NULL == 0

\* The elements at[p][0] to at[p][n - 1].
Elements(at, p, n) == IF n = 0 THEN <<>> ELSE SubSeq(at[p], 1, n)

Mapped(Copy(_), s) == [i \in DOMAIN s |-> Copy(s[i])]

\* A C Boolean is an octet; as a bool it is true unless it is zero.
Bool(octet) == IF octet = 0 THEN 0 ELSE 1

-----------------------------------------------------------------------------
(* The structures.  Floats, times and Booleans are primitives of a fixed   *)
(* width, a VarUint or a length is a number (module Encoder).              *)

Number == {n \in Nat : IsNumber(n)}

GSLoc1       == [x : Byte, y : Byte, z : Byte]
GSLoc2       == [x : Byte, y : Byte, z : Byte, vx : Byte, vy : Byte, vz : Byte]
GSNorm1      == [x : Byte, y : Byte, z : Byte]
GSTextureUV1 == [u : Number, v : Number]
GSRot1       == [i : Byte, j : Byte, k : Byte]
GSRot2       == [si : Byte, sj : Byte, sk : Byte, ei : Byte, ej : Byte, ek : Byte]
GSTransform1 == [tx : Byte, ty : Byte, tz : Byte]
GSThumb      == [tip : GSTransform1, ip : GSTransform1, mcp : GSTransform1, cmc : GSTransform1]
GSFinger     == [tip : GSTransform1, dip : GSTransform1, pip : GSTransform1,
                 mcp : GSTransform1, cmc : GSTransform1]

GSObject1  == [id : Number, time : Byte, position : GSLoc1, rotation : GSRot1, scale : GSLoc1,
               active : Byte, parent_present : Byte, parent : Number]
GSHeadIPD1 == [ipd : Byte]
GSHead1    == [id : Number, time : Byte, location : GSLoc2, rotation : GSRot2,
               ipd_present : Byte, ipd : GSHeadIPD1]
GSHand1    == [id : Number, time : Byte, left : Byte, location : GSLoc2, rotation : GSRot2]
GSHand2    == [id : Number, time : Byte, left : Byte, location : GSLoc2, rotation : GSRot2,
               wrist : GSTransform1, thumb : GSThumb, index : GSFinger, middle : GSFinger,
               ring : GSFinger, pinky : GSFinger]

\* A pointer to n elements at least, of that type.
PointsTo(p, n, at, type) ==
    /\ n \in Number
    /\ n # 0 => p # NULL /\ p \in DOMAIN at /\ at[p] \in Seq(type) /\ n <= Len(at[p])

IsGSMesh1(g, at) ==
    /\ g = [id |-> g.id,
            num_vertices  |-> g.num_vertices,  vertices  |-> g.vertices,
            num_normals   |-> g.num_normals,   normals   |-> g.normals,
            num_textures  |-> g.num_textures,  textures  |-> g.textures,
            num_triangles |-> g.num_triangles, triangles |-> g.triangles]
    /\ g.id \in Number
    /\ PointsTo(g.vertices, g.num_vertices, at, GSLoc1)
    /\ PointsTo(g.normals, g.num_normals, at, GSNorm1)
    /\ PointsTo(g.textures, g.num_textures, at, GSTextureUV1)
    /\ PointsTo(g.triangles, g.num_triangles, at, Number)

IsGSUnknownObject(g, at) ==
    /\ g = [tag |-> g.tag, data_length |-> g.data_length, data |-> g.data]
    /\ PointsTo(g.data, g.data_length, at, Byte)

-----------------------------------------------------------------------------
(* SerializeCopy: C structures to fields.                                  *)

SerializeCopyLoc1(g)       == <<g.x, g.y, g.z>>
SerializeCopyLoc2(g)       == <<g.x, g.y, g.z, g.vx, g.vy, g.vz>>
SerializeCopyRot1(g)       == <<g.i, g.j, g.k>>
SerializeCopyRot2(g)       == <<g.si, g.sj, g.sk, g.ei, g.ej, g.ek>>
SerializeCopyNorm1(g)      == <<g.x, g.y, g.z>>
SerializeCopyTextureUV1(g) == <<g.u, g.v>>
SerializeCopyTransform1(g) == <<g.tx, g.ty, g.tz>>

SerializeCopyThumb(g) ==
    SerializeCopyTransform1(g.tip) \o SerializeCopyTransform1(g.ip)
        \o SerializeCopyTransform1(g.mcp) \o SerializeCopyTransform1(g.cmc)

SerializeCopyFinger(g) ==
    SerializeCopyTransform1(g.tip) \o SerializeCopyTransform1(g.dip)
        \o SerializeCopyTransform1(g.pip) \o SerializeCopyTransform1(g.mcp)
        \o SerializeCopyTransform1(g.cmc)

-----------------------------------------------------------------------------
(* GSSerializeObject: the object that is handed to the Encoder.            *)

SerializeObject1(g) ==
    [kind |-> "Object1", id |-> <<g.id>>, time |-> <<g.time>>,
     position |-> SerializeCopyLoc1(g.position), rotation |-> SerializeCopyRot1(g.rotation),
     scale |-> SerializeCopyLoc1(g.scale), active |-> <<Bool(g.active)>>,
     parent |-> IF g.parent_present # 0 THEN <<<<g.parent>>>> ELSE <<>>]

\* Mutant: the IPD is taken whether or not it is present.
SerializeHead1Always(g) ==
    [kind |-> "Head1", id |-> <<g.id>>, time |-> <<g.time>>,
     location |-> SerializeCopyLoc2(g.location), rotation |-> SerializeCopyRot2(g.rotation),
     ipd |-> <<<<g.ipd.ipd>>>>]

SerializeHead1(g) ==
    [kind |-> "Head1", id |-> <<g.id>>, time |-> <<g.time>>,
     location |-> SerializeCopyLoc2(g.location), rotation |-> SerializeCopyRot2(g.rotation),
     ipd |-> IF g.ipd_present # 0 THEN <<<<g.ipd.ipd>>>> ELSE <<>>]

SerializeHand1(g) ==
    [kind |-> "Hand1", id |-> <<g.id>>, time |-> <<g.time>>, left |-> <<Bool(g.left)>>,
     location |-> SerializeCopyLoc2(g.location), rotation |-> SerializeCopyRot2(g.rotation)]

SerializeMesh1(g, at) ==
    [kind |-> "Mesh1", id |-> <<g.id>>,
     vertices  |-> Mapped(SerializeCopyLoc1, Elements(at, g.vertices, g.num_vertices)),
     normals   |-> Mapped(SerializeCopyNorm1, Elements(at, g.normals, g.num_normals)),
     textures  |-> Mapped(SerializeCopyTextureUV1, Elements(at, g.textures, g.num_textures)),
     triangles |-> [i \in 1..g.num_triangles |-> <<at[g.triangles][i]>>]]

SerializeHand2(g) ==
    [kind |-> "Hand2", id |-> <<g.id>>, time |-> <<g.time>>, left |-> <<Bool(g.left)>>,
     location |-> SerializeCopyLoc2(g.location), rotation |-> SerializeCopyRot2(g.rotation),
     wrist |-> SerializeCopyTransform1(g.wrist), thumb |-> SerializeCopyThumb(g.thumb),
     index |-> SerializeCopyFinger(g.index), middle |-> SerializeCopyFinger(g.middle),
     ring |-> SerializeCopyFinger(g.ring), pinky |-> SerializeCopyFinger(g.pinky)]

SerializeHeadIPD(g) == [kind |-> "HeadIPD1", ipd |-> <<g.ipd>>]

SerializeUnknown(g, at) ==
    [kind |-> "Unknown", tag |-> g.tag, data |-> Elements(at, g.data, g.data_length)]

\* The union is read as the tag says; every other tag is of an unknown object.
GSSerialize(o, at) ==
    CASE o.type = TagOf["Object1"]  -> SerializeObject1(o.u)
      [] o.type = TagOf["Head1"]    -> SerializeHead1(o.u)
      [] o.type = TagOf["Hand1"]    -> SerializeHand1(o.u)
      [] o.type = TagOf["Mesh1"]    -> SerializeMesh1(o.u, at)
      [] o.type = TagOf["Hand2"]    -> SerializeHand2(o.u)
      [] o.type = TagOf["HeadIPD1"] -> SerializeHeadIPD(o.u)
      [] OTHER                      -> SerializeUnknown(o.u, at)

\* A GS_Object with the union its tag says, of a length that is a number.
IsGSObject(o, at) ==
    /\ o = [type |-> o.type, u |-> o.u]
    /\ CASE o.type = TagOf["Object1"]  -> o.u \in GSObject1
         [] o.type = TagOf["Head1"]    -> o.u \in GSHead1
         [] o.type = TagOf["Hand1"]    -> o.u \in GSHand1
         [] o.type = TagOf["Mesh1"]    ->
              /\ IsGSMesh1(o.u, at)
              /\ Length(SerializeAll(Mesh1Written, SerializeMesh1(o.u, at))) < Huge
         [] o.type = TagOf["Hand2"]    -> o.u \in GSHand2
         [] o.type = TagOf["HeadIPD1"] -> o.u \in GSHeadIPD1
         [] OTHER                      ->
              /\ o.type \in Number \ {0} /\ o.u.tag = o.type
              /\ IsGSUnknownObject(o.u, at)

-----------------------------------------------------------------------------
(* DeserializeCopy: fields to C structures.                                *)

DeserializeCopyLoc1(s)  == [x |-> s[1], y |-> s[2], z |-> s[3]]
DeserializeCopyLoc2(s)  ==
    [x |-> s[1], y |-> s[2], z |-> s[3], vx |-> s[4], vy |-> s[5], vz |-> s[6]]
DeserializeCopyRot1(s)  == [i |-> s[1], j |-> s[2], k |-> s[3]]
DeserializeCopyRot2(s)  ==
    [si |-> s[1], sj |-> s[2], sk |-> s[3], ei |-> s[4], ej |-> s[5], ek |-> s[6]]
DeserializeCopyNorm1(s) == [x |-> s[1], y |-> s[2], z |-> s[3]]
DeserializeCopyTextureUV1(s) == [u |-> s[1], v |-> s[2]]
DeserializeCopyTransform1(s) == [tx |-> s[1], ty |-> s[2], tz |-> s[3]]

\* The n-th transform of a field.
TransformAt(s, n) == DeserializeCopyTransform1(SubSeq(s, 3 * n - 2, 3 * n))

DeserializeCopyThumb(s) ==
    [tip |-> TransformAt(s, 1), ip |-> TransformAt(s, 2),
     mcp |-> TransformAt(s, 3), cmc |-> TransformAt(s, 4)]

\* Mutant: two joints are exchanged.
DeserializeCopyFingerSwapped(s) ==
    [tip |-> TransformAt(s, 1), dip |-> TransformAt(s, 3), pip |-> TransformAt(s, 2),
     mcp |-> TransformAt(s, 4), cmc |-> TransformAt(s, 5)]

DeserializeCopyFinger(s) ==
    [tip |-> TransformAt(s, 1), dip |-> TransformAt(s, 2), pip |-> TransformAt(s, 3),
     mcp |-> TransformAt(s, 4), cmc |-> TransformAt(s, 5)]

-----------------------------------------------------------------------------
(* GSDeserializeObject: the GS_Object a caller gets.  It starts all zero;  *)
(* arrays is the sequence of the blocks allocated for it, in order.        *)

DeserializeHead1(v) ==
    [id |-> v.id[1], time |-> v.time[1], location |-> DeserializeCopyLoc2(v.location),
     rotation |-> DeserializeCopyRot2(v.rotation),
     ipd_present |-> IF v.ipd # <<>> THEN 1 ELSE 0,
     ipd |-> [ipd |-> IF v.ipd # <<>> THEN v.ipd[1][1] ELSE 0]]

DeserializeHand1(v) ==
    [id |-> v.id[1], time |-> v.time[1], left |-> v.left[1],
     location |-> DeserializeCopyLoc2(v.location), rotation |-> DeserializeCopyRot2(v.rotation)]

DeserializeHand2(v) ==
    [id |-> v.id[1], time |-> v.time[1], left |-> v.left[1],
     location |-> DeserializeCopyLoc2(v.location), rotation |-> DeserializeCopyRot2(v.rotation),
     wrist |-> DeserializeCopyTransform1(v.wrist), thumb |-> DeserializeCopyThumb(v.thumb),
     index |-> DeserializeCopyFinger(v.index), middle |-> DeserializeCopyFinger(v.middle),
     ring |-> DeserializeCopyFinger(v.ring), pinky |-> DeserializeCopyFinger(v.pinky)]

DeserializeHeadIPD(v) == [ipd |-> v.ipd[1]]

DeserializeObject1(v) ==
    [id |-> v.id[1], time |-> v.time[1], position |-> DeserializeCopyLoc1(v.position),
     rotation |-> DeserializeCopyRot1(v.rotation), scale |-> DeserializeCopyLoc1(v.scale),
     active |-> v.active[1], parent_present |-> IF v.parent # <<>> THEN 1 ELSE 0,
     parent |-> IF v.parent # <<>> THEN v.parent[1][1] ELSE 0]

\* A mesh has an array for each of its vectors that is not empty.
ArrayName(v, name) == IF v.kind = "Mesh1" /\ v[name] # <<>> THEN <<name>> ELSE <<>>

ArrayNames(v) ==
    ArrayName(v, "vertices") \o ArrayName(v, "normals")
        \o ArrayName(v, "textures") \o ArrayName(v, "triangles")

\* The pointer to the array of that name: null if there is none, or not yet.
PointerTo(v, name, arrays) ==
    LET names == ArrayNames(v)
    IN  IF \E i \in DOMAIN arrays : names[i] = name
        THEN arrays[CHOOSE i \in DOMAIN arrays : names[i] = name] ELSE NULL

DeserializeMesh1(v, arrays) ==
    [id |-> v.id[1],
     num_vertices  |-> Len(v.vertices),  vertices  |-> PointerTo(v, "vertices", arrays),
     num_normals   |-> Len(v.normals),   normals   |-> PointerTo(v, "normals", arrays),
     num_textures  |-> Len(v.textures),  textures  |-> PointerTo(v, "textures", arrays),
     num_triangles |-> Len(v.triangles), triangles |-> PointerTo(v, "triangles", arrays)]

\* Octets that are not understood have an array even when there are none.
DeserializeUnknown(v, arrays) ==
    [tag |-> v.tag, data_length |-> Len(v.data),
     data |-> IF arrays = <<>> THEN NULL ELSE arrays[1]]

GSDeserialize(v, arrays) ==
    CASE v.kind = "Head1"    -> [type |-> TagOf[v.kind], u |-> DeserializeHead1(v)]
      [] v.kind = "Hand1"    -> [type |-> TagOf[v.kind], u |-> DeserializeHand1(v)]
      [] v.kind = "Mesh1"    -> [type |-> TagOf[v.kind], u |-> DeserializeMesh1(v, arrays)]
      [] v.kind = "Hand2"    -> [type |-> TagOf[v.kind], u |-> DeserializeHand2(v)]
      [] v.kind = "HeadIPD1" -> [type |-> TagOf[v.kind], u |-> DeserializeHeadIPD(v)]
      [] v.kind = "Object1"  -> [type |-> TagOf[v.kind], u |-> DeserializeObject1(v)]
      [] OTHER               -> [type |-> v.tag, u |-> DeserializeUnknown(v, arrays)]

\* The arrays it takes, in the order they are allocated.
MeshCells(v, name) ==
    CASE name = "vertices"  -> Mapped(DeserializeCopyLoc1, v.vertices)
      [] name = "normals"   -> Mapped(DeserializeCopyNorm1, v.normals)
      [] name = "textures"  -> Mapped(DeserializeCopyTextureUV1, v.textures)
      [] name = "triangles" -> [i \in DOMAIN v.triangles |-> v.triangles[i][1]]

ArraysOf(v) ==
    IF v.kind = "Unknown" THEN <<v.data>>
    ELSE LET names == ArrayNames(v) IN [i \in DOMAIN names |-> MeshCells(v, names[i])]
=============================================================================
