\* Two decoders and two buffers; the decoders take arrays from three blocks, allocations fail.
CONSTANTS
    Encoders = {e1}
    Decoders = {d1, d2}
    Slots = {s1}
    Buffers = {1, 2}
    Capacity <- MCTwo
    Arrays <- MCArrays
    CObjects <- WithArrays
    Blocks = {1, 2, 3}
    Cuts = {}
    MaxObjects = 1
    Failures = {"array", "record"}
SPECIFICATION Spec
VIEW MCView
SYMMETRY MCDecoders
INVARIANTS
    AllocationsOwned
    ObjectsIntact
