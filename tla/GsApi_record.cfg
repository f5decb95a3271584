\* The list of allocations cannot grow when an array is to be recorded.
CONSTANTS
    Encoders = {e1}
    Decoders = {d1}
    Slots = {s1, s2}
    Buffers = {1}
    Capacity <- MCTight
    Arrays <- MCArrays
    CObjects <- WithArrays
    Blocks = {1, 2, 3}
    Cuts = {}
    MaxObjects = 2
    Failures = {"record"}
SPECIFICATION Spec
VIEW MCView
INVARIANT
    NothingLeaks
