\* Objects one after the other, from three blocks; allocations fail.
CONSTANTS
    Encoders = {e1}
    Decoders = {d1}
    Slots = {s1, s2}
    Buffers = {1}
    Capacity <- MCTight
    Arrays <- MCArrays
    CObjects <- WithArrays
    Blocks = {1, 2, 3}
    Cuts = {}
    MaxObjects = 2
    Failures = {"copy", "decode", "array"}
SPECIFICATION Spec
VIEW MCView
SYMMETRY MCSlots
INVARIANTS
    NothingLeaks
    ObjectsIntact
PROPERTIES
    EncodesAllOrNothing
    DecodesWhatIsThere
