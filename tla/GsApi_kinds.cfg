\* Objects of every type, one in a buffer; no memory for texts.
CONSTANTS
    Encoders = {e1}
    Decoders = {d1}
    Slots = {s1}
    Buffers = {1}
    Capacity <- MCCapacity
    Arrays <- MCArrays
    CObjects <- EveryKind
    Blocks = {1, 2, 3, 4, 5}
    Cuts = {1, 5}
    MaxObjects = 1
    Failures = {"context", "text"}
SPECIFICATION Spec
VIEW MCView
INVARIANTS
    TypeOK
    ObjectsIntact
PROPERTIES
    EncodesAllOrNothing
    DecodesWhatIsThere
