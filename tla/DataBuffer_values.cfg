\* Two objects and a block for each, two octets that a buffer tells apart.
CONSTANTS
    Objects = {o1, o2}
    Blocks = {b1, b2}
    NULL = NULL
    Octet = {x1, x2}
    Indeterminate = Indeterminate
    MaxSize = 2
    SizeModulus = 8
    Values <- MCDistinct
    Half = 1
    Counts <- MCCounts
    ReuseTorn = FALSE
    NullClaims = FALSE
SPECIFICATION Spec
SYMMETRY MCOctetSymmetry
VIEW MCView
INVARIANTS
    LengthsOrdered
    NoFault
PROPERTIES
    ImplementsOctetBuffers
    CopiesEqual
CHECK_DEADLOCK FALSE
