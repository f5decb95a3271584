\* Two objects and three blocks; an object is used again after a failed
\* assignment, null has a size, and counts wrap.
CONSTANTS
    Objects = {o1, o2}
    Blocks = {b1, b2, b3}
    NULL = NULL
    Octet = {1}
    Indeterminate = Indeterminate
    MaxSize = 2
    SizeModulus = 8
    Values <- MCValues
    Half = 1
    Counts <- MCWideCounts
    ReuseTorn = TRUE
    NullClaims = TRUE
SPECIFICATION Spec
SYMMETRY MCSymmetry
VIEW MCOwners
INVARIANTS
    TypeOK
    OneOwner
    NoDangling
CHECK_DEADLOCK FALSE
