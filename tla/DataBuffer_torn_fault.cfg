\* An object is used again after its operator= threw.
CONSTANTS
    Objects = {o1, o2}
    Blocks = {b1, b2}
    NULL = NULL
    Octet = {1}
    Indeterminate = Indeterminate
    MaxSize = 2
    SizeModulus = 8
    Values <- MCValues
    Half = 1
    Counts <- MCCounts
    ReuseTorn = TRUE
    NullClaims = FALSE
SPECIFICATION Spec
INVARIANT NoFault
CHECK_DEADLOCK FALSE
