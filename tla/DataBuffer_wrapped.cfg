\* A caller that passes an offset or a count whose sum wraps round.
CONSTANTS
    Objects = {o1, o2}
    Blocks = {b1, b2}
    NULL = NULL
    Octet = {1}
    Indeterminate = Indeterminate
    MaxSize = 2
    SizeModulus = 8
    Values <- MCValues
    Half = 1
    Counts <- MCWideCounts
    ReuseTorn = FALSE
    NullClaims = FALSE
SPECIFICATION Spec
INVARIANT NoFault
CHECK_DEADLOCK FALSE
