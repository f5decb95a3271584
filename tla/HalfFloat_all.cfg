\* Every half; floats around every bound, of every exponent whose shift is defined.
CONSTANTS
    Floats <- MCFloats
    Halves <- MCHalves
    Nothing = Nothing
SPECIFICATION Spec
INVARIANTS
    TypeOK
    Monotone
PROPERTIES
    Exact
    RoundTrip
    Adjacent
    Nearest
