\* Floats too small for a half, the smallest among them.
CONSTANTS
    Floats <- MCSmallFloats
    Halves = {}
    Nothing = Nothing
SPECIFICATION Spec
PROPERTY SmallStaysSmall
