\* Values on both sides of every boundary, in buffers too small for some.
CONSTANTS
    Sizes = {0, 2, 4, 10}
    Inputs <- MCInputs
    Losses = {1, 2, 4}
    MaxValues = 2
    Leftovers <- MCLeftovers
SPECIFICATION Spec
VIEW MCView
INVARIANT TypeOK
PROPERTIES
    ReadsBack
    FreshCountsExact
CHECK_DEADLOCK FALSE
