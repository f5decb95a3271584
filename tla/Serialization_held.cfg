\* A string that holds octets already is read into.
CONSTANTS
    Sizes = {0, 2, 4, 10}
    Inputs <- MCInputs
    Losses = {1, 2, 4}
    MaxValues = 2
    Leftovers <- MCLeftovers
SPECIFICATION Spec
VIEW MCView
PROPERTY CountsOctetsRead
CHECK_DEADLOCK FALSE
