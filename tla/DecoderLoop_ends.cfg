\* Whole objects of several kinds, some with a length close to 2^64, then up to
\* three octets of any kind.
CONSTANT Inputs <- MCInputs
SPECIFICATION Spec
INVARIANTS
    TypeOK
    LoopAtOnce
PROPERTIES
    TerminatesUnlessWrapping
    Advances
CHECK_DEADLOCK FALSE
