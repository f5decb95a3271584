\* A newer peer extends an Object1 or a Head1 after its optional part.
CONSTANTS
    BufferSizes = {0, 60}
    ObjectVectors <- MCVectors
    PeerObjects <- MCPeerOptional
    Cuts = {4}
    MaxObjects = 2
SPECIFICATION Spec
INVARIANT Aligned
CHECK_DEADLOCK FALSE
