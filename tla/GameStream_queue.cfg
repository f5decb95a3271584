\* Objects of every kind, extended ones of the kinds without an optional part.
CONSTANTS
    BufferSizes = {0, 6, 60, 195}
    ObjectVectors <- MCVectors
    PeerObjects <- MCPeerObjects
    Cuts = {1, 4, 30}
    MaxObjects = 2
SPECIFICATION Spec
VIEW MCView
INVARIANTS
    TypeOK
    Aligned
PROPERTY ImplementsObjectQueue
CHECK_DEADLOCK FALSE
