\* Three nodes with two virtual nodes each on every placement, colliding ones
\* included.  Copies of one position pile up when colliding nodes leave and come
\* back: a behaviour stops where the next AddNode would exceed MaxCopies.
SPECIFICATION Spec
CONSTANTS
    Nodes = {a, b, c}
    VNodes = {v1, v2}
    RingSize = 6
    Hashes <- AllHashes
    MaxCopies = 3
    NoNode = NoNode
SYMMETRY RingSymmetry
INVARIANTS
    TypeOK
    LiveOwner
    Agreement
    ReplicaIsHeir
PROPERTIES
    MinimalMovement
CHECK_DEADLOCK FALSE
