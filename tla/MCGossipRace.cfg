SPECIFICATION Spec
CONSTANTS
    Peers = {b, c}
    DeadAfter = 3
    MaxFlips = 2
    MaxFatals = 0
    MaxTransfers = 2
    NoPeer = NoPeer
INVARIANTS
    SnapshotIsAtomic
