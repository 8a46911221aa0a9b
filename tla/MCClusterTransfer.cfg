\* A server crashes and comes back, reads during the transfer to it.
SPECIFICATION Spec
CONSTANTS
    a = a
    b = b
    c = c
    k1 = k1
    k2 = k2
    Nodes = {a, b, c}
    Keys = {k1}
    Rank <- RankOfKeys
    Clients = {r1}
    Movers = {s1}
    NoNode = NoNode
    MaxWrites = 1
    MaxDels = 0
    MaxCrashes = 1
    MaxRestarts = 1
    MaxFalse = 0
    Migrations = FALSE
SYMMETRY Symmetric
INVARIANTS
    ServedDuringTransfer
