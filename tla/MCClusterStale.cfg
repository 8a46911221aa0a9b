\* A transfer to a peer that was late, racing a write.
SPECIFICATION Spec
CONSTANTS
    a = a
    b = b
    c = c
    k1 = k1
    k2 = k2
    Nodes = {a, b, c}
    Keys = {k1}
    Rank <- RankOfKeys
    Clients = {r1, r2}
    Movers = {s1}
    NoNode = NoNode
    MaxWrites = 2
    MaxDels = 0
    MaxCrashes = 0
    MaxRestarts = 0
    MaxFalse = 1
    Migrations = FALSE
SYMMETRY Symmetric
INVARIANTS
    FreshReads
