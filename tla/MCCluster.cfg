\* Concurrent requests through any server and one crash, or late heartbeats
\* enough for three different rings and the transfers they lead to.
SPECIFICATION OneTroubleSpec
CONSTANTS
    a = a
    b = b
    c = c
    k1 = k1
    k2 = k2
    Nodes = {a, b, c}
    Keys = {k1}
    Rank <- RankOfKeys
    Clients = {r1, r2}
    Movers = {s1, s2}
    NoNode = NoNode
    MaxWrites = 2
    MaxDels = 0
    MaxCrashes = 1
    MaxRestarts = 0
    MaxFalse = 4
    Migrations = FALSE
SYMMETRY Symmetric
INVARIANTS
    TypeOK
    FreshWithoutFailure
    TwoCopiesWithoutFailure
    ReadFindsCopy
    LastCopySafe
    PathsDescend
