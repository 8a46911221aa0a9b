\* A crash, a restart and the divided views they leave; a write or a DEL, reads
\* and MIGRATE commands.
SPECIFICATION FairSpec
CONSTANTS
    a = a
    b = b
    c = c
    k1 = k1
    k2 = k2
    Nodes = {a, b, c}
    Keys = {k1}
    Rank <- RankOfKeys
    Clients = {r1}
    Movers = {s1}
    NoNode = NoNode
    MaxWrites = 1
    MaxDels = 1
    MaxCrashes = 1
    MaxRestarts = 1
    MaxFalse = 0
    Migrations = TRUE
INVARIANTS
    LastCopySafe
PROPERTIES
    Answers
