\* One server, two peers that come and go, one runtime abort.
SPECIFICATION FairSpec
CONSTANTS
    Peers = {b, c}
    DeadAfter = 3
    MaxFlips = 4
    MaxFatals = 1
    MaxTransfers = 2
    NoPeer = NoPeer
INVARIANTS
    TypeOK
    ViewsAgree
    RoutableHasAddress
    OneWriter
PROPERTIES
    ViewSpec
    Converges
