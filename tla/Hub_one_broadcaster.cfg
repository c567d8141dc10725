CONSTANTS
    Clients = {c1, c2}
    Broadcasters = {b1}
    Cap = 1
    MaxMsgs = 3
    None = None
SPECIFICATION FairSpec
INVARIANTS
    TypeOK
    NeverPanics
    GapFree
PROPERTIES
    BroadcastCompletes
    NoLeak
    ImplementsFeed
