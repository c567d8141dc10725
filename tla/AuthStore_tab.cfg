CONSTANTS
    Users = {alice, bob}
    Tokens = {k1, k2}
    Calls = {1, 2}
    MaxLoads = 2
    External = External
    Targets = {"/", External}
    None = None
SPECIFICATION FairSpec
INVARIANTS
    TypeOK
    RefreshAlone
    SignedInStaysIn
    ShownIsServed
    NoMixup
PROPERTIES
    ScreenSettles
