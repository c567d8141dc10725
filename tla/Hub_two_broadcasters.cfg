CONSTANTS
    Clients = {c1}
    Broadcasters = {b1, b2}
    Cap = 1
    MaxMsgs = 3
    None = None
SPECIFICATION Spec
INVARIANTS
    NeverPanics
