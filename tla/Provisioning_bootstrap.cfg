CONSTANTS
    Setups = {s1, s2}
    Mints = {m1}
    Redeems = {r1, r2}
    Null = Null
    Emails <- MCEmails
    NoEmail = ""
    NormalizeEmail <- MCNormalizeEmail
    HasAt <- MCHasAt
    TTLHours <- OneTTL
    Hour = 2
    Second = 2
    DefaultTTL = 4
    MaxDuration = 7
    MaxTime = 0
    Faults = FALSE
SPECIFICATION Spec
INVARIANTS
    OneBootstrap
