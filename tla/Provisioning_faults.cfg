CONSTANTS
    Setups = {s1}
    Mints = {m1, m2}
    Redeems = {r1, r2}
    Null = Null
    Emails <- MCEmails
    NoEmail = ""
    NormalizeEmail <- MCNormalizeEmail
    HasAt <- MCHasAt
    TTLHours <- OneTTL
    Hour = 2
    Second = 2
    DefaultTTL = 4
    MaxDuration = 7
    MaxTime = 1
    Faults = TRUE
SYMMETRY Interchangeable
SPECIFICATION Spec
INVARIANTS
    TypeOK
    OneSuccessPerInvite
    SuccessMeansCredited
    NoDanglingReference
    InviteOnly
    OneAccountPerIdentity
    BoundInviteOneAccount
PROPERTIES
    CreditIsFinal
    ImplementsInviteOnce
