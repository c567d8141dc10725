CONSTANTS
    Setups = {s1, s2}
    Mints = {m1}
    Redeems = {r1, r2}
    Null = Null
    Emails <- MCEmails
    NoEmail = ""
    NormalizeEmail <- MCNormalizeEmail
    HasAt <- MCHasAt
    TTLHours <- MCTTLHours
    Hour = 2
    Second = 2
    DefaultTTL = 4
    MaxDuration = 7
    MaxTime = 3
    Faults = FALSE
SPECIFICATION FairSpec
PROPERTIES
    SpentInviteAdmitsNobody
    NoRebootstrap
    AccountConsumesInvite
