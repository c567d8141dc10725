CONSTANTS
    Requests = {r1, r2, r3}
    Kinds = {"login", "logout", "me", "users", "ws"}
    Users = {"ada", "bob"}
    RoleOf <- MCRoleOf
    Null = Null
    Second = 2
    TTL = 3
    MaxTime = 4
    Bearers = TRUE
    Faults = TRUE
SYMMETRY Interchangeable
SPECIFICATION Spec
INVARIANTS
    TypeOK
    ServedAsOwner
    RefusedForCause
    NeverServedLate
PROPERTIES
    ImplementsSessionLife
