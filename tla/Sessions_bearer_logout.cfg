CONSTANTS
    Requests = {r1, r2}
    Kinds = {"login", "logout", "me", "users"}
    Users = {"ada", "bob"}
    RoleOf <- MCRoleOf
    Null = Null
    Second = 2
    TTL = 3
    MaxTime = 4
    Bearers = TRUE
    Faults = FALSE
SPECIFICATION Spec
INVARIANTS
    LogoutRemovesSession
