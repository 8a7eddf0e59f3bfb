SPECIFICATION AccountsSpec
CONSTANTS
    u1 = u1
    u2 = u2
    Workers = {w1, w2}
    Users = {u1, u2}
    Names = {"n1", "n2"}
    Passwords = {"p1", "p2"}
    Roles = {"CLERK", "SUPER_ADMIN"}
    Permissions = {"sell"}
    SuperAdmin = "SUPER_ADMIN"
    Scopes = {"GLOBAL", "route"}
    Global = "GLOBAL"
    FirstUser <- MCFirstUser
    FirstCodes = {"CLERK", "SUPER_ADMIN", "sell"}
    Mixes <- MCMixes
    MaxRequests = 4
INVARIANTS
    SessionsAreCurrent
    AdmittedByKeptRights
CHECK_DEADLOCK FALSE
