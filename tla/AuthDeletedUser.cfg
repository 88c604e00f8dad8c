SPECIFICATION Spec
CONSTANTS
    u1 = u1
    r1 = r1
    r2 = r2
    Users = {u1}
    Requests = {r1, r2}
    MaxArrivals = 5
    MaxPassword = 1
    MaxSessions = 3
    MaxTokens = 4
    MaxMails = 1
    MaxCodes = 1
CHECK_DEADLOCK FALSE
SYMMETRY Symmetric
INVARIANT
    DeletedUsersHaveNoSession
