SPECIFICATION Spec
CONSTANTS
    u1 = u1
    u2 = u2
    r1 = r1
    r2 = r2
    Users = {u1, u2}
    Requests = {r1, r2}
    MaxArrivals = 2
    MaxInvites = 1
CHECK_DEADLOCK FALSE
SYMMETRY Symmetric
INVARIANT
    HasOwner
