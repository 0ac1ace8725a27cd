SPECIFICATION MCSpec
CONSTANTS
    None = None
    Gone = Gone
    Callers = {c1, c2}
    Users = {u1}
    ChanCap = 1
    MaxChanges = 0
    MaxFaults = 0
INVARIANT InvalidPasswordRejected
CHECK_DEADLOCK FALSE
