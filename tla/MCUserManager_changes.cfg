SPECIFICATION MCSpec
CONSTANTS
    None = None
    Gone = Gone
    Callers = {c1}
    Users = {u1}
    ChanCap = 2
    MaxChanges = 1
    MaxFaults = 1
INVARIANTS StaleOnlyByCause
CHECK_DEADLOCK FALSE
