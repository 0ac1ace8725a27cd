SPECIFICATION MCFairSpec
CONSTANTS
    None = None
    Gone = Gone
    Callers = {c1, c2}
    Users = {u1}
    ChanCap = 1
    MaxChanges = 0
    MaxFaults = 1
INVARIANTS TypeOK PendingOnlyWhileVerifying OnlyProvenUsersEnter
PROPERTIES LoginsEndUnlessStuck AbandonedForGood
CHECK_DEADLOCK FALSE
