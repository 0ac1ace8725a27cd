SPECIFICATION Spec
CONSTANTS
    Conns = {c1, c2}
    Users = {u1, u2}
    NoUser = NoUser
    Limit = 1
    MaxReloads = 1
SYMMETRY MCSymmetry
INVARIANTS TypeOK OverLimitOnlyByCause CountIsExact CountFloor ActiveIsExact
PROPERTY KeepsQuota
CHECK_DEADLOCK FALSE
