SPECIFICATION Spec
CONSTANTS
    c1 = c1
    c2 = c2
    c3 = c3
    w1 = w1
    w2 = w2
    p1 = p1
    p2 = p2
    NoConn = NoConn
    Free = Free
    Conns = {c1, c2}
    WorkerIds = {w1}
    Pools = {p1}
    Admins = {"a1"}
    WorkerOf <- OneWorker
    PoolOf <- OnePool
    EgressCap = 1
SYMMETRY ConnSymmetry
INVARIANTS TypeOK RegisteredIsLive CrashesOnlyByCause SoleConnectionIsRegistered
PROPERTIES KeepsRegistryPromise WedgesAreFinal
CHECK_DEADLOCK FALSE
