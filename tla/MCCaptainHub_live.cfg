SPECIFICATION ConnectedSpec
CONSTANTS
    c1 = c1
    c2 = c2
    c3 = c3
    w1 = w1
    w2 = w2
    p1 = p1
    p2 = p2
    NoConn = NoConn
    Free = Free
    Conns = {c1, c2}
    WorkerIds = {w1, w2}
    Pools = {p1, p2}
    Admins = {"a1"}
    WorkerOf <- TwoWorkers
    PoolOf <- TwoPools
    EgressCap = 1
PROPERTIES ConnectionsAreTornDown BroadcastsEnd
CHECK_DEADLOCK FALSE
