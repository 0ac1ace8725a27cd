SPECIFICATION Spec
CONSTANTS
    r1 = r1  r2 = r2  t1 = t1
    Admins = {a1, a2}
    Regions = {r1, r2}
    Upstreams = {s1}
    PoolIds = {p1, p2}
    Tags = {t1}
    TagOf <- MCTagOf
    WorkerRegion <- MCWorkerRegion
    Settings = {x1, x2}
    WorkerIds = {w1}
    UserIds = {u1}
    IPs = {i1}
    None = None
SYMMETRY StoreSymmetry
INVARIANTS TypeOK WorkersAreTold UsersAreTold NoOrphans
CHECK_DEADLOCK FALSE
