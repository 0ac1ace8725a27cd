SPECIFICATION Spec
CONSTANTS
    a = a
    b = b
    Upstreams = {a, b}
    NoUpstream = NoUpstream
    Addresses = {a, b}
    NoAddress = NoUpstream
    Lists <- MCLists
    Sessions = {s}
    NoSession = NoSession
    Users = {u1, u2}
    NoUser = NoUser
    Wrap = 2
    InitialCap = 1
    Hosts = {h}
    Checks = {k1, k2}
    MinCount = 1
    MaxCount = 2
    Conns = {c1, c2}
SYMMETRY MCSymmetry
CONSTRAINT MCBound
INVARIANTS TypeOK MisroutedOnlyByPool SessionMovesOnlyByCause LateProxyServesOnlyMalformed
PROPERTY SettledUnlessOverwritten
CHECK_DEADLOCK FALSE
